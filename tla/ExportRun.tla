------------------------------ MODULE ExportRun ------------------------------
(***************************************************************************)
(* One execution of the exporter after another in the same directory:      *)
(* run() and the file life cycle of the three exporters.  A run reads its  *)
(* configuration, connects, picks the schemas asked for, names and opens   *)
(* (and truncates) their files before it reads anything, then collects and *)
(* writes schema after schema; a PostgreSQL schema with statements about   *)
(* other schemas gets a cross-schema file of its own.  Queries and writes  *)
(* may fail, the process may die at any moment, and the databases may      *)
(* change between runs.                                                    *)
(*                                                                         *)
(* Collecting the tables of a schema is one step here: MetadataCollect     *)
(* shows that it returns what the serial loop returns.                     *)
(***************************************************************************)
EXTENDS FileNames, FiniteSets, FiniteSetsExt

CONSTANTS
  MaxRev,     \* bound: how often the definition of a schema changes
  MaxRuns     \* bound: how many runs are started

ASSUME BoundsAssumption == MaxRev \in Nat /\ MaxRuns \in Nat

VARIABLES
  naming,   \* the system, and the schemas' names on it
  db,       \* each schema's definition: revision, and has cross-schema statements
  fs,       \* what each output file holds
  workbook, \* what the .xlsx file holds: the sheets of the run that saved it
  runs,     \* runs started so far
  pc,       \* where run() is
  format,   \* output format of the runs
  strict,   \* --strict
  asked,    \* the schemas asked for; then those of them that the server lacks
  selected, \* the catalog of the run
  todo,     \* schemas that the current loop has still to visit
  suffix,   \* the n of each schema's file or sheet
  sheets,   \* Excel: the sheets filled in memory
  buffer,   \* the collected tables of the current schema
  warned,   \* WARNINGS > 0
  silent,   \* history: the schemas of which something is missing without a warning
  outcome   \* how the last run ended

memory == <<strict, asked, selected, todo, suffix, sheets, buffer, warned, silent>>
vars   == <<naming, db, fs, workbook, runs, pc, format, memory, outcome>>
fixed  == <<naming, db, runs, format, strict>>

Formats == {"excel", "markdown", "sql"}
Revs    == 0..MaxRev

\* The tables of schema s as of revision rev; gap: something of it is missing.
Data == [owner : Schemas, rev : Revs, gap : BOOLEAN]
\* A file is absent, empty after being opened, torn by a failed write or whole.
States  == {"absent", "empty", "torn", "whole"}
Content == [state : States, data : SUBSET Data]
Absent  == [state |-> "absent", data |-> {}]
Empty   == [state |-> "empty", data |-> {}]
Torn    == [state |-> "torn", data |-> {}]
Whole(d) == [state |-> "whole", data |-> d]

\* The file that schema s gets with suffix n, and the two that go by its name.
IdOf(s, n) == Inode(naming.system, FileName(naming.name[s], n))
Ids        == {IdOf(s, n) : s \in Schemas, n \in Suffixes}
Files      == {"main", "cross"} \X Ids
Main(s)    == <<"main", IdOf(s, suffix[s])>>
\* A mutant: one cross-schema file for all schemas.
SharedCross(s) == <<"cross", IdOf(1, 1)>>
Cross(s)   == <<"cross", IdOf(s, suffix[s])>>

Current  == Min(todo)
Plain    == [s \in Schemas |-> 1]
NoBuffer == [owner |-> 1, rev |-> 0, gap |-> FALSE]

\* The server has system schemas, 0 stands for them; another schema it lacks.
SystemSchema == 0
Targets      == 0..(NumSchemas + 1)
All          == {} \* target_db is None

Init ==
  /\ naming \in Namings
  /\ db \in [Schemas -> [rev : {0}, cross : BOOLEAN]]
  /\ fs = [f \in Files |-> Absent]
  /\ workbook = Absent
  /\ runs = 0
  /\ pc = "idle"
  /\ format \in Formats
  /\ strict = FALSE /\ warned = FALSE
  /\ asked = All /\ selected = {} /\ todo = {}
  /\ suffix = Plain
  /\ sheets = {} /\ buffer = NoBuffer /\ silent = {}
  /\ outcome = "none"

\* The definition of a schema changes while nothing is being exported.
Migrate(s) ==
  /\ pc = "idle"
  /\ db[s].rev < MaxRev
  /\ \E c \in BOOLEAN : db' = [db EXCEPT ![s] = [rev |-> @.rev + 1, cross |-> c]]
  /\ UNCHANGED <<naming, fs, workbook, runs, pc, format, memory, outcome>>

\* The process ends, with code 0 for "ok", and its memory is gone.
End(how) ==
  /\ pc' = "idle"
  /\ outcome' = how
  /\ strict' = FALSE /\ warned' = FALSE
  /\ asked' = All /\ selected' = {} /\ todo' = {}
  /\ suffix' = Plain
  /\ sheets' = {} /\ buffer' = NoBuffer /\ silent' = {}
  /\ UNCHANGED <<naming, db, runs, format>>

\* An error that run() propagates with `?`.
Abort == End("error")

\* The program is started, with --strict or without.
Start ==
  /\ pc = "idle"
  /\ runs < MaxRuns
  /\ runs' = runs + 1
  /\ pc' = "config"
  /\ strict' \in BOOLEAN
  /\ outcome' = "none"
  /\ UNCHANGED <<naming, db, fs, workbook, format, asked, selected, todo, suffix,
                 sheets, buffer, warned, silent>>

\* load_config: the schemas to export, from the command line or the prompt; an
\* empty list means all of them.
Configure ==
  /\ pc = "config"
  /\ pc' = "connect"
  /\ asked' \in SUBSET Targets
  /\ UNCHANGED <<fixed, fs, workbook, selected, todo, suffix, sheets, buffer,
                 warned, silent, outcome>>

\* Connecting probes the server; what a probe of MySQL cannot find out is warned of.
Connect ==
  /\ pc = "connect"
  /\ pc' = "schemas"
  /\ warned' \in BOOLEAN
  /\ UNCHANGED <<fixed, fs, workbook, asked, selected, todo, suffix, sheets, buffer,
                 silent, outcome>>

\* A mutant: the schemas asked for are not looked up on the server.
CatalogAsAsked == IF asked = All THEN Schemas ELSE asked \ {SystemSchema}

\* The schemas that the server has, that are no system schemas and are asked for.
Catalog ==
  {s \in 0..NumSchemas : s # SystemSchema /\ (asked # All => s \in asked)}

\* get_schemas finds something to export.  Schemas asked for that the server lacks
\* are left out without a word, and so are those of the system.
GetSchemas ==
  /\ pc = "schemas"
  /\ Catalog # {}
  /\ selected' = Catalog /\ todo' = Catalog
  /\ asked' = asked \ (Catalog \cup {SystemSchema})
  /\ pc' = "name"
  /\ UNCHANGED <<fixed, fs, workbook, suffix, sheets, buffer, warned, silent, outcome>>

\* load_config, connect or get_schemas fails, or there is nothing to export.
PrepareFails ==
  /\ \/ pc \in {"config", "connect"}
     \/ pc = "schemas" \* the query fails; "Not in Schema." is an error too
  /\ Abort
  /\ UNCHANGED <<fs, workbook>>

Earlier(s) == {t \in selected : t < s}

\* The n-th name of s is none of the names given so far, whatever the case.
FreeName(s, n) ==
  \A t \in Earlier(s) :
    Lower(FileName(naming.name[s], n)) # Lower(FileName(naming.name[t], suffix[t]))

\* schema_filenames and sheet_names give the next schema the first free name; a
\* changed name is a warning.  A sheet's name is also changed if it has
\* forbidden characters or is too long.
NameOutput ==
  /\ pc = "name"
  /\ LET s == Current
         n == Min({m \in Suffixes : FreeName(s, m)})
     IN  /\ suffix' = [suffix EXCEPT ![s] = n]
         /\ \E changed \in IF format = "excel" THEN BOOLEAN ELSE {FALSE} :
              warned' = (warned \/ n > 1 \/ changed)
         /\ IF todo = {s}
            THEN todo' = selected /\ pc' = IF format = "excel" THEN "list" ELSE "open"
            ELSE todo' = todo \ {s} /\ pc' = pc
  /\ UNCHANGED <<fixed, fs, workbook, asked, selected, sheets, buffer, silent, outcome>>

\* A mutant: no two names are ever one file.
FreeFileAlways(s, n) == TRUE

\* The file of the n-th name of s is none of those that the run has open.
FreeFile(s, n) ==
  HasFileId(naming.system) => \A t \in Earlier(s) : IdOf(s, n) # IdOf(t, suffix[t])

\* A mutant: an existing file keeps its contents.
OpenFileKeepingContents ==
  /\ pc = "open"
  /\ IF todo = {Current}
     THEN todo' = selected /\ pc' = "list"
     ELSE todo' = todo \ {Current} /\ pc' = pc
  /\ UNCHANGED <<fixed, fs, workbook, asked, selected, suffix, sheets, buffer, warned,
                 silent, outcome>>

\* create_schema_files opens the next file; an existing one is truncated.  If it
\* is a file that the run has open already, ~2, ~3 ... are opened instead until
\* one is not: what they truncate in between is empty anyway.
OpenFile ==
  /\ pc = "open"
  /\ LET s == Current
         n == IF FreeFile(s, suffix[s]) THEN suffix[s]
              ELSE Min({m \in Suffixes \ {1} : FreeFile(s, m)})
     IN  /\ suffix' = [suffix EXCEPT ![s] = n]
         /\ fs' = [fs EXCEPT ![<<"main", IdOf(s, n)>>] = Empty]
         /\ warned' = (warned \/ n # suffix[s])
         /\ IF todo = {s}
            THEN todo' = selected /\ pc' = "list"
            ELSE todo' = todo \ {s} /\ pc' = pc
  /\ UNCHANGED <<fixed, workbook, asked, selected, sheets, buffer, silent, outcome>>

\* A sheet cannot be added, or a file not be opened.
SetupFails ==
  /\ pc \in {"name", "open"}
  /\ Abort
  /\ UNCHANGED <<fs, workbook>>

\* What a query loses of the current schema is warned of or it is not.
Lose(told, untold) ==
  /\ warned' = (warned \/ told)
  /\ silent' = IF untold THEN silent \cup {Current} ELSE silent

\* get_tables of the next schema.  A value that cannot be decoded becomes a
\* default: PostgreSQL's client warns of it, MySQL's does not, and a table without
\* its type is not written.  A schema dropped by now has no tables, silently.
ListTables ==
  /\ pc = "list"
  /\ pc' = "collect"
  /\ \E told, untold \in BOOLEAN :
       /\ buffer' = [owner |-> Current, rev |-> db[Current].rev, gap |-> told \/ untold]
       /\ Lose(told, untold)
  /\ UNCHANGED <<fixed, fs, workbook, asked, selected, todo, suffix, sheets, outcome>>

ListFails ==
  /\ pc = "list"
  /\ Abort
  /\ UNCHANGED <<fs, workbook>>

\* The tables of the schema are enriched.  A query that failed leaves a gap and
\* a warning, a slow table only a warning.  Without a warning go the text of a view
\* of MySQL that cannot be decoded, and what PostgreSQL's queries find no rows for
\* because the table was dropped since it was listed.
Collect ==
  /\ pc = "collect"
  /\ \E told, untold, slow \in BOOLEAN :
       /\ buffer' = [buffer EXCEPT !.gap = @ \/ told \/ untold]
       /\ Lose(told \/ slow, untold)
  /\ pc' = IF format = "sql" THEN "preamble" ELSE "write"
  /\ UNCHANGED <<fixed, fs, workbook, asked, selected, todo, suffix, sheets, outcome>>

\* A mutant: the missing preamble is not reported.
PreambleSilent ==
  /\ pc = "preamble"
  /\ \E gap \in BOOLEAN :
       /\ buffer' = [buffer EXCEPT !.gap = @ \/ gap]
  /\ pc' = "write"
  /\ UNCHANGED <<fixed, fs, workbook, asked, selected, todo, suffix, sheets,
                 warned, silent, outcome>>

\* SQL: types, sequences and functions of the schema.  If they cannot be read,
\* in part or at all, the file goes without them and a warning says so; only
\* the SQL mode of a routine of MySQL may be lost without one.
Preamble ==
  /\ pc = "preamble"
  /\ \E told, untold \in BOOLEAN :
       /\ buffer' = [buffer EXCEPT !.gap = @ \/ told \/ untold]
       /\ Lose(told, untold)
  /\ pc' = "write"
  /\ UNCHANGED <<fixed, fs, workbook, asked, selected, todo, suffix, sheets, outcome>>

\* The schema is done: the loop goes on, or finish() is next.
NextSchema ==
  /\ todo' = todo \ {Current}
  /\ pc' = IF todo' = {} THEN "finish" ELSE "list"

\* write_tables: the schema's sheet, or its file, is filled with its tables.
\* The SQL file goes without relations whose name cannot be quoted safely.
WriteTables ==
  /\ pc = "write"
  /\ \E skipped \in IF format = "sql" THEN BOOLEAN ELSE {FALSE} :
       /\ buffer' = [buffer EXCEPT !.gap = @ \/ skipped]
       /\ warned' = (warned \/ skipped)
  /\ IF format = "excel"
     THEN sheets' = sheets \cup {buffer'} /\ UNCHANGED fs
     ELSE fs' = [fs EXCEPT ![Main(Current)] = Whole({buffer'})] /\ UNCHANGED sheets
  /\ IF format = "sql"
     THEN pc' = "cross" /\ UNCHANGED todo
     ELSE NextSchema
  /\ UNCHANGED <<fixed, workbook, asked, selected, suffix, silent, outcome>>

\* The write fails; a file may hold a part of the text by then.
WriteFails ==
  /\ pc = "write"
  /\ Abort
  /\ \/ UNCHANGED fs
     \/ format # "excel" /\ fs' = [fs EXCEPT ![Main(Current)] = Torn]
  /\ UNCHANGED workbook

\* A mutant: an earlier run's cross-schema file is left behind.
WriteCrossKeepingStale ==
  /\ pc = "cross"
  /\ fs' = IF db[Current].cross
           THEN [fs EXCEPT ![Cross(Current)] = Whole({buffer})]
           ELSE fs
  /\ NextSchema
  /\ UNCHANGED <<fixed, workbook, asked, selected, suffix, sheets, buffer, warned, silent,
                 outcome>>

\* write_cross_schema_file: the statements about other schemas replace the file
\* of an earlier run.  Without such statements (the schema has none, or the
\* tables that have them could not be read) that file is removed.
WriteCross ==
  /\ pc = "cross"
  /\ \E lost \in BOOLEAN :
       /\ lost => buffer.gap
       /\ fs' = [fs EXCEPT ![Cross(Current)] =
                   IF db[Current].cross /\ ~lost THEN Whole({buffer}) ELSE Absent]
  /\ NextSchema
  /\ UNCHANGED <<fixed, workbook, asked, selected, suffix, sheets, buffer, warned, silent,
                 outcome>>

\* Removing or writing that file fails.
CrossFails ==
  /\ pc = "cross"
  /\ Abort
  /\ \/ UNCHANGED fs
     \/ db[Current].cross /\ fs' = [fs EXCEPT ![Cross(Current)] = Torn]
  /\ UNCHANGED workbook

\* What run() returns once everything is written.
Verdict == IF strict /\ warned THEN "strict" ELSE "ok"

\* finish(): files are closed, a workbook is saved; then the warnings decide.
Finish ==
  /\ pc = "finish"
  /\ workbook' = IF format = "excel" THEN Whole(sheets) ELSE workbook
  /\ End(Verdict)
  /\ UNCHANGED fs

\* The workbook cannot be saved.
FinishFails ==
  /\ pc = "finish" /\ format = "excel"
  /\ Abort
  /\ workbook' \in {workbook, Torn}
  /\ UNCHANGED fs

\* What a process that dies leaves of the file it was writing.
Crash ==
  /\ pc # "idle"
  /\ End("crashed")
  /\ \/ UNCHANGED <<fs, workbook>>
     \/ /\ pc = "write" /\ format # "excel"
        /\ fs' = [fs EXCEPT ![Main(Current)] = Torn]
        /\ UNCHANGED workbook
     \/ /\ pc = "cross" /\ db[Current].cross
        /\ fs' = [fs EXCEPT ![Cross(Current)] = Torn]
        /\ UNCHANGED workbook
     \/ /\ pc = "finish" /\ format = "excel"
        /\ workbook' = Torn
        /\ UNCHANGED fs

\* No more runs (the bound).
Rest ==
  /\ pc = "idle" /\ runs = MaxRuns
  /\ UNCHANGED vars

Prepare == \/ Configure \/ Connect \/ GetSchemas \/ PrepareFails
           \/ NameOutput \/ OpenFile \/ SetupFails

Export == \/ ListTables \/ ListFails \/ Collect \/ Preamble
          \/ WriteTables \/ WriteFails \/ WriteCross \/ CrossFails
          \/ Finish \/ FinishFails

Next ==
  \/ \E s \in Schemas : Migrate(s)
  \/ Start
  \/ Prepare
  \/ Export
  \/ Crash
  \/ Rest

Spec == Init /\ [][Next]_vars

------------------------------------------------------------------------------
\* Properties

\* The places of run() after the setup of the exporter.
Writing == {"list", "collect", "preamble", "write", "cross", "finish"}

\* The shape of the state; that the loops which look for a free name find one.
TypeOK ==
  /\ naming \in Namings
  /\ db \in [Schemas -> [rev : Revs, cross : BOOLEAN]]
  /\ fs \in [Files -> Content]
  /\ workbook \in Content
  /\ runs \in 0..MaxRuns
  /\ pc \in {"idle", "config", "connect", "schemas", "name", "open"} \cup Writing
  /\ format \in Formats
  /\ {strict, warned} \subseteq BOOLEAN
  /\ asked \subseteq Targets /\ silent \subseteq Schemas
  /\ selected \subseteq Schemas /\ todo \subseteq selected
  /\ suffix \in [Schemas -> Suffixes]
  /\ sheets \subseteq Data
  /\ buffer \in Data
  /\ outcome \in {"none", "ok", "strict", "error", "crashed"}

\* Past setup, the loop has an exact effect on the schema files: those of the
\* schemas visited are whole and of this run, those still to visit are empty.
\* No file of an earlier run is left under a name of this run, and if the run
\* stops here it is known which files are worth something.
WrittenSoFar ==
  pc \in Writing /\ format # "excel" =>
    \A s \in selected :
      IF s \in todo /\ ~(pc = "cross" /\ s = Current)
      THEN fs[Main(s)] = Empty
      ELSE \E gap \in BOOLEAN :
             fs[Main(s)] = Whole({[owner |-> s, rev |-> db[s].rev, gap |-> gap]})

\* Two schemas of a run never share a file, whatever their names and whatever
\* the file system ignores of them, nor a sheet (their names ignore case).
OneOwnerPerFile ==
  pc \in Writing =>
    \A s, t \in selected : s # t =>
      IF format = "excel"
      THEN Lower(FileName(naming.name[s], suffix[s])) # Lower(FileName(naming.name[t], suffix[t]))
      ELSE Main(s) # Main(t)

Completes == pc = "finish" /\ outcome' \in {"ok", "strict"}

\* What a completed run leaves for schema s if its output has the given gap.
FreshOutput(s, gap) ==
  LET d == [owner |-> s, rev |-> db[s].rev, gap |-> gap]
  IN  /\ format = "excel" => d \in workbook'.data
      /\ format # "excel" => fs'[Main(s)] = Whole({d})
      /\ format = "sql" =>
           \/ fs'[Cross(s)] = IF db[s].cross THEN Whole({d}) ELSE Absent
           \/ gap /\ fs'[Cross(s)] = Absent

\* Whatever earlier runs, failed writes and crashes left behind: a run that
\* completes leaves, for each of its schemas, exactly the definitions of today,
\* the cross-schema file of an earlier run included.
CompletionIsFresh ==
  [][Completes => \A s \in selected : \E gap \in BOOLEAN : FreshOutput(s, gap)]_vars

\* With --strict, exit code 0 means that what is missing from the files of the
\* schemas found was lost silently: a schema has a gap exactly if one of the reads
\* that lose without a warning lost something of it, and all the rest is there.
\* No gap that a warning told of passes, whichever schema and step had it.
OnlySilentLossPasses ==
  [][Completes /\ strict /\ outcome' = "ok" =>
       \A s \in selected : FreshOutput(s, s \in silent)]_vars

\* What --strict is for, as its help text says: exit code 0 means that no schema
\* asked for and nothing of a schema is missing, those of the system aside.
StrictSuccessIsComplete ==
  [][Completes /\ strict /\ outcome' = "ok" =>
       asked \subseteq selected /\ \A s \in selected : FreshOutput(s, FALSE)]_vars

\* A run that exports some schemas only leaves the cross-schema files of the
\* others alone (the comment of cross_schema_filename).
RerunKeepsOthers ==
  [][\A n \in Ids : \A d \in fs[<<"cross", n>>].data :
       d.owner \notin selected => fs'[<<"cross", n>>] = fs[<<"cross", n>>]]_vars

\* The names of two schemas differ by more than what is ignored of them.
Apart ==
  \A s, t \in Schemas : s # t =>
    /\ IdOf(s, 1) # IdOf(t, 1)
    /\ Lower(naming.name[s]) # Lower(naming.name[t])

\* The same for all files, as long as no two schemas have names that collide.
RerunKeepsOthersApart ==
  [][Apart /\ fs' # fs =>
       \A f \in Files : \A d \in fs[f].data :
         d.owner \notin selected => fs'[f] = fs[f]]_vars
==============================================================================
