------------------------------- MODULE SqlScript -------------------------------
(***************************************************************************)
(* The SQL file of a PostgreSQL schema, as the order in which it creates   *)
(* the schema's objects when it is executed on an empty database:          *)
(* order_types_and_functions splits the functions (Grow), then write_sql   *)
(* writes section after section.                                           *)
(*                                                                         *)
(* An object is a number: extensions and sequences, types, functions,      *)
(* tables and views, each kind in the order of its OIDs or names.  Objects *)
(* with a name that is refused are left out with a warning (Read).         *)
(***************************************************************************)
EXTENDS Naturals, FiniteSets

CONSTANTS
  NumFirst, NumTypes, NumFunctions, NumTables, NumViews,
  MaxNeeds,   \* bound: dependencies between objects
  MaxRefused  \* bound: names that are refused; each takes the place of a dependency

ASSUME CountsAssumption == {NumFirst, NumTypes, NumFunctions, NumTables, NumViews} \subseteq Nat
ASSUME MaxNeedsAssumption == MaxNeeds \in Nat /\ MaxRefused \in Nat

VARIABLES
  needs,      \* <<o, p>>: creating o fails unless p exists
  refused,    \* objects with a name that validate_identifier refuses
  depsKnown,  \* fetch_dependencies succeeded
  after,      \* the functions that go after the tables
  warned,     \* the objects that a warning says are left out
  section,    \* what is done next, or the section of the file being written
  created,    \* the objects written so far
  added       \* the deferred statements written so far

graph == <<needs, refused, depsKnown>>
vars  == <<needs, refused, depsKnown, after, warned, section, created, added>>

\* n numbers behind the first m.
Behind(m, n) == (m + 1)..(m + n)
First     == Behind(0, NumFirst)  \* extensions, then sequences
Types     == Behind(NumFirst, NumTypes)
Functions == Behind(NumFirst + NumTypes, NumFunctions)
Tables    == Behind(NumFirst + NumTypes + NumFunctions, NumTables)
Views     == Behind(NumFirst + NumTypes + NumFunctions + NumTables, NumViews)
Objects   == First \cup Types \cup Functions \cup Tables \cup Views

\* Deferred statements, <<t, u>> of table t about table u: every table may have a
\* foreign key to every table.
References == Tables \X Tables

Sections == {"read", "split", "first", "before", "tables", "late", "views", "deferred", "done"}

\* What pg_depend says about types and functions, refused ones too, if it could
\* be asked.
deps == IF depsKnown THEN needs ELSE {}

\* Functions whose argument or result is a row type, or whose body is parsed
\* and names a table or a view.
UsesTables == {f \in Functions : \E r \in Tables \cup Views : <<f, r>> \in needs}

\* Only schemas whose objects can be created one by one in some order.
Acyclic == \A S \in SUBSET {e[1] : e \in needs} :
             S # {} => \E o \in S : \A p \in S : <<o, p>> \notin needs

\* The sets of no, or up to n, elements of S.
UpTo(n, S) == {{}} \cup {{f[i] : i \in 1..n} : f \in [1..n -> S]}

Pairs == {e \in Objects \X Objects : e[1] # e[2]}

Init ==
  /\ needs \in UpTo(MaxNeeds, Pairs)
  /\ Acyclic
  /\ refused \in UpTo(MaxRefused, Objects)
  /\ Cardinality(needs) + Cardinality(refused) <= MaxNeeds
  /\ depsKnown \in BOOLEAN
  /\ after = {} /\ warned = {}
  /\ section = "read"
  /\ created = {} /\ added = {}

\* Mutant: the first object with a bad name ends the list of its kind.
ReadUpToRefused ==
  /\ section = "read"
  /\ warned' = {o \in Objects : \E K \in {First, Types, Functions, Tables, Views} :
                   o \in K /\ \E p \in K \cap refused : p <= o}
  /\ after' = UsesTables \ warned'
  /\ section' = "split"
  /\ UNCHANGED <<graph, created, added>>

\* Each object whose statement cannot be built is left out with a warning; the
\* functions that remain say themselves whether they use a table.
Read ==
  /\ section = "read"
  /\ warned' = refused
  /\ after' = UsesTables \ warned'
  /\ section' = "split"
  /\ UNCHANGED <<graph, created, added>>

\* Mutants: the closure runs against the dependencies; types count as well.
GrewBackwards == {f \in Functions \ after : \E g \in after : <<g, f>> \in deps}
GrewAnyKind == {o \in (Types \cup Functions) \ after : \E g \in after : <<o, g>> \in deps}

\* Functions that use a function that goes after the tables; one that is left out
\* can still be a link between two others.
Grew == {f \in Functions \ after : \E g \in after : <<f, g>> \in deps}

\* One round of the loop that collects the functions to go after the tables.
Grow ==
  /\ section = "split" /\ Grew # {}
  /\ after' = after \cup Grew
  /\ UNCHANGED <<graph, warned, section, created, added>>

Split ==
  /\ section = "split" /\ Grew = {}
  /\ section' = "first"
  /\ UNCHANGED <<graph, after, warned, created, added>>

\* o is the next one of S in the order of the known dependencies K: the first
\* that uses no other one of S, or the first if there is none.
IsNext(o, S, K) ==
  LET free == {p \in S : \A q \in S \ {p} : <<p, q>> \notin K}
  IN  /\ o \in IF free = {} THEN S ELSE free
      /\ \A p \in IF free = {} THEN S ELSE free : o <= p

\* A section creates the objects of S that are not left out, in the order of K,
\* then the next one begins.
Write(this, S, K, next) ==
  /\ section = this
  /\ LET kept == S \ warned
     IN  IF kept \subseteq created
         THEN section' = next /\ UNCHANGED created
         ELSE /\ \E o \in kept : IsNext(o, kept \ created, K) /\ created' = created \cup {o}
              /\ UNCHANGED section
  /\ UNCHANGED <<graph, after, warned, added>>

\* Extensions, then sequences: they need nothing of the schema.
WriteFirst == Write("first", First, {}, "before")

\* Types and functions share one dependency order.
WriteBefore == Write("before", Types \cup (Functions \ after), deps, "tables")

\* Tables come in the order of their names.
WriteTables == Write("tables", Tables, {}, "late")

\* The functions that use tables, in their dependency order.
WriteLate == Write("late", after, deps, "views")

\* Mutant: views in the order of their names.
WriteViewsByName == Write("views", Views, {}, "deferred")

\* The dependencies of views are read from their definitions.
WriteViews == Write("views", Views, needs, "deferred")

\* The statements kept for the end: foreign keys, and defaults that use the
\* identity sequence of another table.  A table that is left out has none.
WriteDeferred ==
  /\ section = "deferred"
  /\ added' = {r \in References : r[1] \notin warned}
  /\ section' = "done"
  /\ UNCHANGED <<graph, after, warned, created>>

Done == section = "done" /\ UNCHANGED vars

Next ==
  \/ Read \/ Grow \/ Split
  \/ WriteFirst \/ WriteBefore \/ WriteTables \/ WriteLate \/ WriteViews
  \/ WriteDeferred
  \/ Done

Spec == Init /\ [][Next]_vars /\ WF_vars(Next)

------------------------------------------------------------------------------
\* Properties

\* The shape of the state.
TypeOK ==
  /\ needs \subseteq Objects \X Objects
  /\ refused \subseteq Objects /\ warned \subseteq Objects
  /\ depsKnown \in BOOLEAN
  /\ after \subseteq Functions
  /\ section \in Sections
  /\ created \subseteq Objects
  /\ added \subseteq References

\* Functions that use no table, not even through other functions: they belong
\* to a set of functions that use no table and no function outside the set.  What
\* a refused function uses does not count.
EarlyFunctions ==
  {f \in Functions :
     \E E \in SUBSET (Functions \ (UsesTables \ refused)) :
       /\ f \in E
       /\ \A g \in E, h \in Functions : <<g, h>> \in needs => h \in E}

\* When the loop ends, exactly the functions that use no table directly or
\* through others are written before the tables.
SplitIsExact == section \notin {"read", "split"} /\ depsKnown => Functions \ after = EarlyFunctions

\* The schemas that this order of sections can serve: the dependencies could be
\* read, types and tables use only sequences, types and functions that use no
\* table, functions use no view, and extensions and sequences nothing.
Supported ==
  /\ depsKnown
  /\ \A e \in needs :
       /\ e[1] \notin First
       /\ e[1] \in Types \cup Tables => e[2] \in First \cup Types \cup EarlyFunctions
       /\ e[1] \in Functions => e[2] \notin Views

CreatesWhatItCan(o) == \A p \in Objects : <<o, p>> \in needs => p \in created \cup warned

\* Executing the file on an empty database never creates an object before
\* something that it needs, whichever way types, functions and views of a
\* supported schema depend on each other; if something fails, a warning has named
\* what is missing, and leaving one object out does not disturb the others.
SupportedExecutes ==
  [][Supported => \A o \in created' \ created : CreatesWhatItCan(o)]_vars

\* A foreign key, or a default that uses another table's sequence, is added when
\* both tables exist, circular and self references included, or the other table
\* was left out with a warning.
ReferencesComeLast ==
  [][\A r \in added' \ added : r[1] \in created /\ r[2] \in created \cup warned]_vars

\* Whatever depends on what and whatever has a bad name, the file ends with
\* everything else written, and a warning for each object that it leaves out.
EverythingIsWritten ==
  <>[](/\ warned = refused /\ created = Objects \ refused
       /\ added = {r \in References : r[1] \notin refused})

\* No function of a schema whose dependencies could be read is created before
\* something that it needs.
FunctionsExecute ==
  [][depsKnown => \A o \in (created' \ created) \cap Functions : CreatesWhatItCan(o)]_vars
=============================================================================
