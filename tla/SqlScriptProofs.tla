--------------------------- MODULE SqlScriptProofs ---------------------------
(***************************************************************************)
(* The SQL file of a PostgreSQL schema, for any number of objects and any  *)
(* dependencies between them: the functions are split exactly, and nothing *)
(* is created before what it needs.                                        *)
(***************************************************************************)
EXTENDS SqlScript, TLAPS

\* Sets of functions that need no table and no function outside the set.
Closed(E) == \A g \in E, h \in Functions : <<g, h>> \in needs => h \in E

(***************************************************************************)
(* The inductive invariant.  The functions put after the tables include    *)
(* those that use a table and none of a closed set; once the split is over *)
(* no further one uses them.  Each section finds the ones before complete, *)
(* but for the objects that a warning has named.                           *)
(***************************************************************************)
TableUsers == UsesTables \ refused

RefusedAreWarned == IF section = "read" THEN after = {} ELSE warned = refused

AfterUsesTables ==
  /\ section # "read" => TableUsers \subseteq after
  /\ \A E \in SUBSET (Functions \ TableUsers) : Closed(E) => E \cap after = {}

SplitIsOver == section \notin {"read", "split"} => Grew = {}

Before == Types \cup (Functions \ after)
Early == First \cup Before
Found == created \cup warned

SectionsAreComplete ==
  /\ section \in {"before", "tables", "late", "views", "deferred", "done"} => First \subseteq Found
  /\ section \in {"tables", "late", "views", "deferred", "done"} => Before \subseteq Found
  /\ section \in {"late", "views", "deferred", "done"} => Tables \subseteq Found
  /\ section \in {"views", "deferred", "done"} => after \subseteq Found

IInv ==
  /\ TypeOK
  /\ Acyclic
  /\ RefusedAreWarned
  /\ AfterUsesTables
  /\ SplitIsOver
  /\ SectionsAreComplete

LEMMA InitIInv == Init => IInv
<1> SUFFICES ASSUME Init PROVE IInv
  OBVIOUS
<1>0. ASSUME NEW S, NEW n \in Nat, NEW s \in UpTo(n, S) PROVE s \subseteq S
  BY <1>0 DEF UpTo
<1>1. needs \subseteq Objects \X Objects /\ refused \subseteq Objects
  BY <1>0, MaxNeedsAssumption DEF Init, Pairs
<1>2. TypeOK
  BY <1>1 DEF Init, TypeOK, Sections
<1>3. AfterUsesTables /\ RefusedAreWarned
  BY DEF Init, AfterUsesTables, RefusedAreWarned
<1> QED  BY <1>2, <1>3 DEF Init, IInv, SplitIsOver, SectionsAreComplete

\* What does not change while the graph does not.
LEMMA GraphStays ==
  ASSUME UNCHANGED graph
  PROVE  /\ Acyclic' = Acyclic /\ TableUsers' = TableUsers /\ UsesTables' = UsesTables
         /\ deps' = deps /\ refused' = refused
         /\ \A E : Closed(E)' = Closed(E)
BY DEF graph, Acyclic, UsesTables, TableUsers, deps, Closed

LEMMA ReadIInv == IInv /\ Read => IInv'
<1> SUFFICES ASSUME IInv, Read PROVE IInv'
  OBVIOUS
<1>0. /\ Acyclic' /\ TableUsers' = TableUsers /\ \A E : Closed(E)' = Closed(E)
      /\ after' = TableUsers /\ warned' = refused /\ section' = "split"
      /\ UNCHANGED <<needs, refused, depsKnown, created, added>>
  BY GraphStays DEF Read, IInv, graph, TableUsers
<1>1. TypeOK'
  BY <1>0 DEF IInv, TypeOK, Sections, TableUsers, UsesTables
<1>2. AfterUsesTables' /\ RefusedAreWarned'
  BY <1>0 DEF AfterUsesTables, RefusedAreWarned
<1> QED  BY <1>0, <1>1, <1>2 DEF IInv, SplitIsOver, SectionsAreComplete

LEMMA GrowIInv == IInv /\ Grow => IInv'
<1> SUFFICES ASSUME IInv, Grow PROVE IInv'
  OBVIOUS
<1>0. /\ Acyclic' /\ TableUsers' = TableUsers /\ \A E : Closed(E)' = Closed(E)
      /\ section = "split" /\ section' = section /\ after' = after \cup Grew
      /\ UNCHANGED <<needs, refused, depsKnown, warned, created, added>>
  BY GraphStays DEF Grow, IInv, graph
<1>1. TypeOK'
  BY <1>0 DEF IInv, TypeOK, Grew
<1>2. AfterUsesTables'
  <2>1. ASSUME NEW E \in SUBSET (Functions \ TableUsers), Closed(E) PROVE E \cap after' = {}
    <3>1. E \cap after = {}
      BY <2>1 DEF IInv, AfterUsesTables
    <3>2. E \cap Grew = {}
      BY <2>1, <3>1 DEF IInv, TypeOK, Closed, Grew, deps
    <3> QED  BY <1>0, <3>1, <3>2
  <2> QED  BY <1>0, <2>1 DEF IInv, AfterUsesTables
<1> QED  BY <1>0, <1>1, <1>2 DEF IInv, RefusedAreWarned, SplitIsOver, SectionsAreComplete

LEMMA SplitIInv == IInv /\ Split => IInv'
<1> SUFFICES ASSUME IInv, Split PROVE IInv'
  OBVIOUS
<1>0. /\ Acyclic' /\ TableUsers' = TableUsers /\ \A E : Closed(E)' = Closed(E)
      /\ Grew' = Grew
  BY GraphStays DEF Split, IInv, Grew
<1>1. TypeOK'
  BY DEF Split, IInv, TypeOK, Sections, graph
<1>2. AfterUsesTables'
  BY <1>0 DEF Split, IInv, AfterUsesTables
<1> QED  BY <1>0, <1>1, <1>2 DEF Split, graph, IInv, RefusedAreWarned, SplitIsOver, SectionsAreComplete

\* A section that writes S leaves everything as it should be, if the next one
\* expects no more than S on top of what this one did.
LEMMA WriteIInv ==
  ASSUME IInv, NEW this \in Sections \ {"read", "split"}, NEW next \in Sections \ {"read", "split"},
         NEW S \in SUBSET Objects, NEW K, Write(this, S, K, next),
         section' = next /\ S \subseteq Found => SectionsAreComplete'
  PROVE  IInv'
<1>0. /\ Acyclic' /\ TableUsers' = TableUsers /\ \A E : Closed(E)' = Closed(E)
      /\ Grew' = Grew /\ section = this
      /\ UNCHANGED <<graph, refused, after, warned, added>>
  BY GraphStays DEF Write, IInv, Grew
<1>1. created \subseteq created' /\ created' \subseteq created \cup S
  BY DEF Write
<1>2. section' = section \/ (section' = next /\ S \subseteq Found)
  BY DEF Write, Found
<1>3. TypeOK'
  BY <1>0, <1>1, <1>2 DEF IInv, TypeOK, graph
<1>4. AfterUsesTables' /\ RefusedAreWarned'
  BY <1>0, <1>2 DEF IInv, AfterUsesTables, RefusedAreWarned
<1>5. SplitIsOver'
  BY <1>0 DEF IInv, SplitIsOver
<1>6. SectionsAreComplete'
  <2>1. CASE section' = section
    BY <1>0, <1>1, <2>1 DEF IInv, SectionsAreComplete, Before, Found
  <2> QED  BY <1>2, <2>1
<1> QED  BY <1>0, <1>3, <1>4, <1>5, <1>6 DEF IInv

LEMMA WritesIInv ==
  IInv /\ (WriteFirst \/ WriteBefore \/ WriteTables \/ WriteLate \/ WriteViews) => IInv'
<1> SUFFICES ASSUME IInv, WriteFirst \/ WriteBefore \/ WriteTables \/ WriteLate \/ WriteViews
             PROVE  IInv'
  OBVIOUS
<1>0. {"first", "before", "tables", "late", "views", "deferred"} \subseteq Sections \ {"read", "split"}
  BY DEF Sections
<1>1. CASE WriteFirst
  <2>1. ASSUME section' = "before", First \subseteq Found PROVE SectionsAreComplete'
    BY <1>1, <2>1 DEF WriteFirst, Write, IInv, SectionsAreComplete, Before, Found
  <2>2. First \in SUBSET Objects
    BY DEF Objects
  <2> QED  BY <1>0, <1>1, <2>1, <2>2, WriteIInv DEF WriteFirst
<1>2. CASE WriteBefore
  <2>1. ASSUME section' = "tables", Types \cup (Functions \ after) \subseteq Found PROVE SectionsAreComplete'
    BY <1>2, <2>1 DEF WriteBefore, Write, IInv, SectionsAreComplete, Before, Found
  <2>2. Types \cup (Functions \ after) \in SUBSET Objects
    BY DEF Objects
  <2> QED  BY <1>0, <1>2, <2>1, <2>2, WriteIInv DEF WriteBefore
<1>3. CASE WriteTables
  <2>1. ASSUME section' = "late", Tables \subseteq Found PROVE SectionsAreComplete'
    BY <1>3, <2>1 DEF WriteTables, Write, IInv, SectionsAreComplete, Before, Found
  <2>2. Tables \in SUBSET Objects
    BY DEF Objects
  <2> QED  BY <1>0, <1>3, <2>1, <2>2, WriteIInv DEF WriteTables
<1>4. CASE WriteLate
  <2>1. ASSUME section' = "views", after \subseteq Found PROVE SectionsAreComplete'
    BY <1>4, <2>1 DEF WriteLate, Write, IInv, SectionsAreComplete, Before, Found
  <2>2. after \in SUBSET Objects
    BY DEF Objects, IInv, TypeOK
  <2> QED  BY <1>0, <1>4, <2>1, <2>2, WriteIInv DEF WriteLate
<1>5. CASE WriteViews
  <2>1. ASSUME section' = "deferred", Views \subseteq Found PROVE SectionsAreComplete'
    BY <1>5, <2>1 DEF WriteViews, Write, IInv, SectionsAreComplete, Before, Found
  <2>2. Views \in SUBSET Objects
    BY DEF Objects
  <2> QED  BY <1>0, <1>5, <2>1, <2>2, WriteIInv DEF WriteViews
<1> QED  BY <1>1, <1>2, <1>3, <1>4, <1>5

LEMMA WriteDeferredIInv == IInv /\ WriteDeferred => IInv'
<1> SUFFICES ASSUME IInv, WriteDeferred PROVE IInv'
  OBVIOUS
<1>0. Acyclic' /\ TableUsers' = TableUsers /\ (\A E : Closed(E)' = Closed(E)) /\ Grew' = Grew
  BY GraphStays DEF WriteDeferred, IInv, Grew
<1>1. TypeOK'
  BY DEF WriteDeferred, IInv, TypeOK, Sections, graph
<1>2. AfterUsesTables' /\ SplitIsOver' /\ RefusedAreWarned'
  BY <1>0 DEF WriteDeferred, IInv, AfterUsesTables, SplitIsOver, RefusedAreWarned, graph
<1>3. SectionsAreComplete'
  BY DEF WriteDeferred, IInv, SectionsAreComplete, Before, Found
<1> QED  BY <1>0, <1>1, <1>2, <1>3 DEF IInv

LEMMA StutterIInv == IInv /\ UNCHANGED vars => IInv'
<1> SUFFICES ASSUME IInv, UNCHANGED vars PROVE IInv'
  OBVIOUS
<1>. UNCHANGED <<graph, after, warned, section, created, added>>
  BY DEF vars, graph
<1>0. Acyclic' /\ TableUsers' = TableUsers /\ (\A E : Closed(E)' = Closed(E)) /\ Grew' = Grew
  BY GraphStays DEF IInv, Grew
<1>1. TypeOK' /\ SectionsAreComplete'
  BY DEF graph, IInv, TypeOK, SectionsAreComplete, Before, Found
<1>2. AfterUsesTables' /\ SplitIsOver' /\ RefusedAreWarned'
  BY <1>0 DEF graph, IInv, AfterUsesTables, SplitIsOver, RefusedAreWarned
<1> QED  BY <1>0, <1>1, <1>2 DEF IInv

THEOREM Invariance == Spec => []IInv
<1>1. IInv /\ [Next]_vars => IInv'
  BY ReadIInv, GrowIInv, SplitIInv, WritesIInv, WriteDeferredIInv, StutterIInv DEF Next, Done
<1> QED  BY <1>1, InitIInv, PTL DEF Spec

------------------------------------------------------------------------------
\* The properties

\* The shape of the state.
THEOREM TypeCorrect == Spec => []TypeOK
<1>1. IInv => TypeOK  BY DEF IInv
<1> QED  BY <1>1, Invariance, PTL

\* Once the split is over, the functions before the tables are exactly those that
\* reach no table (order_types_and_functions in db/postgres/schema_ddl.rs).
LEMMA SplitExact == IInv => SplitIsExact
<1> SUFFICES ASSUME IInv, section \notin {"read", "split"}, depsKnown
             PROVE  Functions \ after = EarlyFunctions
  BY DEF SplitIsExact
<1>1. ASSUME NEW f \in EarlyFunctions PROVE f \in Functions \ after
  <2>1. PICK E \in SUBSET (Functions \ TableUsers) : f \in E /\ Closed(E)
    BY <1>1 DEF EarlyFunctions, Closed, TableUsers
  <2> QED  BY <2>1 DEF IInv, AfterUsesTables
<1>2. ASSUME NEW f \in Functions \ after PROVE f \in EarlyFunctions
  <2>1. Functions \ after \in SUBSET (Functions \ TableUsers)
    BY DEF IInv, AfterUsesTables
  <2>2. Grew = {} /\ deps = needs
    BY DEF IInv, SplitIsOver, deps
  <2>3. \A g \in Functions \ after, h \in Functions : <<g, h>> \in needs => h \in Functions \ after
    BY <2>2 DEF Grew
  <2> QED  BY <1>2, <2>1, <2>3 DEF EarlyFunctions, TableUsers
<1> QED  BY <1>1, <1>2

THEOREM SplitsExactly == Spec => []SplitIsExact
BY SplitExact, Invariance, PTL

\* Foreign keys, and defaults that use the sequence of another table, are added
\* when all tables exist (write_sql in export/sql.rs).
THEOREM ReferencesLast == Spec => ReferencesComeLast
<1> DEFINE Ready == \A r \in added' \ added : r[1] \in created /\ r[2] \in created \cup warned
<1>1. IInv /\ [Next]_vars => Ready
  <2> SUFFICES ASSUME IInv, [Next]_vars, NEW r \in added' \ added
               PROVE  r[1] \in created /\ r[2] \in created \cup warned
    OBVIOUS
  <2>1. WriteDeferred
    BY DEF Next, Read, Grow, Split, WriteFirst, WriteBefore, WriteTables, WriteLate, WriteViews, Write, Done, vars
  <2>2. r \in Tables \X Tables /\ r[1] \notin warned /\ Tables \subseteq Found
    BY <2>1 DEF WriteDeferred, References, IInv, SectionsAreComplete
  <2> QED  BY <2>2 DEF Found
<1>2. IInv /\ [Next]_vars => [Ready]_vars
  BY <1>1
<1> QED  BY <1>2, Invariance, PTL DEF Spec, ReferencesComeLast

\* In an order by all dependencies, what comes next uses nothing that is left:
\* without a cycle there always is such an object.
LEMMA NextIsFree ==
  ASSUME Acyclic, NEW S, NEW o, IsNext(o, S, needs)
  PROVE  o \in S /\ \A p \in S : <<o, p>> \notin needs
<1> DEFINE free == {p \in S : \A q \in S \ {p} : <<p, q>> \notin needs}
<1>1. free # {}
  <2> SUFFICES ASSUME free = {} PROVE FALSE
    OBVIOUS
  <2>1. o \in S
    BY DEF IsNext
  <2>2. \A p \in S : \E q \in S \ {p} : <<p, q>> \in needs
    OBVIOUS
  <2>3. S \in SUBSET {e[1] : e \in needs}
    BY <2>2
  <2> QED  BY <2>1, <2>2, <2>3 DEF Acyclic
<1>2. o \in free
  BY <1>1 DEF IsNext
<1>3. <<o, o>> \notin needs
  <2> SUFFICES ASSUME <<o, o>> \in needs PROVE FALSE
    OBVIOUS
  <2>1. {o} \in SUBSET {e[1] : e \in needs}
    OBVIOUS
  <2> QED  BY <2>1 DEF Acyclic
<1> QED  BY <1>2, <1>3

\* What creating an object of a section needs, given the sections before.
LEMMA NeedsOfSection ==
  ASSUME IInv, Supported, section \notin {"read", "split"}, NEW o \in Objects, NEW p \in Objects,
         <<o, p>> \in needs, o \notin warned
  PROVE  /\ o \notin First
         /\ o \in Before => p \in Early
         /\ o \in Tables => p \in Early
         /\ o \in after => p \in Early \cup Tables \cup after
<1>1. Functions \ after = EarlyFunctions
  BY SplitExact DEF SplitIsExact, Supported
<1>2. o \in Types \cup Tables => p \in Early
  BY <1>1 DEF Supported, Early, Before
<1>3. o \in Functions \ after => p \in Early
  <2>1. ASSUME o \in Functions \ after PROVE p \notin Tables \cup Views
    BY <2>1 DEF IInv, AfterUsesTables, TableUsers, UsesTables, RefusedAreWarned
  <2>2. ASSUME o \in Functions \ after, p \in Functions PROVE p \notin after
    BY <2>2 DEF IInv, SplitIsOver, Grew, deps, Supported
  <2> QED  BY <2>1, <2>2 DEF Objects, Early, Before
<1>4. (o \in Functions => p \notin Views) /\ o \notin First
  BY DEF Supported
<1> QED  BY <1>2, <1>3, <1>4 DEF Early, Before, IInv, TypeOK, Objects

\* Executing the file of a supported schema never creates an object before
\* something that it needs, unless a warning has named what is missing.
THEOREM ExecutesInOrder == Spec => SupportedExecutes
<1> DEFINE Executes == Supported => \A o \in created' \ created : CreatesWhatItCan(o)
<1>1. IInv /\ [Next]_vars => Executes
  <2> SUFFICES ASSUME IInv, [Next]_vars, Supported, NEW o \in created' \ created,
                      NEW p \in Objects, <<o, p>> \in needs
               PROVE  p \in Found
    BY DEF CreatesWhatItCan, Found
  <2>0. Acyclic /\ deps = needs
    BY DEF IInv, Supported, deps
  <2>1. WriteFirst \/ WriteBefore \/ WriteTables \/ WriteLate \/ WriteViews
    BY DEF Next, Read, Grow, Split, WriteDeferred, Done, vars
  <2>2. CASE WriteFirst
    <3>1. o \in First \ warned /\ o \in Objects /\ section = "first"
      BY <2>2 DEF WriteFirst, Write, Objects
    <3> QED  BY <3>1, NeedsOfSection
  <2>3. CASE WriteBefore
    <3>1. /\ IsNext(o, (Before \ warned) \ created, needs)
          /\ section = "before" /\ First \subseteq Found
      BY <2>0, <2>3 DEF WriteBefore, Write, Before, IInv, SectionsAreComplete
    <3>2. /\ o \in Before \ warned /\ o \in Objects
          /\ \A q \in (Before \ warned) \ created : <<o, q>> \notin needs
      BY <2>0, <3>1, NextIsFree DEF Before, Objects
    <3>3. p \in Early
      BY <3>1, <3>2, NeedsOfSection
    <3> QED  BY <3>1, <3>2, <3>3 DEF Early, Found
  <2>4. CASE WriteTables
    <3>1. /\ o \in Tables \ warned /\ o \in Objects
          /\ section = "tables" /\ Early \subseteq Found
      BY <2>4 DEF WriteTables, Write, Objects, IInv, SectionsAreComplete, Early
    <3> QED  BY <3>1, NeedsOfSection
  <2>5. CASE WriteLate
    <3>1. /\ IsNext(o, (after \ warned) \ created, needs)
          /\ section = "late" /\ Early \cup Tables \subseteq Found
      BY <2>0, <2>5 DEF WriteLate, Write, IInv, SectionsAreComplete, Early
    <3>2. /\ o \in after \ warned /\ o \in Objects
          /\ \A q \in (after \ warned) \ created : <<o, q>> \notin needs
      BY <2>0, <3>1, NextIsFree DEF IInv, TypeOK, Objects
    <3>3. p \in Early \cup Tables \cup after
      BY <3>1, <3>2, NeedsOfSection
    <3> QED  BY <3>1, <3>2, <3>3 DEF Found
  <2>6. CASE WriteViews
    <3>1. /\ IsNext(o, (Views \ warned) \ created, needs)
          /\ Early \cup Tables \cup after \subseteq Found
      BY <2>6 DEF WriteViews, Write, IInv, SectionsAreComplete, Early
    <3>2. \A q \in (Views \ warned) \ created : <<o, q>> \notin needs
      BY <2>0, <3>1, NextIsFree
    <3> QED  BY <3>1, <3>2 DEF Objects, Early, Before, Found
  <2> QED  BY <2>1, <2>2, <2>3, <2>4, <2>5, <2>6
<1>2. IInv /\ [Next]_vars => [Executes]_vars
  BY <1>1
<1> QED  BY <1>2, Invariance, PTL DEF Spec, SupportedExecutes
==============================================================================
