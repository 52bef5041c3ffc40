------------------------------ MODULE IndexAttach ------------------------------
(***************************************************************************)
(* The indexes of a partitioned PostgreSQL table, recreated in the order   *)
(* of order_tree_indexes.  An index on a partitioned table has an index    *)
(* attached to it on every partition that is not a foreign table, so       *)
(* indexes form trees.  Each is written as a CREATE INDEX of its own; the  *)
(* server, executing it on a partitioned table, attaches an index of the   *)
(* same shape that it finds on a partition or makes one with a name of its *)
(* own (Define, modelled from what the code expects of it).                *)
(*                                                                         *)
(* A constraint of a single partition has an index too, which may have the *)
(* shape of other indexes; constraints are written before all indexes.     *)
(***************************************************************************)
EXTENDS Naturals, FiniteSets

CONSTANTS
  Tables,   \* the table and its partitions, numbers
  ParentOf, \* ParentOf[t]: the table that t is a partition of, 0 for the top
  Shapes,   \* what CREATE INDEX says of an index besides its name and table
  NumTrees  \* bound: how many trees of indexes there are

ASSUME TreeAssumption ==
  /\ Tables \subseteq Nat \ {0} /\ IsFiniteSet(Tables)
  /\ ParentOf \in [Tables -> Tables \cup {0}]
  /\ \A t \in Tables : ParentOf[t] < t
ASSUME NumTreesAssumption == NumTrees \in Nat

VARIABLES
  root,        \* the table that the root of each index tree is on
  shape,       \* the shape of the indexes of each tree
  constraints, \* the trees that are the index of a constraint
  foreign,     \* the partitions that are foreign tables
  todo,        \* indexes, <<tree, table>>, that are not recreated yet
  restored     \* the indexes of the new database

catalog == <<root, shape, constraints, foreign>>
vars    == <<root, shape, constraints, foreign, todo, restored>>

Trees == 1..NumTrees
Leaf(t) == \A u \in Tables : ParentOf[u] # t

\* The table t and those above it: what every set has that has t and, with a
\* partition, its parent.
HasParents(S) == \A u \in S : ParentOf[u] # 0 => ParentOf[u] \in S
Above == [t \in Tables |-> {u \in Tables : \A S \in SUBSET Tables : t \in S /\ HasParents(S) => u \in S}]

\* How deep below the top a table is.
Level == [t \in Tables |-> Cardinality(Above[t] \ {t})]

None == <<>>

\* The index of tree r on table t in the exported database.
Indexes == {i \in Trees \X Tables : root[i[1]] \in Above[i[2]] /\ i[2] \notin foreign}
ParentIndex(i) == IF i[2] = root[i[1]] THEN None ELSE <<i[1], ParentOf[i[2]]>>

\* The trees are numbered in the order of the OIDs of their roots.
Init ==
  /\ foreign \in SUBSET {t \in Tables : Leaf(t) /\ ParentOf[t] # 0}
  /\ root \in [Trees -> Tables \ foreign]
  /\ shape \in [Trees -> Shapes]
  /\ constraints \in SUBSET {r \in Trees : Leaf(root[r]) /\ ParentOf[root[r]] # 0}
  /\ todo = Indexes
  /\ restored = {}

\* The server creates an index on a table and those below it, down to where a
\* partition is foreign or has an index, of that shape and without a parent, that
\* can be attached: the oldest of them is.
Define(name, table, s) ==
  LET found(d) == {x \in restored : x.table = d /\ x.shape = s /\ x.parent = None}
      oldest(d) == CHOOSE x \in found(d) : \A y \in found(d) : x.at <= y.at
      new == {d \in Tables : table \in Above[d]
                /\ \A u \in Above[d] \ Above[table] : u \notin foreign /\ found(u) = {}}
      attached == {oldest(d) : d \in {d \in Tables \ (new \cup foreign) : ParentOf[d] \in new}}
      nameOn(d) == IF d = table THEN name ELSE <<"auto", name, d>>
      parentOn(d) == IF d = table THEN None ELSE nameOn(ParentOf[d])
  IN  restored' =
        (restored \ attached)
          \cup {[x EXCEPT !.parent = nameOn(ParentOf[x.table])] : x \in attached}
          \cup {[name |-> nameOn(d), table |-> d, shape |-> s, parent |-> parentOn(d),
                 at |-> Cardinality(restored)] : d \in new}

\* Mutants: from the top down; without the level of the root.
KeyTopDown(i) == <<IF i[1] \in constraints THEN 0 ELSE 1,
                   Level[root[i[1]]], i[1], Level[i[2]], i[2]>>
KeyWithoutRootLevel(i) == <<IF i[1] \in constraints THEN 0 ELSE 1, 0, i[1],
                            Cardinality(Tables) - Level[i[2]], i[2]>>

\* The key that indexes are sorted by: constraints come first, then the level and
\* OID of the root, the level from the bottom up, and the index's OID.
Key(i) == <<IF i[1] \in constraints THEN 0 ELSE 1,
            Level[root[i[1]]], i[1], Cardinality(Tables) - Level[i[2]], i[2]>>

Less(a, b) == \E k \in 1..5 : a[k] < b[k] /\ \A j \in 1..(k - 1) : a[j] = b[j]

\* The next CREATE INDEX, or the next constraint.
Restore ==
  \E i \in todo :
    /\ \A j \in todo \ {i} : Less(Key(i), Key(j))
    /\ Define(i, i[2], shape[i[1]])
    /\ todo' = todo \ {i}
    /\ UNCHANGED catalog

Done == todo = {} /\ UNCHANGED vars

Next == Restore \/ Done

Spec == Init /\ [][Next]_vars

------------------------------------------------------------------------------
\* Properties

\* The shape of the state; no index is made twice.
TypeOK ==
  /\ root \in [Trees -> Tables] /\ shape \in [Trees -> Shapes]
  /\ constraints \subseteq Trees /\ foreign \subseteq Tables
  /\ todo \subseteq Indexes
  /\ \A x \in restored : x.table \in Tables \ foreign /\ x.shape \in Shapes
  /\ Cardinality(restored) + Cardinality(todo) = Cardinality(Indexes)

\* Every index of the new database has the name it had, on the table it was on:
\* the server never has to make up one for a partition.
KeepsNames ==
  {<<x.name, x.table>> : x \in restored} = {<<i, i[2]>> : i \in Indexes \ todo}

\* A constraint of a partition whose index has the shape of an index above it.
Ambiguous == \E r \in constraints, q \in Trees \ constraints :
               shape[r] = shape[q] /\ root[q] \in Above[root[r]] \ {root[r]}

\* No index is attached to one that it did not belong to, and in the end all that
\* belonged together are attached again, whichever trees have the same shape.
KeepsTrees ==
  ~Ambiguous =>
    \A x \in restored :
      \/ x.parent = ParentIndex(x.name)
      \/ x.parent = None /\ ParentIndex(x.name) \in todo
==============================================================================
