--------------------------- MODULE IndexAttachProofs ---------------------------
(***************************************************************************)
(* Recreating the indexes of a partitioned table, for any tree of          *)
(* partitions and any number of trees of indexes.                          *)
(***************************************************************************)
EXTENDS IndexAttach, FiniteSetTheorems, WellFoundedInduction, TLAPS

------------------------------------------------------------------------------
\* Trees of tables

\* What is above a table: itself and what is above its parent.
LEMMA AboveHasParents ==
  ASSUME NEW t \in Tables
  PROVE  t \in Above[t] /\ Above[t] \subseteq Tables /\ HasParents(Above[t])
BY TreeAssumption DEF Above, HasParents

LEMMA AboveIsLeast ==
  ASSUME NEW t \in Tables, NEW S \in SUBSET Tables, t \in S, HasParents(S)
  PROVE  Above[t] \subseteq S
BY DEF Above

LEMMA ParentIsOther ==
  ASSUME NEW t \in Tables
  PROVE  ParentOf[t] # t
<1>1. t \in Nat /\ ParentOf[t] < t
  BY TreeAssumption
<1> QED  BY <1>1

LEMMA AboveTop ==
  ASSUME NEW t \in Tables, ParentOf[t] = 0
  PROVE  Above[t] = {t}
<1>1. HasParents({t})
  BY DEF HasParents
<1> QED  BY <1>1, AboveHasParents, AboveIsLeast

LEMMA AbovePartition ==
  ASSUME NEW t \in Tables, ParentOf[t] # 0
  PROVE  /\ ParentOf[t] \in Tables
         /\ Above[t] = {t} \cup Above[ParentOf[t]]
<1>1. ParentOf[t] \in Tables
  BY TreeAssumption
<1> DEFINE S == {t} \cup Above[ParentOf[t]]
<1>2. S \subseteq Tables /\ HasParents(S)
  BY <1>1, AboveHasParents DEF HasParents
<1>3. Above[t] \subseteq S
  BY <1>2, AboveIsLeast
<1>4. ParentOf[t] \in Above[t]
  BY AboveHasParents DEF HasParents
<1>5. Above[ParentOf[t]] \subseteq Above[t]
  BY <1>1, <1>4, AboveHasParents, AboveIsLeast
<1> QED  BY <1>1, <1>3, <1>5, AboveHasParents

LEMMA AboveTransitive ==
  ASSUME NEW t \in Tables, NEW u \in Above[t]
  PROVE  u \in Tables /\ Above[u] \subseteq Above[t]
BY AboveHasParents, AboveIsLeast

\* A partition has a larger number than the tables above it.
LEMMA AboveIsSmaller ==
  ASSUME NEW t \in Tables, NEW u \in Above[t]
  PROVE  u <= t
<1> DEFINE S == {v \in Tables : v <= t}
<1>1. HasParents(S)
  <2> SUFFICES ASSUME NEW v \in S, ParentOf[v] # 0 PROVE ParentOf[v] \in S
    BY DEF HasParents
  <2>1. v \in Nat /\ t \in Nat /\ v <= t /\ ParentOf[v] \in Nat /\ ParentOf[v] < v
    BY TreeAssumption
  <2>2. ParentOf[v] <= t
    BY <2>1
  <2> QED  BY <2>2, TreeAssumption
<1>2. t \in S
  BY TreeAssumption
<1>3. Above[t] \subseteq S
  BY <1>1, <1>2, AboveIsLeast
<1> QED  BY <1>3

\* Above a table, but not the table itself, is what is above its parent.
LEMMA AboveParent ==
  ASSUME NEW t \in Tables, NEW u \in Above[t], u # t
  PROVE  /\ ParentOf[t] # 0 /\ ParentOf[t] \in Tables
         /\ u \in Above[ParentOf[t]]
BY AboveTop, AbovePartition

\* A table below another is one of its partitions or below one of them.
LEMMA PartitionBetween ==
  ASSUME NEW u \in Tables, NEW d \in Above[u], u # d
  PROVE  \E e \in Above[u] \ Above[d] : ParentOf[e] = d
<1>1. d \in Tables /\ u \in Above[u] /\ Above[u] \subseteq Tables
  BY AboveHasParents
<1>2. \E e \in Above[u] : ParentOf[e] = d
  <2> SUFFICES ASSUME \A e \in Above[u] : ParentOf[e] # d PROVE FALSE
    OBVIOUS
  <2>1. HasParents(Above[u] \ {d})
    BY AboveHasParents DEF HasParents
  <2>2. Above[u] \subseteq Above[u] \ {d}
    BY <1>1, <2>1, AboveIsLeast
  <2> QED  BY <2>2
<1>3. \A e \in Tables : ParentOf[e] = d => e \notin Above[d]
  BY <1>1, AboveIsSmaller, TreeAssumption
<1> QED  BY <1>1, <1>2, <1>3

LEMMA AboveFinite ==
  ASSUME NEW t \in Tables
  PROVE  /\ IsFiniteSet(Above[t]) /\ IsFiniteSet(Above[t] \ {t})
         /\ Cardinality(Above[t]) \in Nat /\ Level[t] \in Nat
         /\ Cardinality(Above[t]) = Level[t] + 1
         /\ Cardinality(Tables) \in Nat /\ Level[t] < Cardinality(Tables)
<1>1. IsFiniteSet(Above[t]) /\ Cardinality(Above[t]) <= Cardinality(Tables)
  BY AboveHasParents, FS_Subset, TreeAssumption
<1>2. Cardinality(Above[t]) \in Nat /\ Cardinality(Tables) \in Nat
  BY <1>1, FS_CardinalityType, TreeAssumption
<1>3. IsFiniteSet(Above[t] \ {t}) /\ Cardinality(Above[t] \ {t}) = Cardinality(Above[t]) - 1
  BY <1>1, AboveHasParents, FS_RemoveElement
<1>4. Cardinality(Above[t] \ {t}) \in Nat
  BY <1>3, FS_CardinalityType
<1> QED  BY <1>1, <1>2, <1>3, <1>4 DEF Level

\* A partition is one level deeper than its parent.
LEMMA LevelOfPartition ==
  ASSUME NEW t \in Tables, ParentOf[t] # 0
  PROVE  Level[t] = Level[ParentOf[t]] + 1
<1>1. ParentOf[t] \in Tables /\ Above[t] = {t} \cup Above[ParentOf[t]]
  BY AbovePartition
<1>2. t \notin Above[ParentOf[t]]
  <2>1. t \in Nat /\ ParentOf[t] \in Nat /\ ParentOf[t] < t
    BY TreeAssumption
  <2>2. ~(t <= ParentOf[t])
    BY <2>1
  <2> QED  BY <1>1, <2>2, AboveIsSmaller
<1>3. Above[t] \ {t} = Above[ParentOf[t]]
  BY <1>1, <1>2
<1> QED  BY <1>1, <1>3, AboveFinite DEF Level

LEMMA LevelAbove ==
  ASSUME NEW t \in Tables, NEW u \in Above[t]
  PROVE  Level[u] <= Level[t]
<1>1. u \in Tables /\ Above[u] \subseteq Above[t]
  BY AboveTransitive
<1>2. Cardinality(Above[u]) <= Cardinality(Above[t])
  BY <1>1, AboveFinite, FS_Subset
<1>3. \A v \in {t, u} : Level[v] \in Nat /\ Cardinality(Above[v]) = Level[v] + 1
  BY <1>1, AboveFinite
<1> QED  BY <1>2, <1>3

------------------------------------------------------------------------------
\* The order of the indexes

\* How far the key of an index depends on its tree.
InOrder(i, j) ==
  LET k == Key(i)
      l == Key(j)
  IN  k[1] < l[1] \/ (k[1] = l[1] /\ (k[2] < l[2] \/ (k[2] = l[2] /\ k[3] <= l[3])))

LEMMA KeyType ==
  ASSUME NEW i \in Indexes
  PROVE  /\ i[1] \in Trees /\ i[2] \in Tables /\ i = <<i[1], i[2]>>
         /\ Key(i)[1] = (IF i[1] \in constraints THEN 0 ELSE 1)
         /\ Key(i)[2] = Level[root[i[1]]] /\ Key(i)[3] = i[1]
         /\ Key(i)[4] = Cardinality(Tables) - Level[i[2]] /\ Key(i)[5] = i[2]
BY DEF Indexes, Key

\* Less compares the keys part by part.
LEMMA LessByParts ==
  ASSUME NEW a, NEW b, Less(a, b)
  PROVE  \/ a[1] < b[1]
         \/ a[1] = b[1] /\ a[2] < b[2]
         \/ a[1] = b[1] /\ a[2] = b[2] /\ a[3] < b[3]
         \/ a[1] = b[1] /\ a[2] = b[2] /\ a[3] = b[3] /\ (a[4] < b[4] \/ (a[4] = b[4] /\ a[5] < b[5]))
<1>1. PICK k \in 1..5 : a[k] < b[k] /\ \A j \in 1..(k - 1) : a[j] = b[j]
  BY DEF Less
<1>2. \A j \in {1, 2, 3, 4} : j < k => a[j] = b[j]
  BY <1>1
<1>3. k = 1 \/ k = 2 \/ k = 3 \/ k = 4 \/ k = 5
  OBVIOUS
<1> QED  BY <1>1, <1>2, <1>3

\* The index of a tree on a partition comes before the one on the partition's parent.
LEMMA PartitionFirst ==
  ASSUME NEW i \in Indexes, NEW j \in Indexes, root \in [Trees -> Tables],
         i[1] = j[1], ParentOf[j[2]] = i[2]
  PROVE  ~Less(Key(i), Key(j))
<1>1. i[2] # 0 /\ i[2] \in Tables /\ j[2] \in Tables /\ i[2] < j[2] /\ i[2] \in Nat /\ j[2] \in Nat
  BY KeyType, TreeAssumption
<1>2. Level[j[2]] = Level[i[2]] + 1 /\ Level[i[2]] \in Nat /\ Cardinality(Tables) \in Nat
  BY <1>1, LevelOfPartition, AboveFinite
<1> DEFINE c == IF i[1] \in constraints THEN 0 ELSE 1
           v == Level[root[i[1]]]
<1>3. /\ Key(i)[1] = c /\ Key(i)[2] = v /\ Key(i)[3] = i[1]
      /\ Key(j)[1] = c /\ Key(j)[2] = v /\ Key(j)[3] = i[1]
      /\ Key(i)[4] = Cardinality(Tables) - Level[i[2]]
      /\ Key(j)[4] = Cardinality(Tables) - Level[j[2]]
  BY KeyType
<1>4. c \in Nat /\ v \in Nat /\ i[1] \in Nat
  <2>1. i[1] \in Trees /\ root[i[1]] \in Tables
    BY KeyType
  <2>2. v \in Nat
    BY <2>1, AboveFinite
  <2> QED  BY <2>1, <2>2 DEF Trees
<1> HIDE DEF c, v
<1>5. SUFFICES ASSUME Less(Key(i), Key(j)) PROVE FALSE
  OBVIOUS
<1>6. \/ c < c \/ v < v \/ i[1] < i[1]
      \/ Key(i)[4] < Key(j)[4] \/ Key(i)[4] = Key(j)[4]
  BY <1>3, <1>5, LessByParts
<1> QED  BY <1>2, <1>3, <1>4, <1>6

LEMMA LessInOrder ==
  ASSUME NEW i \in Indexes, NEW j \in Indexes, Less(Key(i), Key(j))
  PROVE  InOrder(i, j)
<1>1. Key(i)[3] = i[1] /\ Key(j)[3] = j[1] /\ i[1] \in Nat /\ j[1] \in Nat
  BY KeyType DEF Trees
<1>2. /\ Key(i)[3] < Key(j)[3] => Key(i)[3] <= Key(j)[3]
      /\ Key(i)[3] = Key(j)[3] => Key(i)[3] <= Key(j)[3]
  BY <1>1
<1> QED  BY <1>2, LessByParts DEF InOrder

------------------------------------------------------------------------------
\* The inductive invariant

Made == Indexes \ todo

CatalogOK ==
  /\ root \in [Trees -> Tables] /\ shape \in [Trees -> Shapes]
  /\ constraints \subseteq Trees /\ foreign \subseteq {t \in Tables : Leaf(t)}

\* Indexes are made in the order of their keys.
MadeInOrder == todo \subseteq Indexes /\ \A i \in Made : \A j \in todo : Less(Key(i), Key(j))

\* The indexes that are made are those of the new database, each of them once.
SameIndexes ==
  /\ restored \subseteq [name : Indexes, table : Tables, shape : Shapes,
                          parent : Indexes \cup {None}, at : Nat]
  /\ \A x \in restored : x.name \in Made /\ x.table = x.name[2] /\ x.shape = shape[x.name[1]]
  /\ \A x \in restored : \A y \in restored : x.name = y.name => x = y
  /\ \A i \in Made : \E x \in restored : x.name = i

\* An index is attached to one of its shape on the table's parent, which no other
\* index of that table is attached to.
OneOfEachTable ==
  /\ \A x \in restored : x.parent # None =>
       /\ x.parent \in Made /\ x.parent[2] = ParentOf[x.table]
       /\ shape[x.parent[1]] = x.shape
  /\ \A x \in restored : \A y \in restored :
       x.parent # None /\ x.parent = y.parent /\ x.table = y.table => x = y

(***************************************************************************)
(* That the names are kept follows from counting: an index could be made   *)
(* up for a partition only if all that it has of a shape were attached,    *)
(* and then it would have no more of them than the table above it.         *)
(***************************************************************************)
IInv == CatalogOK /\ MadeInOrder /\ SameIndexes /\ OneOfEachTable

IsNext(i) == i \in todo /\ \A j \in todo \ {i} : Less(Key(i), Key(j))
Partitions(d) == {e \in Tables \ foreign : ParentOf[e] = d}
Found(d, s) == {x \in restored : x.table = d /\ x.shape = s /\ x.parent = None}
Oldest(d, s) == CHOOSE x \in Found(d, s) : \A y \in Found(d, s) : x.at <= y.at
Attached(i) == {Oldest(e, shape[i[1]]) : e \in Partitions(i[2])}

LEMMA IndexOnPartition ==
  ASSUME CatalogOK, NEW i \in Indexes, NEW e \in Partitions(i[2])
  PROVE  <<i[1], e>> \in Indexes
<1>1. /\ i[1] \in Trees /\ i[2] \in Tables /\ e \in Tables \ foreign
      /\ ParentOf[e] = i[2] /\ root[i[1]] \in Above[i[2]]
  BY DEF Indexes, Partitions
<1>2. Above[e] = {e} \cup Above[i[2]]
  BY <1>1, AbovePartition, TreeAssumption
<1> QED  BY <1>1, <1>2 DEF Indexes

\* Before an index of a tree its indexes on the partitions below are made.
LEMMA PartitionsMade ==
  ASSUME IInv, NEW i \in Indexes, i \in Made \/ IsNext(i), NEW e \in Partitions(i[2])
  PROVE  <<i[1], e>> \in Made
<1> DEFINE j == <<i[1], e>>
<1>1. j \in Indexes /\ j[1] = i[1] /\ j[2] = e /\ ParentOf[j[2]] = i[2]
  BY IndexOnPartition DEF IInv, Partitions
<1> HIDE DEF j
<1>2. ~Less(Key(i), Key(j))
  BY <1>1, PartitionFirst DEF IInv, CatalogOK
<1>3. j # i
  <2>1. j[2] \in Tables
    BY <1>1, KeyType
  <2> QED  BY <1>1, <2>1, ParentIsOther
<1>4. j \notin todo
  BY <1>2, <1>3 DEF IInv, MadeInOrder, IsNext
<1>5. j \in Made
  BY <1>1, <1>4 DEF Made
<1> QED  BY <1>5 DEF j

\* The trees of a shape that have their index on a table made.
TreesOn(d, s) == {r \in Trees : <<r, d>> \in Made /\ shape[r] = s}

LEMMA TreesFinite ==
  ASSUME NEW S \in SUBSET Trees
  PROVE  IsFiniteSet(S) /\ Cardinality(S) \in Nat
<1>1. IsFiniteSet(Trees)
  BY FS_Interval, NumTreesAssumption DEF Trees
<1> QED  BY <1>1, FS_Subset, FS_CardinalityType

\* A partition has one more made of the shape of the next index than the table above.
LEMMA MoreOnPartition ==
  ASSUME IInv, NEW i \in Indexes, IsNext(i), NEW e \in Partitions(i[2])
  PROVE  Cardinality(TreesOn(i[2], shape[i[1]])) < Cardinality(TreesOn(e, shape[i[1]]))
<1> DEFINE A == TreesOn(i[2], shape[i[1]])
           B == TreesOn(e, shape[i[1]])
<1>0. i[1] \in Trees /\ i = <<i[1], i[2]>> /\ i \notin Made
  BY KeyType DEF IsNext, Made
<1>1. A \subseteq B
  <2> SUFFICES ASSUME NEW r \in A PROVE r \in B
    OBVIOUS
  <2>1. r \in Trees /\ <<r, i[2]>> \in Made /\ <<r, i[2]>> \in Indexes /\ shape[r] = shape[i[1]]
    BY DEF TreesOn, Made
  <2>2. <<r, e>> \in Made
    BY <2>1, PartitionsMade
  <2> QED  BY <2>1, <2>2 DEF TreesOn
<1>2. i[1] \in B \ A
  BY <1>0, PartitionsMade DEF TreesOn
<1>3. A \subseteq Trees /\ B \subseteq Trees
  BY DEF TreesOn
<1>4. IsFiniteSet(B) /\ Cardinality(A) \in Nat /\ Cardinality(B) \in Nat
  BY <1>3, TreesFinite
<1>5. Cardinality(A) <= Cardinality(B) /\ Cardinality(A) # Cardinality(B)
  BY <1>1, <1>2, <1>4, FS_Subset
<1> QED  BY <1>4, <1>5

\* So one of them is free to be attached.
LEMMA OneIsFree ==
  ASSUME IInv, NEW i \in Indexes, IsNext(i), NEW e \in Partitions(i[2])
  PROVE  Found(e, shape[i[1]]) # {}
<1> DEFINE A == TreesOn(i[2], shape[i[1]])
           B == TreesOn(e, shape[i[1]])
           of(r) == CHOOSE x \in restored : x.name = <<r, e>>
           f == [r \in B |-> of(r).parent[1]]
<1>1. SUFFICES ASSUME Found(e, shape[i[1]]) = {} PROVE FALSE
  OBVIOUS
<1>2. \A r \in B : /\ of(r) \in restored /\ of(r).name = <<r, e>>
                   /\ of(r).table = e /\ of(r).shape = shape[i[1]]
  <2> TAKE r \in B
  <2>1. <<r, e>> \in Made /\ shape[r] = shape[i[1]]
    BY DEF TreesOn
  <2>2. of(r) \in restored /\ of(r).name = <<r, e>>
    BY <2>1 DEF IInv, SameIndexes
  <2> QED  BY <2>1, <2>2 DEF IInv, SameIndexes
<1> HIDE DEF of
<1>3. \A r \in B : /\ of(r).parent # None /\ of(r).parent \in Made /\ of(r).parent[2] = i[2]
                   /\ shape[of(r).parent[1]] = shape[i[1]]
  <2> TAKE r \in B
  <2>1. of(r).parent # None
    BY <1>1, <1>2 DEF Found
  <2>2. ParentOf[e] = i[2]
    BY DEF Partitions
  <2> QED  BY <1>2, <2>1, <2>2 DEF IInv, OneOfEachTable
<1>4. \A r \in B : /\ of(r).parent[1] \in A
                   /\ of(r).parent = <<of(r).parent[1], i[2]>>
  <2> TAKE r \in B
  <2> DEFINE p == of(r).parent
  <2>1. p \in Made /\ p \in Indexes /\ p[2] = i[2] /\ shape[p[1]] = shape[i[1]]
    BY <1>3 DEF Made
  <2> HIDE DEF p
  <2>2. p[1] \in Trees /\ p = <<p[1], i[2]>>
    BY <2>1, KeyType
  <2>3. p[1] \in A /\ p = <<p[1], i[2]>>
    BY <2>1, <2>2 DEF TreesOn
  <2> QED  BY <2>3 DEF p
<1>5. f \in [B -> A]
  BY <1>4
<1>6. \A r \in B : \A t \in B : f[r] = f[t] => r = t
  <2> TAKE r \in B
  <2> TAKE t \in B
  <2> HAVE f[r] = f[t]
  <2>1. of(r).parent = of(t).parent
    BY <1>4
  <2>2. of(r) = of(t)
    BY <1>2, <1>3, <2>1 DEF IInv, OneOfEachTable
  <2>3. <<r, e>> = <<t, e>>
    BY <1>2, <2>2
  <2> QED  BY <2>3
<1> HIDE DEF f
<1>7. A \subseteq Trees /\ B \subseteq Trees
  BY DEF TreesOn
<1>8. IsFiniteSet(A) /\ IsFiniteSet(B)
  BY <1>7, TreesFinite
<1>9. Cardinality(A) < Cardinality(B)
  BY MoreOnPartition
<1>10. \E r, t \in B : r # t /\ f[r] = f[t]
  BY <1>5, <1>8, <1>9, FS_PigeonHole
<1> QED  BY <1>6, <1>10

LEMMA OldestExists ==
  ASSUME IInv, NEW d, NEW s, Found(d, s) # {}
  PROVE  Oldest(d, s) \in Found(d, s)
<1> DEFINE S == {x.at : x \in Found(d, s)}
           less == {ss \in Nat \X Nat : ss[1] < ss[2]}
<1>1. S \subseteq Nat /\ S # {}
  BY DEF IInv, SameIndexes, Found
<1>2. IsWellFoundedOn(less, Nat)
  BY NatLessThanWellFounded DEF OpToRel
<1> HIDE DEF less, S
<1>3. PICK n \in S : \A m \in S : ~(<<m, n>> \in less)
  BY <1>1, <1>2, WFMin
<1>4. \A m \in S : n <= m
  <2> TAKE m \in S
  <2>1. n \in Nat /\ m \in Nat /\ <<m, n>> \notin less
    BY <1>1, <1>3
  <2>2. ~(<<m, n>>[1] < <<m, n>>[2])
    BY <2>1 DEF less
  <2> QED  BY <2>1, <2>2
<1>5. \E x \in Found(d, s) : \A y \in Found(d, s) : x.at <= y.at
  BY <1>4 DEF S
<1> QED  BY <1>5 DEF Oldest

LEMMA IndexesFinite ==
  /\ IsFiniteSet(Indexes)
  /\ \A S \in SUBSET Indexes : IsFiniteSet(S) /\ Cardinality(S) \in Nat
<1>1. IsFiniteSet(Trees) /\ IsFiniteSet(Tables)
  BY TreesFinite, TreeAssumption
<1>2. IsFiniteSet(Trees \X Tables)
  BY <1>1, FS_Product
<1>3. IsFiniteSet(Indexes)
  BY <1>2, FS_Subset DEF Indexes
<1> QED  BY <1>3, FS_Subset, FS_CardinalityType

\* The new database has as many indexes as are made.
LEMMA AsManyAsMade ==
  ASSUME IInv
  PROVE  IsFiniteSet(restored) /\ Cardinality(restored) = Cardinality(Made)
<1> DEFINE f == [x \in restored |-> x.name]
<1>1. f \in [restored -> Made]
  BY DEF IInv, SameIndexes
<1>2. \A x \in restored : \A y \in restored : f[x] = f[y] => x = y
  BY DEF IInv, SameIndexes
<1>3. \A j \in Made : \E x \in restored : f[x] = j
  BY DEF IInv, SameIndexes
<1> HIDE DEF f
<1>4. f \in Injection(restored, Made) /\ f \in Surjection(restored, Made)
  BY <1>1, <1>2, <1>3 DEF Injection, Surjection, IsInjective
<1>5. IsFiniteSet(Made)
  BY IndexesFinite DEF Made
<1>6. IsFiniteSet(restored)
  BY <1>4, <1>5, FS_Injection
<1> QED  BY <1>4, <1>5, <1>6, FS_Injection

------------------------------------------------------------------------------
\* One step: the next index is made and what is below it is attached to it

LEMMA AttachedAreFree ==
  ASSUME IInv, NEW i \in Indexes, IsNext(i)
  PROVE  /\ Attached(i) \subseteq restored
         /\ \A x \in Attached(i) : /\ x.parent = None /\ x.shape = shape[i[1]]
                                   /\ x.table \in Partitions(i[2])
         /\ \A x \in Attached(i) : \A y \in Attached(i) : x.table = y.table => x = y
         /\ \A e \in Partitions(i[2]) : \E x \in Attached(i) : x.table = e
<1>1. \A e \in Partitions(i[2]) : Oldest(e, shape[i[1]]) \in Found(e, shape[i[1]])
  BY OneIsFree, OldestExists
<1> QED  BY <1>1 DEF Attached, Found

New(i) == [name |-> i, table |-> i[2], shape |-> shape[i[1]], parent |-> None,
           at |-> Cardinality(restored)]

\* Nothing is made up on the tables below: each partition has one that is free.
LEMMA MakesOne ==
  ASSUME IInv, NEW i \in Indexes, IsNext(i), Define(i, i[2], shape[i[1]])
  PROVE  restored' = (restored \ Attached(i))
                       \cup {[x EXCEPT !.parent = i] : x \in Attached(i)} \cup {New(i)}
<1> DEFINE t == i[2]
           s == shape[i[1]]
           new == {d \in Tables : t \in Above[d]
                     /\ \A u \in Above[d] \ Above[t] : u \notin foreign /\ Found(u, s) = {}}
           attached == {Oldest(d, s) : d \in {d \in Tables \ (new \cup foreign) : ParentOf[d] \in new}}
           nameOn(d) == IF d = t THEN i ELSE <<"auto", i, d>>
           parentOn(d) == IF d = t THEN None ELSE nameOn(ParentOf[d])
<1>1. t \in Tables
  BY KeyType
<1>2. new = {t}
  <2>1. t \in new
    BY <1>1, AboveHasParents
  <2>2. ASSUME NEW d \in new, d # t PROVE FALSE
    <3>1. d \in Tables /\ t \in Above[d]
      OBVIOUS
    <3>2. PICK e \in Above[d] \ Above[t] : ParentOf[e] = t
      BY <2>2, <3>1, PartitionBetween
    <3>3. e \notin foreign /\ Found(e, s) = {}
      BY <3>2
    <3>4. e \in Partitions(t)
      BY <3>1, <3>2, <3>3, AboveHasParents DEF Partitions
    <3> QED  BY <3>3, <3>4, OneIsFree
  <2> QED  BY <2>1, <2>2
<1>3. {d \in Tables \ (new \cup foreign) : ParentOf[d] \in new} = Partitions(t)
  <2>1. ParentOf[t] # t
    BY <1>1, ParentIsOther
  <2> QED  BY <1>2, <2>1 DEF Partitions
<1>4. attached = Attached(i)
  BY <1>3 DEF Attached
<1>5. restored' =
        (restored \ attached)
          \cup {[x EXCEPT !.parent = nameOn(ParentOf[x.table])] : x \in attached}
          \cup {[name |-> nameOn(d), table |-> d, shape |-> s, parent |-> parentOn(d),
                 at |-> Cardinality(restored)] : d \in new}
  BY DEF Define, Found, Oldest
<1>6. {[name |-> nameOn(d), table |-> d, shape |-> s, parent |-> parentOn(d),
        at |-> Cardinality(restored)] : d \in new} = {New(i)}
  BY <1>2 DEF New
<1> HIDE DEF new, attached
<1>7. \A x \in attached : ParentOf[x.table] = t
  BY <1>4, AttachedAreFree DEF Partitions
<1>8. {[x EXCEPT !.parent = nameOn(ParentOf[x.table])] : x \in attached}
        = {[x EXCEPT !.parent = i] : x \in attached}
  BY <1>7
<1> QED  BY <1>4, <1>5, <1>6, <1>8

\* An index after the step: attached to the new one, or as it was.
Moved(i, x) == IF x \in Attached(i) THEN [x EXCEPT !.parent = i] ELSE x

Records == [name : Indexes, table : Tables, shape : Shapes, parent : Indexes \cup {None}, at : Nat]

LEMMA NotNone == ASSUME NEW i \in Indexes PROVE i # None
<1>1. i = <<i[1], i[2]>>
  BY KeyType
<1> QED  BY <1>1 DEF None

LEMMA MovedFields ==
  ASSUME NEW i \in Indexes, NEW x \in Records
  PROVE  /\ Moved(i, x) \in Records /\ Moved(i, x).name = x.name
         /\ Moved(i, x).table = x.table /\ Moved(i, x).shape = x.shape
         /\ Moved(i, x).parent = (IF x \in Attached(i) THEN i ELSE x.parent)
BY DEF Moved, Records

LEMMA NewFields ==
  ASSUME IInv, NEW i \in Indexes
  PROVE  /\ New(i) \in Records /\ New(i).name = i /\ New(i).table = i[2]
         /\ New(i).shape = shape[i[1]] /\ New(i).parent = None
<1>1. i[1] \in Trees /\ i[2] \in Tables /\ shape[i[1]] \in Shapes
  BY KeyType DEF IInv, CatalogOK
<1>2. Cardinality(restored) \in Nat
  BY AsManyAsMade, FS_CardinalityType
<1> QED  BY <1>1, <1>2 DEF New, Records

\* The step, as the invariants see it.
Step(i) ==
  /\ IsNext(i) /\ todo' = todo \ {i} /\ UNCHANGED catalog
  /\ restored' = {Moved(i, x) : x \in restored} \cup {New(i)}

LEMMA RestoreSteps ==
  ASSUME IInv, Restore
  PROVE  \E i \in Indexes : Step(i)
<1>1. PICK i \in todo : /\ IsNext(i) /\ Define(i, i[2], shape[i[1]])
                       /\ todo' = todo \ {i} /\ UNCHANGED catalog
  BY DEF Restore, IsNext
<1>2. i \in Indexes
  BY DEF IInv, MadeInOrder
<1>3. restored' = (restored \ Attached(i))
                    \cup {[x EXCEPT !.parent = i] : x \in Attached(i)} \cup {New(i)}
  BY <1>1, <1>2, MakesOne
<1>4. Attached(i) \subseteq restored
  BY <1>1, <1>2, AttachedAreFree
<1>5. (restored \ Attached(i)) \cup {[x EXCEPT !.parent = i] : x \in Attached(i)}
        = {Moved(i, x) : x \in restored}
  BY <1>4 DEF Moved
<1> QED  BY <1>1, <1>2, <1>3, <1>5 DEF Step

LEMMA StepCatalog ==
  ASSUME IInv, NEW i \in Indexes, Step(i)
  PROVE  /\ root' = root /\ shape' = shape /\ constraints' = constraints /\ foreign' = foreign
         /\ Indexes' = Indexes /\ Made' = Made \cup {i} /\ i \notin Made
         /\ \A j \in Indexes : Key(j)' = Key(j)
<1>1. root' = root /\ shape' = shape /\ constraints' = constraints /\ foreign' = foreign
  BY DEF Step, catalog
<1>2. Indexes' = Indexes
  BY <1>1 DEF Indexes
<1>3. Made' = Made \cup {i} /\ i \notin Made
  BY <1>2 DEF Made, Step, IsNext
<1>4. \A j \in Indexes : Key(j)' = Key(j)
  BY <1>1 DEF Key
<1> QED  BY <1>1, <1>2, <1>3, <1>4

LEMMA StepMadeInOrder ==
  ASSUME IInv, NEW i \in Indexes, Step(i)
  PROVE  MadeInOrder'
<1>1. todo' \subseteq Indexes /\ todo' = todo \ {i}
  BY DEF Step, IInv, MadeInOrder
<1>2. \A k \in Made \cup {i} : \A j \in todo' : Less(Key(k), Key(j))
  BY <1>1 DEF IInv, MadeInOrder, Step, IsNext
<1>3. Made \cup {i} \subseteq Indexes
  BY DEF Made
<1>4. \A k \in Made' : \A j \in todo' : Less(Key(k)', Key(j)')
  BY <1>1, <1>2, <1>3, StepCatalog
<1> QED  BY <1>1, <1>4, StepCatalog DEF MadeInOrder, Less

LEMMA StepSameIndexes ==
  ASSUME IInv, NEW i \in Indexes, Step(i)
  PROVE  SameIndexes'
<1>0. /\ restored \subseteq Records /\ Records' = Records
      /\ \A x \in restored : x.name \in Made /\ x.table = x.name[2] /\ x.shape = shape[x.name[1]]
      /\ \A x \in restored : \A y \in restored : x.name = y.name => x = y
      /\ \A j \in Made : \E x \in restored : x.name = j
  BY StepCatalog DEF IInv, SameIndexes, Records
<1>1. restored' = {Moved(i, x) : x \in restored} \cup {New(i)}
  BY DEF Step
<1>2. restored' \subseteq Records
  BY <1>0, <1>1, MovedFields, NewFields
<1>3. \A x \in restored' : x.name \in Made' /\ x.table = x.name[2] /\ x.shape = shape'[x.name[1]]
  BY <1>0, <1>1, MovedFields, NewFields, StepCatalog
<1>4. \A x \in restored' : \A y \in restored' : x.name = y.name => x = y
  <2>1. \A x \in restored : \A y \in restored :
          Moved(i, x).name = Moved(i, y).name => Moved(i, x) = Moved(i, y)
    BY <1>0, MovedFields
  <2>2. \A x \in restored : Moved(i, x).name # New(i).name
    BY <1>0, MovedFields, NewFields, StepCatalog
  <2> QED  BY <1>1, <2>1, <2>2
<1>5. \A j \in Made' : \E x \in restored' : x.name = j
  BY <1>0, <1>1, MovedFields, NewFields, StepCatalog
<1> QED  BY <1>0, <1>2, <1>3, <1>4, <1>5 DEF SameIndexes, Records

LEMMA StepOneOfEachTable ==
  ASSUME IInv, NEW i \in Indexes, Step(i)
  PROVE  OneOfEachTable'
<1>0. restored \subseteq Records /\ IsNext(i)
  BY DEF IInv, SameIndexes, Records, Step
<1>1. restored' = {Moved(i, x) : x \in restored} \cup {New(i)}
  BY DEF Step
<1>2. ASSUME NEW x \in restored, Moved(i, x).parent # None
      PROVE  /\ Moved(i, x).parent \in Made \cup {i}
             /\ Moved(i, x).parent[2] = ParentOf[x.table]
             /\ shape[Moved(i, x).parent[1]] = x.shape
  <2>1. CASE x \in Attached(i)
    BY <1>0, <2>1, MovedFields, AttachedAreFree DEF Partitions
  <2>2. CASE x \notin Attached(i)
    BY <1>0, <1>2, <2>2, MovedFields DEF IInv, OneOfEachTable
  <2> QED  BY <2>1, <2>2
<1>3. ASSUME NEW x \in restored, NEW y \in restored, Moved(i, x).parent # None,
             Moved(i, x).parent = Moved(i, y).parent, x.table = y.table
      PROVE  x = y
  <2>1. \A z \in restored : z \notin Attached(i) => Moved(i, z).parent = z.parent /\ z.parent # i
    BY <1>0, MovedFields, NotNone, StepCatalog DEF IInv, OneOfEachTable
  <2>2. \A z \in Attached(i) : Moved(i, z).parent = i
    BY <1>0, MovedFields, AttachedAreFree
  <2>3. CASE x \in Attached(i)
    BY <1>0, <1>3, <2>1, <2>2, <2>3, AttachedAreFree
  <2>4. CASE x \notin Attached(i)
    BY <1>3, <2>1, <2>2, <2>4 DEF IInv, OneOfEachTable
  <2> QED  BY <2>3, <2>4
<1>4. \A x \in restored : Moved(i, x).table = x.table /\ Moved(i, x).shape = x.shape
  BY <1>0, MovedFields
<1>5. New(i).parent = None
  BY NewFields
<1>6. \A x \in restored' : x.parent # None =>
        /\ x.parent \in Made' /\ x.parent[2] = ParentOf[x.table]
        /\ shape'[x.parent[1]] = x.shape
  BY <1>1, <1>2, <1>4, <1>5, StepCatalog
<1>7. \A x \in restored' : \A y \in restored' :
        x.parent # None /\ x.parent = y.parent /\ x.table = y.table => x = y
  BY <1>1, <1>3, <1>4, <1>5
<1> QED  BY <1>6, <1>7 DEF OneOfEachTable, None

LEMMA NextIInv == IInv /\ [Next]_vars => IInv'
<1> SUFFICES ASSUME IInv, [Next]_vars PROVE IInv'
  OBVIOUS
<1>1. CASE Restore
  <2>1. PICK i \in Indexes : Step(i)
    BY <1>1, RestoreSteps
  <2>2. CatalogOK'
    BY <2>1, StepCatalog DEF IInv, CatalogOK, Leaf
  <2> QED  BY <2>1, <2>2, StepMadeInOrder, StepSameIndexes, StepOneOfEachTable DEF IInv
<1>2. CASE Done \/ UNCHANGED vars
  <2>1. UNCHANGED <<root, shape, constraints, foreign, todo, restored>>
    BY <1>2 DEF Done, vars
  <2>2. Indexes' = Indexes /\ Made' = Made
    BY <2>1 DEF Indexes, Made
  <2>3. CatalogOK'
    BY <2>1 DEF IInv, CatalogOK, Leaf
  <2>4. MadeInOrder'
    BY <2>1, <2>2 DEF IInv, MadeInOrder, Key, Less
  <2>5. SameIndexes' /\ OneOfEachTable'
    BY <2>1, <2>2 DEF IInv, SameIndexes, OneOfEachTable, None
  <2> QED  BY <2>3, <2>4, <2>5 DEF IInv
<1> QED  BY <1>1, <1>2 DEF Next

LEMMA InitIInv == Init => IInv
<1> SUFFICES ASSUME Init PROVE IInv
  OBVIOUS
<1>1. CatalogOK
  BY DEF Init, CatalogOK
<1>2. Made = {} /\ restored = {} /\ todo \subseteq Indexes
  BY DEF Init, Made
<1> QED  BY <1>1, <1>2 DEF IInv, MadeInOrder, SameIndexes, OneOfEachTable

THEOREM Invariance == Spec => []IInv
BY InitIInv, NextIInv, PTL DEF Spec

------------------------------------------------------------------------------
\* The properties

\* Type correctness, and an index is made exactly once.
THEOREM TypeCorrect == Spec => []TypeOK
<1>1. IInv => TypeOK
  <2> SUFFICES ASSUME IInv PROVE TypeOK
    OBVIOUS
  <2>1. \A x \in restored : x.table \in Tables \ foreign /\ x.shape \in Shapes
    BY DEF IInv, SameIndexes, Made, Indexes
  <2>2. Cardinality(restored) + Cardinality(todo) = Cardinality(Indexes)
    <3>1. todo \subseteq Indexes /\ Made = Indexes \ todo
      BY DEF IInv, MadeInOrder, Made
    <3>2. /\ IsFiniteSet(todo) /\ Cardinality(todo) \in Nat
          /\ IsFiniteSet(Indexes) /\ Cardinality(Indexes) \in Nat
      BY <3>1, IndexesFinite
    <3>3. Indexes \cap todo = todo
      BY <3>1
    <3>4. Cardinality(Indexes \ todo) = Cardinality(Indexes) - Cardinality(Indexes \cap todo)
      BY <3>2, FS_Difference
    <3>5. Cardinality(restored) = Cardinality(Indexes) - Cardinality(todo)
      BY <3>1, <3>3, <3>4, AsManyAsMade
    <3> QED  BY <3>2, <3>5
  <2> QED  BY <2>1, <2>2 DEF IInv, CatalogOK, MadeInOrder, TypeOK
<1> QED  BY <1>1, Invariance, PTL

\* Every index is on its table under its own name, and there are no others, even
\* where constraints and indexes of one shape are mixed.
THEOREM NamesAreKept == Spec => []KeepsNames
<1>1. IInv => KeepsNames
  BY DEF IInv, SameIndexes, Made, KeepsNames
<1> QED  BY <1>1, Invariance, PTL

\* The next index is attached to nothing else: of the indexes of its shape that are
\* free on a partition, those of later trees are not made yet, and those of earlier
\* trees have what they belong to.
LEMMA AttachedBelong ==
  ASSUME IInv, KeepsTrees, ~Ambiguous, NEW i \in Indexes, IsNext(i), NEW x \in Attached(i)
  PROVE  x.name = <<i[1], x.table>> /\ ParentIndex(x.name) = i
<1> DEFINE q == i[1]
           d == i[2]
           r == x.name[1]
           e == x.table
<1>1. /\ x \in restored /\ x.parent = None /\ x.shape = shape[q] /\ e \in Partitions(d)
  BY AttachedAreFree
<1>2. /\ x.name \in Made /\ x.name \in Indexes /\ x.name[2] = e /\ shape[r] = shape[q]
  BY <1>1 DEF IInv, SameIndexes, Made
<1>3. /\ q \in Trees /\ d \in Tables /\ i = <<q, d>> /\ i \in todo
      /\ r \in Trees /\ e \in Tables /\ x.name = <<r, e>> /\ ParentOf[e] = d
  BY <1>1, <1>2, KeyType DEF IsNext, Partitions
<1>4. root[q] \in Above[d] /\ root[r] \in Above[e] /\ root[q] \in Tables /\ root[r] \in Tables
  BY <1>2, <1>3 DEF Indexes, IInv, CatalogOK
<1>5. InOrder(x.name, i)
  BY <1>2, <1>3, LessInOrder DEF IInv, MadeInOrder
<1> DEFINE c(t) == IF t \in constraints THEN 0 ELSE 1
<1>6. /\ Key(x.name)[1] = c(r) /\ Key(x.name)[2] = Level[root[r]] /\ Key(x.name)[3] = r
      /\ Key(i)[1] = c(q) /\ Key(i)[2] = Level[root[q]] /\ Key(i)[3] = q
  BY <1>2, KeyType
<1>7. Level[root[r]] \in Nat /\ Level[root[q]] \in Nat /\ r \in Nat /\ q \in Nat
  <2>1. Level[root[r]] \in Nat /\ Level[root[q]] \in Nat
    BY <1>4, AboveFinite
  <2> QED  BY <1>3, <2>1 DEF Trees
<1>8. root[q] # e /\ root[q] \in Above[e]
  <2>1. Above[e] = {e} \cup Above[d] /\ Level[e] = Level[d] + 1
    BY <1>3, AbovePartition, LevelOfPartition, TreeAssumption
  <2>2. Level[root[q]] <= Level[d]
    BY <1>3, <1>4, LevelAbove
  <2>3. Level[d] \in Nat
    BY <1>3, AboveFinite
  <2>4. root[q] # e
    BY <1>7, <2>1, <2>2, <2>3
  <2> QED  BY <1>4, <2>1, <2>4
<1>9. r = q
  <2>1. CASE e = root[r]
    <3>1. Level[root[q]] < Level[root[r]]
      <4>1. Level[e] = Level[d] + 1 /\ Level[d] \in Nat
        BY <1>3, LevelOfPartition, AboveFinite, TreeAssumption
      <4>2. Level[root[q]] <= Level[d]
        BY <1>3, <1>4, LevelAbove
      <4> QED  BY <1>7, <2>1, <4>1, <4>2
    <3>2. c(r) < c(q)
      BY <1>5, <1>6, <1>7, <3>1 DEF InOrder
    <3>3. r \in constraints /\ q \in Trees \ constraints
      BY <1>3, <3>2
    <3>4. root[q] \in Above[root[r]] \ {root[r]}
      BY <1>8, <2>1
    <3> QED  BY <1>2, <3>3, <3>4 DEF Ambiguous
  <2>2. CASE e # root[r]
    <3>1. ParentIndex(x.name) = <<r, d>>
      BY <1>3, <2>2 DEF ParentIndex
    <3> DEFINE j == <<r, d>>
    <3>2. j # None
      BY DEF None
    <3>3. j \in todo /\ j \in Indexes /\ j[1] = r
      BY <1>1, <3>1, <3>2 DEF KeepsTrees, IInv, MadeInOrder
    <3> HIDE DEF j
    <3>4. CASE j = i
      BY <3>3, <3>4
    <3>5. CASE j # i
      <4>1. InOrder(i, j)
        BY <3>3, <3>5, LessInOrder DEF IsNext
      <4>2. Key(j)[1] = c(r) /\ Key(j)[2] = Level[root[r]] /\ Key(j)[3] = r
        BY <3>3, KeyType
      <4>3. c(r) \in Nat /\ c(q) \in Nat
        OBVIOUS
      <4> HIDE DEF c, q, r
      <4> QED  BY <1>5, <1>6, <1>7, <4>1, <4>2, <4>3 DEF InOrder
    <3> QED  BY <3>4, <3>5
  <2> QED  BY <2>1, <2>2
<1>10. ParentIndex(<<q, e>>) = <<q, d>>
  BY <1>3, <1>8 DEF ParentIndex
<1> QED  BY <1>3, <1>9, <1>10

\* What the next index belongs to is not made yet.
LEMMA ParentIsTodo ==
  ASSUME IInv, NEW i \in Indexes, IsNext(i), ParentIndex(i) # None
  PROVE  ParentIndex(i) \in todo \ {i}
<1>1. /\ i[1] \in Trees /\ i[2] \in Tables /\ i = <<i[1], i[2]>>
      /\ root[i[1]] \in Above[i[2]] /\ root[i[1]] # i[2]
  BY KeyType DEF Indexes, ParentIndex
<1> DEFINE j == <<i[1], ParentOf[i[2]]>>
<1>2. ParentIndex(i) = j
  BY <1>1 DEF ParentIndex
<1>3. ParentOf[i[2]] \in Tables /\ root[i[1]] \in Above[ParentOf[i[2]]]
  BY <1>1, AboveParent
<1>4. ParentOf[i[2]] \notin foreign
  BY <1>1 DEF IInv, CatalogOK, Leaf
<1>5. j \in Indexes /\ j[1] = i[1] /\ ParentOf[i[2]] = j[2]
  BY <1>1, <1>3, <1>4 DEF Indexes
<1>6. j # i
  BY <1>1, <1>5, ParentIsOther
<1> HIDE DEF j
<1>7. ~Less(Key(j), Key(i))
  BY <1>5, PartitionFirst DEF IInv, CatalogOK
<1>8. j \notin Made
  BY <1>7 DEF IInv, MadeInOrder, IsNext
<1> QED  BY <1>2, <1>5, <1>6, <1>8 DEF Made

LEMMA StepKeepsTrees ==
  ASSUME IInv, KeepsTrees, NEW i \in Indexes, Step(i)
  PROVE  KeepsTrees'
<1>1. Ambiguous' = Ambiguous
  BY StepCatalog DEF Ambiguous
<1>2. SUFFICES ASSUME ~Ambiguous
               PROVE  \A y \in restored' :
                        \/ y.parent = ParentIndex(y.name)'
                        \/ (y.parent = None /\ ParentIndex(y.name)' \in todo')
  BY <1>1 DEF KeepsTrees, None
<1>3. \A y : ParentIndex(y)' = ParentIndex(y)
  BY StepCatalog DEF ParentIndex, None
<1>4. /\ IsNext(i) /\ todo' = todo \ {i} /\ restored \subseteq Records
      /\ restored' = {Moved(i, x) : x \in restored} \cup {New(i)}
  BY DEF Step, IInv, SameIndexes, Records
<1>5. \/ New(i).parent = ParentIndex(New(i).name)
      \/ New(i).parent = None /\ ParentIndex(New(i).name) \in todo'
  BY <1>4, NewFields, ParentIsTodo
<1>6. ASSUME NEW x \in restored
      PROVE  \/ Moved(i, x).parent = ParentIndex(x.name)
             \/ Moved(i, x).parent = None /\ ParentIndex(x.name) \in todo'
  <2>1. CASE x \in Attached(i)
    BY <1>2, <1>4, <2>1, AttachedBelong, MovedFields
  <2>2. CASE x \notin Attached(i)
    <3>1. Moved(i, x).parent = x.parent
      BY <1>4, <2>2, MovedFields
    <3>2. \/ x.parent = ParentIndex(x.name)
          \/ x.parent = None /\ ParentIndex(x.name) \in todo
      BY <1>2 DEF KeepsTrees
    <3>3. ASSUME ParentIndex(x.name) = i PROVE FALSE
      <4>1. x.name \in Indexes /\ i # None
        BY NotNone DEF IInv, SameIndexes, Made
      <4>2. /\ x.name = <<x.name[1], x.name[2]>> /\ x.name[2] \in Tables \ foreign
            /\ i = <<x.name[1], ParentOf[x.name[2]]>>
        BY <3>3, <4>1, KeyType DEF ParentIndex, Indexes
      <4>3. x.name[2] \in Partitions(i[2]) /\ x.name = <<i[1], x.name[2]>>
        BY <4>2 DEF Partitions
      <4>4. PICK y \in Attached(i) : y.table = x.name[2]
        BY <1>4, <4>3, AttachedAreFree
      <4>5. y.name = x.name /\ y \in restored
        BY <1>2, <1>4, <4>3, <4>4, AttachedBelong, AttachedAreFree
      <4>6. y = x
        BY <4>5 DEF IInv, SameIndexes
      <4> QED  BY <2>2, <4>6
    <3> QED  BY <1>4, <3>1, <3>2, <3>3
  <2> QED  BY <2>1, <2>2
<1>7. \A x \in restored : Moved(i, x).name = x.name
  BY <1>4, MovedFields
<1> QED  BY <1>3, <1>4, <1>5, <1>6, <1>7

\* Unless a constraint and an index above it have one shape, no index is attached to
\* one that it did not belong to (order_tree_indexes in db/postgres/partition.rs).
THEOREM TreesAreKept == Spec => []KeepsTrees
<1>1. Init => KeepsTrees
  BY DEF Init, KeepsTrees
<1>2. IInv /\ KeepsTrees /\ [Next]_vars => KeepsTrees'
  <2> SUFFICES ASSUME IInv, KeepsTrees, [Next]_vars PROVE KeepsTrees'
    OBVIOUS
  <2>1. CASE Restore
    BY <2>1, RestoreSteps, StepKeepsTrees
  <2>2. CASE Done \/ UNCHANGED vars
    BY <2>2 DEF Done, vars, KeepsTrees, Ambiguous, ParentIndex, None
  <2> QED  BY <2>1, <2>2 DEF Next
<1> QED  BY <1>1, <1>2, Invariance, PTL DEF Spec
================================================================================
