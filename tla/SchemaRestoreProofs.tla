-------------------------- MODULE SchemaRestoreProofs --------------------------
(***************************************************************************)
(* Running the files of a PostgreSQL export, for any number of relations,  *)
(* partitions, views, schemas and items, and whatever they refer to.       *)
(***************************************************************************)
EXTENDS SchemaRestore, FiniteSetTheorems, WellFoundedInduction, TLAPS

------------------------------------------------------------------------------
\* Trees of partitions

LEMMA AboveHasParents ==
  ASSUME NEW r \in Relations
  PROVE  r \in Above[r] /\ Above[r] \subseteq Relations /\ HasParents(Above[r])
BY RelationsAssumption DEF Above, HasParents

LEMMA AboveIsLeast ==
  ASSUME NEW r \in Relations, NEW S \in SUBSET Relations, r \in S, HasParents(S)
  PROVE  Above[r] \subseteq S
BY DEF Above

LEMMA AboveTransitive ==
  ASSUME NEW r \in Relations, NEW u \in Above[r]
  PROVE  u \in Relations /\ Above[u] \subseteq Above[r]
BY AboveHasParents, AboveIsLeast

LEMMA AncestorsOfListed ==
  ASSUME NEW r \in Listed
  PROVE  r \in Relations /\ Ancestors[r] = {} /\ Above[r] = {r}
<1>1. r \in Relations /\ r \notin DOMAIN ParentOf
  BY DEF Listed
<1>2. HasParents({r})
  BY <1>1 DEF HasParents
<1>3. Above[r] \subseteq {r}
  BY <1>1, <1>2, AboveIsLeast
<1> QED  BY <1>1, <1>3, AboveHasParents DEF Ancestors

LEMMA AncestorsOfPartition ==
  ASSUME NEW p \in DOMAIN ParentOf
  PROVE  /\ p \in Relations /\ ParentOf[p] \in Relations
         /\ Ancestors[p] = Above[ParentOf[p]] /\ Above[p] = {p} \cup Ancestors[p]
<1>1. p \in Relations /\ ParentOf[p] \in Relations
  BY RelationsAssumption
<1>2. Ancestors[p] = Above[ParentOf[p]]
  BY <1>1 DEF Ancestors
<1> DEFINE S == {p} \cup Above[ParentOf[p]]
<1>3. S \subseteq Relations /\ HasParents(S)
  BY <1>1, AboveHasParents DEF HasParents
<1>4. Above[p] \subseteq S
  BY <1>1, <1>3, AboveIsLeast
<1>5. ParentOf[p] \in Above[p]
  BY <1>1, AboveHasParents DEF HasParents
<1>6. Above[ParentOf[p]] \subseteq Above[p]
  BY <1>1, <1>5, AboveTransitive
<1> QED  BY <1>1, <1>2, <1>4, <1>6, AboveHasParents

LEMMA AboveIsAncestors ==
  ASSUME NEW r \in Relations
  PROVE  Above[r] = {r} \cup Ancestors[r] /\ Ancestors[r] \subseteq Relations
<1>1. CASE r \in Listed
  BY <1>1, AncestorsOfListed
<1>2. CASE r \in DOMAIN ParentOf
  BY <1>2, AncestorsOfPartition, AboveHasParents
<1> QED  BY <1>1, <1>2 DEF Listed

LEMMA AboveFinite ==
  ASSUME NEW S \in SUBSET Relations
  PROVE  IsFiniteSet(S) /\ Cardinality(S) \in Nat
BY RelationsAssumption, FS_Subset, FS_CardinalityType

\* The parent of a partition has one table less above it.
LEMMA ParentIsHigher ==
  ASSUME NEW p \in DOMAIN ParentOf
  PROVE  /\ Cardinality(Above[p]) = Cardinality(Above[ParentOf[p]]) + 1
         /\ Cardinality(Ancestors[p]) = Cardinality(Above[ParentOf[p]])
         /\ Cardinality(Above[p]) \in Nat /\ Cardinality(Above[ParentOf[p]]) \in Nat
<1>1. /\ p \in Relations /\ ParentOf[p] \in Relations
      /\ Ancestors[p] = Above[ParentOf[p]] /\ Above[p] = {p} \cup Ancestors[p]
  BY AncestorsOfPartition
<1>2. p \notin Ancestors[p]
  BY PartitionsAssumption
<1>3. \A r \in Relations : IsFiniteSet(Above[r]) /\ Cardinality(Above[r]) \in Nat
  BY AboveHasParents, AboveFinite
<1>4. Cardinality(Ancestors[p] \cup {p}) = Cardinality(Ancestors[p]) + 1
  BY <1>1, <1>2, <1>3, FS_AddElement
<1>5. Above[p] = Ancestors[p] \cup {p}
  BY <1>1
<1> QED  BY <1>1, <1>3, <1>4, <1>5

LEMMA RootExists ==
  ASSUME NEW r \in Relations
  PROVE  \E t \in Above[r] : t \in Listed
<1> DEFINE S == {Cardinality(Above[u]) : u \in Above[r]}
           less == {ss \in Nat \X Nat : ss[1] < ss[2]}
<1>1. S \subseteq Nat /\ S # {}
  BY AboveHasParents, AboveFinite
<1>2. IsWellFoundedOn(less, Nat)
  BY NatLessThanWellFounded DEF OpToRel
<1> HIDE DEF less, S
<1>3. PICK n \in S : \A m \in S : ~(<<m, n>> \in less)
  BY <1>1, <1>2, WFMin
<1>4. PICK u \in Above[r] : Cardinality(Above[u]) = n
  BY DEF S
<1>5. u \in Relations
  BY AboveHasParents
<1>6. ASSUME u \in DOMAIN ParentOf PROVE FALSE
  <2>1. ParentOf[u] \in Above[r]
    BY <1>6, AboveHasParents DEF HasParents
  <2> DEFINE m == Cardinality(Above[ParentOf[u]])
  <2>2. m \in S
    BY <2>1 DEF S
  <2>3. m \in Nat /\ n = m + 1
    BY <1>4, <1>6, ParentIsHigher
  <2> HIDE DEF m
  <2>4. n \in Nat /\ <<m, n>>[1] < <<m, n>>[2]
    BY <2>3
  <2>5. <<m, n>> \in less
    BY <2>3, <2>4 DEF less
  <2> QED  BY <1>3, <2>2, <2>5
<1> QED  BY <1>5, <1>6 DEF Listed

\* A relation has one root, which the relations above it have too.
LEMMA RootIsOne ==
  ASSUME NEW r \in Relations
  PROVE  /\ Root(r) \in Listed /\ Root(r) \in Relations /\ Root(r) \in Above[r]
         /\ \A t \in Above[r] : t \in Listed => t = Root(r)
<1>1. Root(r) \in Listed /\ Root(r) \in Above[r]
  BY RootExists, AboveIsAncestors DEF Root
<1>2. ASSUME NEW t \in Above[r], t \in Listed PROVE t = Root(r)
  <2> DEFINE S == {u \in Relations : Root(r) \in Above[u]}
  <2>1. HasParents(S)
    <3> SUFFICES ASSUME NEW u \in S, u \in DOMAIN ParentOf PROVE ParentOf[u] \in S
      BY DEF HasParents
    <3>1. Root(r) \in {u} \cup Above[ParentOf[u]] /\ ParentOf[u] \in Relations
      BY AncestorsOfPartition
    <3>2. Root(r) # u
      BY <1>1 DEF Listed
    <3> QED  BY <3>1, <3>2
  <2>2. Above[r] \subseteq S
    BY <1>1, <2>1, AboveIsLeast
  <2>3. Root(r) \in Above[t]
    BY <2>2
  <2> QED  BY <1>2, <2>3, AncestorsOfListed
<1> QED  BY <1>1, <1>2 DEF Listed

LEMMA RootOfListed ==
  ASSUME NEW t \in Listed
  PROVE  t \in Relations /\ Root(t) = t
BY AncestorsOfListed, RootIsOne

LEMMA RootAbove ==
  ASSUME NEW r \in Relations, NEW u \in Above[r]
  PROVE  u \in Relations /\ Root(u) = Root(r)
<1>1. u \in Relations /\ Above[u] \subseteq Above[r]
  BY AboveTransitive
<1> QED  BY <1>1, RootIsOne

LEMMA RootOfPartition ==
  ASSUME NEW p \in DOMAIN ParentOf
  PROVE  /\ p \in Relations /\ p \notin Listed /\ ~IsView(p)
         /\ ParentOf[p] \in Relations /\ Root(ParentOf[p]) = Root(p)
         /\ RelKind[Root(p)] = "p" /\ ~IsView(Root(p)) /\ Root(p) # p
<1>1. /\ p \in Relations /\ ParentOf[p] \in Relations
      /\ Ancestors[p] = Above[ParentOf[p]] /\ Above[p] = {p} \cup Ancestors[p]
  BY AncestorsOfPartition
<1>2. p \notin Listed /\ ~IsView(p)
  BY RelationsAssumption DEF Listed, IsView
<1>3. Root(p) \in Ancestors[p] /\ Root(p) # p
  BY <1>1, <1>2, RootIsOne
<1>4. Root(ParentOf[p]) = Root(p)
  BY <1>1, AboveHasParents, RootAbove
<1> DEFINE S == {u \in Relations : RelKind[u] = "p"}
<1>5. HasParents(S) /\ ParentOf[p] \in S
  BY <1>1, RelationsAssumption DEF HasParents
<1>6. Ancestors[p] \subseteq S
  BY <1>1, <1>5, AboveIsLeast
<1> QED  BY <1>1, <1>2, <1>3, <1>4, <1>6 DEF IsView

LEMMA DescendantsOfRoot ==
  ASSUME NEW t \in Listed
  PROVE  Descendants(t) = {p \in DOMAIN ParentOf : Root(p) = t}
<1>1. \A p \in DOMAIN ParentOf : Root(p) = t => t \in Ancestors[p]
  BY AncestorsOfPartition, RootIsOne, RootOfPartition
<1>2. \A p \in DOMAIN ParentOf : t \in Ancestors[p] => Root(p) = t
  BY AncestorsOfPartition, RootIsOne
<1> QED  BY <1>1, <1>2 DEF Descendants

------------------------------------------------------------------------------
\* The statements of a file

Shaped(i) ==
  /\ i \in [kind : {"key", "check", "notnull", "fk", "default", "index", "option", "owned",
                    "comment"},
            on : Relations, to : Relations, valid : BOOLEAN, copy : BOOLEAN]
  /\ ~i.valid => i.kind \in {"check", "notnull", "fk"}
  /\ i.copy => i.kind = "fk"
  /\ IsView(i.on) => i.kind = "comment" \/ (i.kind = "index" /\ RelKind[i.on] = "m")
  /\ i.kind = "option" => RelKind[i.on] = "f"
  /\ i.kind = "owned" => i.on \in Listed
  /\ i.kind = "default" => i.on \in Listed /\ i.to \in Listed
  /\ i.kind \in {"default", "fk"} => ~IsView(i.to)

Make(place, r, its) == [create |-> TRUE, on |-> r, adds |-> its, place |-> place]
Alter(place, i) == [create |-> FALSE, on |-> i.on, adds |-> {i}, place |-> place]

\* The CREATE statement of a relation and its place among the statements of its root.
InCreate(i) == i.on \in Listed /\ i.kind \in {"key", "check", "notnull"} /\ i.valid
MakingPlace(r) == IF r \in Listed THEN At(r, 1) ELSE AtPartition(Root(r), r, 1)
MakingAdds(r) == {i \in db.items : i.on = r /\ InCreate(i)}

\* The place of the other statements, one for each item.
InPlace(i, k, l) == IF i.on \in Listed THEN At(i.on, k) ELSE AtPartition(Root(i.on), i.on, l)
LocalPlace(i) ==
  IF i.kind = "index" THEN IF RelKind[Root(i.on)] = "p" THEN At(Root(i.on), 5) ELSE At(i.on, 2)
  ELSE IF i.kind = "option" THEN InPlace(i, 3, 2)
  ELSE IF i.kind = "owned" THEN At(i.on, 6)
  ELSE IF i.kind = "comment" THEN InPlace(i, IF IsView(i.on) THEN 3 ELSE 7, 4)
  ELSE IF i.kind = "fk" THEN IF i.on \in Listed THEN At(i.on, 3) ELSE At(Root(i.on), 4)
  ELSE IF i.kind = "default" THEN At(i.on, 1)
  ELSE InPlace(i, 2, 3)

\* Their section: with the tables, the views, behind both or in the other file.
Crosses(i) == i.kind \in {"fk", "default"} /\ db.home[i.to] # db.home[Root(i.on)]
SectionOf(i) ==
  IF i.kind \in {"fk", "default"} THEN IF Crosses(i) THEN 4 ELSE 3
  ELSE IF i.kind \in {"check", "notnull"} /\ i.on \in Listed /\ ~i.valid THEN 3
  ELSE IF IsView(i.on) THEN 2 ELSE 1

Makings(r) == {Make(MakingPlace(u), u, MakingAdds(u)) : u \in {u \in Relations : Root(u) = r}}
Altering(r, n) ==
  {i \in db.items : /\ Root(i.on) = r /\ SectionOf(i) = n /\ ~InCreate(i)
                    /\ i.copy => i.on \in Listed}
Alterings(r, n) == {Alter(LocalPlace(i), i) : i \in Altering(r, n)}

LEMMA AltersAre ==
  ASSUME NEW place, NEW its
  PROVE  Alters(place, its) = {Alter(place, i) : i \in its}
BY DEF Alters, Alter

LEMMA CreateIs ==
  ASSUME NEW place, NEW r, NEW its
  PROVE  Create(place, r, its) = {Make(place, r, its)}
BY DEF Create, Make

\* What fetch_table_ddl returns, list by list.
LEMMA DdlOfView ==
  ASSUME NEW r, IsView(r)
  PROVE  /\ FetchTableDdl(db, r).create =
              Create(At(r, 1), r, {})
                \cup (IF RelKind[r] = "m" THEN Alters(At(r, 2), Indexes(db, r)) ELSE {})
                \cup Alters(At(r, 3), Comments(db, r))
         /\ FetchTableDdl(db, r).after = {} /\ FetchTableDdl(db, r).cross = {}
BY DEF FetchTableDdl, ViewDdl

Away(t) == {i \in Constraints(db, t) \cup DeferredDefaults(db, t) : CrossesFrom(db, db.home[t], i)}

LEMMA DdlOfTable ==
  ASSUME NEW t, ~IsView(t)
  PROVE  /\ FetchTableDdl(db, t).create =
              CreateTable(db, t)
                \cup (IF RelKind[t] = "p"
                      THEN (UNION {PartitionCreate(db, t, p) : p \in Descendants(t)})
                             \cup Alters(At(t, 5), UNION {Indexes(db, r) : r \in {t} \cup Descendants(t)})
                      ELSE Alters(At(t, 2), Indexes(db, t)))
                \cup (IF RelKind[t] = "f" THEN Alters(At(t, 3), ColumnOptions(db, t)) ELSE {})
                \cup Alters(At(t, 6), Ownership(db, t)) \cup Alters(At(t, 7), Comments(db, t))
         /\ FetchTableDdl(db, t).after =
              Alters(At(t, 1), DeferredDefaults(db, t) \ Away(t))
                \cup FkDdl(t, Constraints(db, t) \ Away(t))
                \cup (IF RelKind[t] = "p" THEN Alters(At(t, 4), {i \in PartitionFks(db, t) : ~CrossesFrom(db, db.home[t], i)}) ELSE {})
         /\ FetchTableDdl(db, t).cross =
              Alters(At(t, 1), {i \in Away(t) : i.kind = "default"}) \cup FkDdl(t, Away(t))
                \cup (IF RelKind[t] = "p" THEN Alters(At(t, 4), {i \in PartitionFks(db, t) : CrossesFrom(db, db.home[t], i)}) ELSE {})
BY DEF FetchTableDdl, BaseTableDdl, PartitionDdl, Away

AllShaped == \A i \in db.items : Shaped(i)

\* The relations of a root are itself and the partitions below.
LEMMA RelationsOfRoot ==
  ASSUME NEW t \in Listed
  PROVE  /\ {u \in Relations : Root(u) = t} = {t} \cup Descendants(t)
         /\ \A p \in Descendants(t) : /\ p \in Relations \ Listed /\ Root(p) = t /\ ~IsView(p)
                                      /\ RelKind[t] = "p" /\ ~IsView(t)
<1>1. Descendants(t) = {p \in DOMAIN ParentOf : Root(p) = t} /\ DOMAIN ParentOf \subseteq Relations
  BY DescendantsOfRoot, RelationsAssumption
<1>2. \A u \in Relations : u \in Listed \/ u \in DOMAIN ParentOf
  BY DEF Listed
<1> QED  BY <1>1, <1>2, RootOfListed, RootOfPartition

\* Alters of sets of items are the alterings of their union, if the places agree.
LEMMA AltersAtPlace ==
  ASSUME NEW place, NEW S, \A i \in S : LocalPlace(i) = place
  PROVE  Alters(place, S) = {Alter(LocalPlace(i), i) : i \in S}
BY AltersAre

LEMMA ViewStatements ==
  ASSUME AllShaped, NEW r \in Listed, IsView(r)
  PROVE  /\ FetchTableDdl(db, r).create = Makings(r) \cup Alterings(r, 2)
         /\ FetchTableDdl(db, r).after = {} /\ FetchTableDdl(db, r).cross = {}
         /\ Alterings(r, 1) = {} /\ Alterings(r, 3) = {} /\ Alterings(r, 4) = {}
<1>1. {u \in Relations : Root(u) = r} = {r} /\ r \in Relations
  BY RelationsOfRoot, RootOfListed
<1>2. \A i \in db.items : Root(i.on) = r =>
        /\ i.on = r /\ SectionOf(i) = 2 /\ ~InCreate(i) /\ ~i.copy
        /\ i.kind = "comment" \/ (i.kind = "index" /\ RelKind[r] = "m")
  BY <1>1 DEF AllShaped, Shaped, SectionOf, InCreate
<1>3. MakingAdds(r) = {} /\ MakingPlace(r) = At(r, 1)
  BY <1>1, <1>2, RootOfListed DEF MakingAdds, MakingPlace
<1>4. Makings(r) = Create(At(r, 1), r, {})
  BY <1>1, <1>3, CreateIs DEF Makings
<1> DEFINE I == IF RelKind[r] = "m" THEN Indexes(db, r) ELSE {}
           C == Comments(db, r)
<1>5. Altering(r, 2) = I \cup C /\ Altering(r, 1) = {} /\ Altering(r, 3) = {} /\ Altering(r, 4) = {}
  BY <1>2, RootOfListed DEF Altering, Indexes, Comments, Of
<1>6. (\A i \in I : LocalPlace(i) = At(r, 2)) /\ (\A i \in C : LocalPlace(i) = At(r, 3))
  <2>1. RelKind[r] # "p" /\ Root(r) = r
    BY RootOfListed DEF IsView
  <2> QED  BY <2>1 DEF Indexes, Comments, Of, LocalPlace, InPlace
<1>7. Alters(At(r, 2), {}) = {}
  BY AltersAre
<1> HIDE DEF I, C
<1>8. Alterings(r, 2) = Alters(At(r, 2), I) \cup Alters(At(r, 3), C)
  BY <1>5, <1>6, AltersAtPlace DEF Alterings
<1>9. Alters(At(r, 2), I) = IF RelKind[r] = "m" THEN Alters(At(r, 2), Indexes(db, r)) ELSE {}
  BY <1>7 DEF I
<1>10. FetchTableDdl(db, r).create = Create(At(r, 1), r, {}) \cup Alters(At(r, 2), I) \cup Alters(At(r, 3), C)
  BY <1>9, DdlOfView DEF C
<1> QED  BY <1>4, <1>5, <1>8, <1>10, DdlOfView DEF Alterings

LEMMA TableCrosses ==
  ASSUME NEW t \in Listed, NEW i \in db.items, Root(i.on) = t
  PROVE  CrossesFrom(db, db.home[t], i) <=> Crosses(i)
BY DEF CrossesFrom, Crosses

\* What comes after the tables, and what goes to the other file.
LEMMA TableAfter ==
  ASSUME AllShaped, NEW t \in Listed, ~IsView(t)
  PROVE  FetchTableDdl(db, t).after = Alterings(t, 3)
<1> DEFINE A == DeferredDefaults(db, t) \ Away(t)
           B == {i \in Constraints(db, t) \ Away(t) : i.kind \in {"check", "notnull"} /\ IsNotValid(i)}
           C == {i \in Constraints(db, t) \ Away(t) : i.kind = "fk"}
           D == IF RelKind[t] = "p"
                THEN {i \in PartitionFks(db, t) : ~CrossesFrom(db, db.home[t], i)} ELSE {}
<1>1. t \in Relations /\ Root(t) = t
  BY RootOfListed
<1>2. \A i \in db.items : i.on \in Relations /\ (Root(i.on) = t <=> i.on \in {t} \cup Descendants(t))
  BY RelationsOfRoot DEF AllShaped, Shaped
<1>3. A = {i \in db.items : i.on = t /\ i.kind = "default" /\ ~Crosses(i)}
  BY <1>1, TableCrosses DEF DeferredDefaults, Away, Constraints, Of
<1>4. B = {i \in db.items : i.on = t /\ i.kind \in {"check", "notnull"} /\ ~i.valid}
  BY <1>1 DEF Away, Constraints, Of, CrossesFrom, IsNotValid
<1>5. C = {i \in db.items : i.on = t /\ i.kind = "fk" /\ ~Crosses(i)}
  BY <1>1, TableCrosses DEF Away, Constraints, Of
<1>6. D = {i \in db.items : i.on \in Descendants(t) /\ i.kind = "fk" /\ ~i.copy /\ ~Crosses(i)}
  <2>1. PartitionFks(db, t) = {i \in db.items : i.on \in Descendants(t) /\ i.kind = "fk" /\ ~i.copy}
    BY DEF PartitionFks, OwnConstraints, Constraints, Of
  <2>2. \A i \in PartitionFks(db, t) : RelKind[t] = "p" /\ (CrossesFrom(db, db.home[t], i) <=> Crosses(i))
    BY <1>2, <2>1, RelationsOfRoot, TableCrosses
  <2> QED  BY <2>1, <2>2
<1>7. Altering(t, 3) = A \cup B \cup C \cup D
  <2>1. \A i \in db.items : i.on \in {t} \cup Descendants(t) =>
          ((SectionOf(i) = 3 /\ ~InCreate(i) /\ (i.copy => i.on \in Listed))
             <=> i \in A \cup B \cup C \cup D)
    <3> SUFFICES ASSUME NEW i \in db.items, i.on \in {t} \cup Descendants(t)
                 PROVE  (SectionOf(i) = 3 /\ ~InCreate(i) /\ (i.copy => i.on \in Listed))
                          <=> i \in A \cup B \cup C \cup D
      OBVIOUS
    <3>1. Shaped(i) /\ ~IsView(i.on) /\ t \notin Descendants(t)
      BY RelationsOfRoot DEF AllShaped
    <3>2. i.on \in Descendants(t) => i.on \notin Listed
      BY RelationsOfRoot
    <3> HIDE DEF A, B, C, D
    <3> QED  BY <1>3, <1>4, <1>5, <1>6, <3>1, <3>2 DEF SectionOf, InCreate, Shaped
  <2> HIDE DEF A, B, C, D
  <2>2. A \cup B \cup C \cup D \subseteq {i \in db.items : i.on \in {t} \cup Descendants(t)}
    BY <1>3, <1>4, <1>5, <1>6
  <2> QED  BY <1>2, <2>1, <2>2 DEF Altering
<1> HIDE DEF A, B, C, D
<1>8. /\ \A i \in A : LocalPlace(i) = At(t, 1) 
      /\ \A i \in B : LocalPlace(i) = At(t, 2)
      /\ \A i \in C : LocalPlace(i) = At(t, 3)
      /\ \A i \in D : LocalPlace(i) = At(t, 4)
  BY <1>3, <1>4, <1>5, <1>6, RelationsOfRoot DEF LocalPlace, InPlace
<1>9. Alterings(t, 3) = Alters(At(t, 1), A) \cup Alters(At(t, 2), B) \cup Alters(At(t, 3), C) \cup Alters(At(t, 4), D)
  BY <1>7, <1>8, AltersAtPlace DEF Alterings
<1>10. Alters(At(t, 4), {}) = {}
  BY AltersAre
<1>11. Alters(At(t, 4), D) = IF RelKind[t] = "p" THEN Alters(At(t, 4), {i \in PartitionFks(db, t) : ~CrossesFrom(db, db.home[t], i)}) ELSE {}
  BY <1>10 DEF D
<1>12. FkDdl(t, Constraints(db, t) \ Away(t)) = Alters(At(t, 2), B) \cup Alters(At(t, 3), C)
  BY DEF FkDdl, B, C
<1> QED  BY <1>9, <1>11, <1>12, DdlOfTable DEF A

LEMMA TableCross ==
  ASSUME AllShaped, NEW t \in Listed, ~IsView(t)
  PROVE  FetchTableDdl(db, t).cross = Alterings(t, 4)
<1> DEFINE A == {i \in Away(t) : i.kind = "default"}
           B == {i \in Away(t) : i.kind \in {"check", "notnull"} /\ IsNotValid(i)}
           C == {i \in Away(t) : i.kind = "fk"}
           D == IF RelKind[t] = "p"
                THEN {i \in PartitionFks(db, t) : CrossesFrom(db, db.home[t], i)} ELSE {}
<1>1. t \in Relations /\ Root(t) = t
  BY RootOfListed
<1>2. \A i \in db.items : i.on \in Relations /\ (Root(i.on) = t <=> i.on \in {t} \cup Descendants(t))
  BY RelationsOfRoot DEF AllShaped, Shaped
<1>3. A = {i \in db.items : i.on = t /\ i.kind = "default" /\ Crosses(i)}
  BY <1>1, TableCrosses DEF DeferredDefaults, Away, Constraints, Of
<1>4. B = {}
  BY DEF Away, CrossesFrom
<1>5. C = {i \in db.items : i.on = t /\ i.kind = "fk" /\ Crosses(i)}
  BY <1>1, TableCrosses DEF Away, Constraints, DeferredDefaults, Of
<1>6. D = {i \in db.items : i.on \in Descendants(t) /\ i.kind = "fk" /\ ~i.copy /\ Crosses(i)}
  <2>1. PartitionFks(db, t) = {i \in db.items : i.on \in Descendants(t) /\ i.kind = "fk" /\ ~i.copy}
    BY DEF PartitionFks, OwnConstraints, Constraints, Of
  <2>2. \A i \in PartitionFks(db, t) : RelKind[t] = "p" /\ (CrossesFrom(db, db.home[t], i) <=> Crosses(i))
    BY <1>2, <2>1, RelationsOfRoot, TableCrosses
  <2> QED  BY <2>1, <2>2
<1>7. Altering(t, 4) = A \cup C \cup D
  <2>1. \A i \in db.items : i.on \in {t} \cup Descendants(t) =>
          ((SectionOf(i) = 4 /\ ~InCreate(i) /\ (i.copy => i.on \in Listed))
             <=> i \in A \cup C \cup D)
    <3> SUFFICES ASSUME NEW i \in db.items, i.on \in {t} \cup Descendants(t)
                 PROVE  (SectionOf(i) = 4 /\ ~InCreate(i) /\ (i.copy => i.on \in Listed))
                          <=> i \in A \cup C \cup D
      OBVIOUS
    <3>1. Shaped(i) /\ ~IsView(i.on) /\ t \notin Descendants(t)
      BY RelationsOfRoot DEF AllShaped
    <3>2. i.on \in Descendants(t) => i.on \notin Listed
      BY RelationsOfRoot
    <3> HIDE DEF A, B, C, D
    <3> QED  BY <1>3, <1>5, <1>6, <3>1, <3>2 DEF SectionOf, InCreate, Shaped
  <2> HIDE DEF A, B, C, D
  <2>2. A \cup C \cup D \subseteq {i \in db.items : i.on \in {t} \cup Descendants(t)}
    BY <1>3, <1>5, <1>6
  <2> QED  BY <1>2, <2>1, <2>2 DEF Altering
<1> HIDE DEF A, B, C, D
<1>8. /\ \A i \in A : LocalPlace(i) = At(t, 1)
      /\ \A i \in C : LocalPlace(i) = At(t, 3)
      /\ \A i \in D : LocalPlace(i) = At(t, 4)
  BY <1>3, <1>5, <1>6, RelationsOfRoot DEF LocalPlace, InPlace
<1>9. Alterings(t, 4) = Alters(At(t, 1), A) \cup Alters(At(t, 3), C) \cup Alters(At(t, 4), D)
  BY <1>7, <1>8, AltersAtPlace DEF Alterings
<1>10. Alters(At(t, 4), {}) = {} /\ Alters(At(t, 2), B) = {}
  BY <1>4, AltersAre
<1>11. Alters(At(t, 4), D) = IF RelKind[t] = "p" THEN Alters(At(t, 4), {i \in PartitionFks(db, t) : CrossesFrom(db, db.home[t], i)}) ELSE {}
  BY <1>10 DEF D
<1>12. FkDdl(t, Away(t)) = Alters(At(t, 3), C)
  BY <1>10 DEF FkDdl, B, C
<1> QED  BY <1>9, <1>11, <1>12, DdlOfTable DEF A

\* What a table and its partitions are created with.
LEMMA PartitionStatements ==
  ASSUME AllShaped, NEW t \in Listed, NEW p \in Descendants(t)
  PROVE  PartitionCreate(db, t, p) =
           {Make(MakingPlace(p), p, MakingAdds(p))}
             \cup {Alter(LocalPlace(i), i) :
                     i \in {i \in db.items : i.on = p /\ i.kind \notin {"index", "fk"}}}
<1>1. p \in Relations \ Listed /\ Root(p) = t /\ ~IsView(p)
  BY RelationsOfRoot
<1>2. MakingPlace(p) = AtPartition(t, p, 1) /\ MakingAdds(p) = {}
  BY <1>1 DEF MakingPlace, MakingAdds, InCreate
<1> DEFINE A == ColumnOptions(db, p)
           B == {i \in OwnConstraints(db, p) : i.kind # "fk"}
           C == Comments(db, p)
<1>3. {i \in db.items : i.on = p /\ i.kind \notin {"index", "fk"}} = A \cup B \cup C
  <2>1. \A i \in db.items : i.on = p => /\ i.kind \in {"key", "check", "notnull", "fk", "index",
                                                       "option", "comment"}
                                        /\ i.copy => i.kind = "fk"
    BY <1>1 DEF AllShaped, Shaped
  <2> QED  BY <2>1 DEF ColumnOptions, OwnConstraints, Constraints, Comments, Of
<1>4. /\ \A i \in A : LocalPlace(i) = AtPartition(t, p, 2)
      /\ \A i \in B : LocalPlace(i) = AtPartition(t, p, 3)
      /\ \A i \in C : LocalPlace(i) = AtPartition(t, p, 4)
  BY <1>1 DEF ColumnOptions, OwnConstraints, Constraints, Comments, Of, LocalPlace, InPlace
<1> HIDE DEF A, B, C
<1>5. /\ Alters(AtPartition(t, p, 2), A) = {Alter(LocalPlace(i), i) : i \in A}
      /\ Alters(AtPartition(t, p, 3), B) = {Alter(LocalPlace(i), i) : i \in B}
      /\ Alters(AtPartition(t, p, 4), C) = {Alter(LocalPlace(i), i) : i \in C}
  BY <1>4, AltersAtPlace
<1>6. PartitionCreate(db, t, p) =
        Create(AtPartition(t, p, 1), p, {}) \cup Alters(AtPartition(t, p, 2), A)
          \cup Alters(AtPartition(t, p, 3), B) \cup Alters(AtPartition(t, p, 4), C)
  BY DEF PartitionCreate, A, B, C
<1> QED  BY <1>2, <1>3, <1>5, <1>6, CreateIs

LEMMA TableCreate ==
  ASSUME AllShaped, NEW t \in Listed, ~IsView(t)
  PROVE  /\ FetchTableDdl(db, t).create = Makings(t) \cup Alterings(t, 1)
         /\ Alterings(t, 2) = {}
<1>1. t \in Relations /\ Root(t) = t
  BY RootOfListed
<1>2. \A i \in db.items : i.on \in Relations /\ (Root(i.on) = t <=> i.on \in {t} \cup Descendants(t))
  BY RelationsOfRoot DEF AllShaped, Shaped
<1>3. /\ t \notin Descendants(t)
      /\ \A p \in Descendants(t) : /\ p \in Relations \ Listed /\ Root(p) = t /\ ~IsView(p)
                                   /\ RelKind[t] = "p"
  BY RelationsOfRoot
<1> DEFINE P == {i \in db.items : i.on \in Descendants(t) /\ i.kind \notin {"index", "fk"}}
           X == {i \in db.items : i.on \in {t} \cup Descendants(t) /\ i.kind = "index"}
           O == {i \in db.items : i.on = t /\ i.kind = "option"}
           W == {i \in db.items : i.on = t /\ i.kind = "owned"}
           C == {i \in db.items : i.on = t /\ i.kind = "comment"}
           x == IF RelKind[t] = "p" THEN 5 ELSE 2
<1>4. Altering(t, 1) = P \cup X \cup O \cup W \cup C /\ Altering(t, 2) = {}
  <2>1. ASSUME NEW i \in db.items, i.on \in {t} \cup Descendants(t)
        PROVE  /\ (SectionOf(i) = 1 /\ ~InCreate(i) /\ (i.copy => i.on \in Listed))
                    <=> i \in P \cup X \cup O \cup W \cup C
               /\ SectionOf(i) # 2
    <3>1. Shaped(i) /\ ~IsView(i.on)
      BY <1>3, <2>1 DEF AllShaped
    <3>2. i.on \in Descendants(t) => i.on \notin Listed
      BY <1>3
    <3> QED  BY <1>3, <2>1, <3>1, <3>2 DEF SectionOf, InCreate, Shaped
  <2>2. P \cup X \cup O \cup W \cup C \subseteq {i \in db.items : i.on \in {t} \cup Descendants(t)}
    OBVIOUS
  <2> HIDE DEF P, X, O, W, C
  <2> QED  BY <1>2, <2>1, <2>2 DEF Altering
<1>5. /\ \A i \in X : LocalPlace(i) = At(t, x)
      /\ \A i \in O : LocalPlace(i) = At(t, 3)
      /\ \A i \in W : LocalPlace(i) = At(t, 6)
      /\ \A i \in C : LocalPlace(i) = At(t, 7)
  BY <1>1, <1>2, <1>3 DEF LocalPlace, InPlace
<1>6. /\ Alters(At(t, x), X) = {Alter(LocalPlace(i), i) : i \in X}
      /\ Alters(At(t, 3), O) = {Alter(LocalPlace(i), i) : i \in O}
      /\ Alters(At(t, 6), W) = {Alter(LocalPlace(i), i) : i \in W}
      /\ Alters(At(t, 7), C) = {Alter(LocalPlace(i), i) : i \in C}
  <2> HIDE DEF X, O, W, C, x
  <2> QED  BY <1>5, AltersAtPlace
<1>7. CreateTable(db, t) = {Make(MakingPlace(t), t, MakingAdds(t))}
  <2>1. MakingPlace(t) = At(t, 1)
    BY DEF MakingPlace
  <2>2. MakingAdds(t) = {i \in Constraints(db, t) : i.kind # "fk" /\ ~IsNotValid(i)}
    BY DEF MakingAdds, InCreate, Constraints, Of, IsNotValid, AllShaped, Shaped
  <2> QED  BY <2>1, <2>2, CreateIs DEF CreateTable
<1>8. Makings(t) = {Make(MakingPlace(t), t, MakingAdds(t))}
                     \cup {Make(MakingPlace(p), p, MakingAdds(p)) : p \in Descendants(t)}
  BY RelationsOfRoot DEF Makings
<1>9. (UNION {PartitionCreate(db, t, p) : p \in Descendants(t)})
        = {Make(MakingPlace(p), p, MakingAdds(p)) : p \in Descendants(t)}
            \cup {Alter(LocalPlace(i), i) : i \in P}
  <2> DEFINE own(p) == {Alter(LocalPlace(i), i) :
                          i \in {i \in db.items : i.on = p /\ i.kind \notin {"index", "fk"}}}
  <2>1. \A p \in Descendants(t) :
          PartitionCreate(db, t, p) = {Make(MakingPlace(p), p, MakingAdds(p))} \cup own(p)
    BY PartitionStatements
  <2>2. (UNION {own(p) : p \in Descendants(t)}) = {Alter(LocalPlace(i), i) : i \in P}
    OBVIOUS
  <2> HIDE DEF own, P
  <2> QED  BY <2>1, <2>2
<1>10. /\ X = UNION {Indexes(db, r) : r \in {t} \cup Descendants(t)}
       /\ W = Ownership(db, t) /\ C = Comments(db, t) /\ ColumnOptions(db, t) = O
  BY DEF Indexes, Ownership, Comments, ColumnOptions, Of
<1>11. RelKind[t] # "p" => /\ Descendants(t) = {} /\ X = Indexes(db, t) /\ P = {}
  BY <1>3 DEF Indexes, Of
<1>12. RelKind[t] # "f" => O = {}
  BY DEF AllShaped, Shaped
<1>13. Alters(At(t, 3), {}) = {}
  BY AltersAre
<1> DEFINE PC == UNION {PartitionCreate(db, t, p) : p \in Descendants(t)}
<1>14. FetchTableDdl(db, t).create =
         CreateTable(db, t) \cup PC \cup Alters(At(t, x), X)
           \cup Alters(At(t, 3), O) \cup Alters(At(t, 6), W) \cup Alters(At(t, 7), C)
  <2>1. RelKind[t] # "p" => PC = {}
    BY <1>11
  <2>2. (IF RelKind[t] = "f" THEN Alters(At(t, 3), ColumnOptions(db, t)) ELSE {}) = Alters(At(t, 3), O)
    BY <1>10, <1>12, <1>13
  <2> HIDE DEF P, X, O, W, C
  <2>3. (IF RelKind[t] = "p"
         THEN PC \cup Alters(At(t, 5), UNION {Indexes(db, r) : r \in {t} \cup Descendants(t)})
         ELSE Alters(At(t, 2), Indexes(db, t))) = PC \cup Alters(At(t, x), X)
    BY <1>10, <1>11, <2>1
  <2> QED  BY <1>10, <2>2, <2>3, DdlOfTable
<1> HIDE DEF P, X, O, W, C, x
<1>15. Alterings(t, 1) = {Alter(LocalPlace(i), i) : i \in P}
         \cup Alters(At(t, x), X) \cup Alters(At(t, 3), O) \cup Alters(At(t, 6), W) \cup Alters(At(t, 7), C)
  BY <1>4, <1>6 DEF Alterings
<1> QED  BY <1>4, <1>7, <1>8, <1>9, <1>14, <1>15 DEF Alterings

------------------------------------------------------------------------------
\* The files: the CREATE statement of each relation, and a statement of its own for
\* each item that is in none of them

Making(r) == Make(<<IF IsView(r) THEN 2 ELSE 1, MakingPlace(r)>>, r, MakingAdds(r))
Statement(i) == IF InCreate(i) THEN Making(i.on) ELSE Alter(<<SectionOf(i), LocalPlace(i)>>, i)

Apart(s) == {i \in db.items : /\ db.home[Root(i.on)] = s /\ ~InCreate(i)
                              /\ i.copy => i.on \in Listed}

LEMMA SectionAlter ==
  ASSUME NEW n, NEW place, NEW i, NEW r, NEW its
  PROVE  /\ InSection(n, Alter(place, i)) = Alter(<<n, place>>, i)
         /\ InSection(n, Make(place, r, its)) = Make(<<n, place>>, r, its)
BY DEF InSection, Alter, Make

LEMMA SectionAlterings ==
  ASSUME NEW r, NEW n
  PROVE  Section(n, Alterings(r, n)) = {Statement(i) : i \in Altering(r, n)}
<1>1. \A i \in Altering(r, n) :
        InSection(n, Alter(LocalPlace(i), i)) = Statement(i)
  <2> TAKE i \in Altering(r, n)
  <2>1. Statement(i) = Alter(<<n, LocalPlace(i)>>, i)
    BY DEF Altering, Statement
  <2> QED  BY <2>1, SectionAlter
<1> QED  BY <1>1 DEF Section, Alterings

LEMMA SectionMakings ==
  ASSUME NEW r \in Listed
  PROVE  Section(IF IsView(r) THEN 2 ELSE 1, Makings(r))
           = {Making(u) : u \in {u \in Relations : Root(u) = r}}
<1>1. \A u \in Relations : Root(u) = r => (IsView(u) <=> IsView(r))
  <2>1. {u \in Relations : Root(u) = r} = {r} \cup Descendants(r)
    BY RelationsOfRoot
  <2> QED  BY <2>1, RelationsOfRoot
<1>2. \A u \in {u \in Relations : Root(u) = r} :
        InSection(IF IsView(r) THEN 2 ELSE 1, Make(MakingPlace(u), u, MakingAdds(u)))
          = Making(u)
  <2> TAKE u \in {u \in Relations : Root(u) = r}
  <2> DEFINE n == IF IsView(r) THEN 2 ELSE 1
  <2>1. Making(u) = Make(<<n, MakingPlace(u)>>, u, MakingAdds(u))
    BY <1>1 DEF Making
  <2> HIDE DEF n
  <2>2. InSection(n, Make(MakingPlace(u), u, MakingAdds(u))) = Making(u)
    BY <2>1, SectionAlter
  <2> QED  BY <2>2 DEF n
<1> QED  BY <1>2 DEF Section, Makings

LEMMA SectionOfTwo ==
  ASSUME NEW n, NEW S, NEW T
  PROVE  Section(n, S \cup T) = Section(n, S) \cup Section(n, T)
BY DEF Section

LEMMA SectionOfMany ==
  ASSUME NEW n, NEW S
  PROVE  Section(n, UNION S) = UNION {Section(n, T) : T \in S}
BY DEF Section

\* Where the items of a root are.
LEMMA SectionsOfRoot ==
  ASSUME AllShaped, NEW r \in Listed
  PROVE  /\ \A n \in {1, 2, 3, 4} : Altering(r, n) \subseteq db.items
         /\ \A i \in db.items : Root(i.on) = r =>
              /\ SectionOf(i) \in {1, 2, 3, 4}
              /\ SectionOf(i) \in {1, 3, 4} => ~IsView(r)
              /\ SectionOf(i) = 2 => IsView(r)
<1>1. \A i \in db.items : Root(i.on) = r =>
        /\ i.on \in {r} \cup Descendants(r)
        /\ IsView(i.on) <=> IsView(r)
  BY RelationsOfRoot DEF AllShaped, Shaped
<1>2. \A i \in db.items : Root(i.on) = r =>
        /\ SectionOf(i) \in {1, 2, 3, 4}
        /\ SectionOf(i) \in {1, 3, 4} => ~IsView(r)
        /\ SectionOf(i) = 2 => IsView(r)
  <2> TAKE i \in db.items
  <2> HAVE Root(i.on) = r
  <2> QED  BY <1>1 DEF SectionOf, AllShaped, Shaped
<1> QED  BY <1>2 DEF Altering

LEMMA SchemaFileIs ==
  ASSUME AllShaped, NEW s
  PROVE  SchemaFile(s) = {Making(r) : r \in {r \in Relations : db.home[Root(r)] = s}}
                           \cup {Statement(i) : i \in {i \in Apart(s) : SectionOf(i) # 4}}
<1> DEFINE here == {r \in Listed : db.home[r] = s}
           views == {r \in here : IsView(r)}
           making(r) == {Making(u) : u \in {u \in Relations : Root(u) = r}}
           stated(r, n) == {Statement(i) : i \in Altering(r, n)}
<1>1. \A r \in here \ views :
        /\ Section(1, FetchTableDdl(db, r).create) = making(r) \cup stated(r, 1)
        /\ Section(3, FetchTableDdl(db, r).after) = stated(r, 3)
        /\ stated(r, 2) = {}
  <2> TAKE r \in here \ views
  <2>1. r \in Listed /\ ~IsView(r)
    OBVIOUS
  <2>2. FetchTableDdl(db, r).create = Makings(r) \cup Alterings(r, 1)
    BY <2>1, TableCreate
  <2>3. Section(1, Makings(r)) = making(r)
    BY <2>1, SectionMakings
  <2>4. Section(1, Alterings(r, 1)) = stated(r, 1) /\ Section(3, Alterings(r, 3)) = stated(r, 3)
    BY SectionAlterings
  <2>5. FetchTableDdl(db, r).after = Alterings(r, 3)
    BY <2>1, TableAfter
  <2>6. stated(r, 2) = {}
    BY <2>1, SectionsOfRoot DEF Altering
  <2>7. Section(1, Makings(r) \cup Alterings(r, 1))
          = Section(1, Makings(r)) \cup Section(1, Alterings(r, 1))
    BY SectionOfTwo
  <2> HIDE DEF making, stated
  <2> QED  BY <2>2, <2>3, <2>4, <2>5, <2>6, <2>7
<1>2. \A r \in views :
        /\ Section(2, FetchTableDdl(db, r).create) = making(r) \cup stated(r, 2)
        /\ Section(3, FetchTableDdl(db, r).after) = stated(r, 3)
        /\ stated(r, 1) = {}
  <2> TAKE r \in views
  <2>1. r \in Listed /\ IsView(r)
    OBVIOUS
  <2>2. FetchTableDdl(db, r).create = Makings(r) \cup Alterings(r, 2) /\ FetchTableDdl(db, r).after = {}
    BY <2>1, ViewStatements
  <2>3. Section(2, Makings(r)) = making(r)
    BY <2>1, SectionMakings
  <2>4. Section(2, Alterings(r, 2)) = stated(r, 2)
    BY SectionAlterings
  <2>5. Section(3, {}) = {}
    BY DEF Section
  <2>6. stated(r, 1) = {} /\ stated(r, 3) = {}
    BY <2>1, SectionsOfRoot DEF Altering
  <2>7. Section(2, Makings(r) \cup Alterings(r, 2))
          = Section(2, Makings(r)) \cup Section(2, Alterings(r, 2))
    BY SectionOfTwo
  <2> HIDE DEF making, stated
  <2> QED  BY <2>2, <2>3, <2>4, <2>5, <2>6, <2>7
<1> DEFINE tables == {FetchTableDdl(db, r).create : r \in here \ views}
           viewing == {FetchTableDdl(db, r).create : r \in views}
           last == {FetchTableDdl(db, r).after : r \in here}
<1>3. SchemaFile(s) = Section(1, UNION tables) \cup Section(2, UNION viewing)
                        \cup Section(3, UNION last)
  BY DEF SchemaFile
<1> DEFINE A == {Section(1, T) : T \in tables}
           B == {Section(2, T) : T \in viewing}
           C == {Section(3, T) : T \in last}
<1>4. SchemaFile(s) = (UNION A) \cup (UNION B) \cup (UNION C)
  <2> HIDE DEF tables, viewing, last
  <2>1. Section(1, UNION tables) = UNION A
    BY SectionOfMany
  <2>2. Section(2, UNION viewing) = UNION B
    BY SectionOfMany
  <2>3. Section(3, UNION last) = UNION C
    BY SectionOfMany
  <2> HIDE DEF A, B, C
  <2> QED  BY <1>3, <2>1, <2>2, <2>3
<1>5. views \subseteq here
  OBVIOUS
<1>6. SchemaFile(s) = (UNION {making(r) : r \in here})
        \cup (UNION {stated(r, 1) \cup stated(r, 2) \cup stated(r, 3) : r \in here})
  <2> HIDE DEF here, views, making, stated
  <2>1. UNION A = UNION {making(r) \cup stated(r, 1) : r \in here \ views}
    BY <1>1
  <2>2. UNION B = UNION {making(r) \cup stated(r, 2) : r \in views}
    BY <1>2
  <2>3. UNION C = UNION {stated(r, 3) : r \in here}
    BY <1>1, <1>2, <1>5
  <2> HIDE DEF A, B, C
  <2> QED  BY <1>1, <1>2, <1>4, <1>5, <2>1, <2>2, <2>3
<1>7. (UNION {making(r) : r \in here}) = {Making(r) : r \in {r \in Relations : db.home[Root(r)] = s}}
  BY RootIsOne
<1>8. (UNION {stated(r, 1) \cup stated(r, 2) \cup stated(r, 3) : r \in here})
        = {Statement(i) : i \in {i \in Apart(s) : SectionOf(i) # 4}}
  <2>1. \A i \in db.items : Root(i.on) \in Listed /\ SectionOf(i) \in {1, 2, 3, 4}
    BY RootIsOne, SectionsOfRoot DEF AllShaped, Shaped
  <2>2. \A i : (\E r \in here : i \in Altering(r, 1) \cup Altering(r, 2) \cup Altering(r, 3))
                 <=> i \in Apart(s) /\ SectionOf(i) # 4
    BY <2>1 DEF Altering, Apart
  <2> HIDE DEF here
  <2> QED  BY <2>2
<1> QED  BY <1>6, <1>7, <1>8

LEMMA CrossFileIs ==
  ASSUME AllShaped, NEW s
  PROVE  CrossSchemaFile(s) = {Statement(i) : i \in {i \in Apart(s) : SectionOf(i) = 4}}
<1> DEFINE here == {r \in Listed : db.home[r] = s}
           stated(r) == {Statement(i) : i \in Altering(r, 4)}
<1>1. \A r \in here : Section(4, FetchTableDdl(db, r).cross) = stated(r)
  <2> TAKE r \in here
  <2>1. CASE IsView(r)
    <3>1. FetchTableDdl(db, r).cross = {}
      BY <2>1, ViewStatements
    <3>2. stated(r) = {}
      BY <2>1, SectionsOfRoot DEF Altering
    <3>3. Section(4, {}) = {}
      BY DEF Section
    <3> QED  BY <3>1, <3>2, <3>3
  <2>2. CASE ~IsView(r)
    <3>1. FetchTableDdl(db, r).cross = Alterings(r, 4)
      BY <2>2, TableCross
    <3> QED  BY <3>1, SectionAlterings
  <2> QED  BY <2>1, <2>2
<1> DEFINE crossing == {FetchTableDdl(db, r).cross : r \in here}
<1>2. CrossSchemaFile(s) = UNION {Section(4, T) : T \in crossing}
  <2>1. CrossSchemaFile(s) = Section(4, UNION crossing)
    BY DEF CrossSchemaFile
  <2> HIDE DEF crossing
  <2> QED  BY <2>1, SectionOfMany
<1>3. CrossSchemaFile(s) = UNION {stated(r) : r \in here}
  <2> HIDE DEF here, stated
  <2> QED  BY <1>1, <1>2
<1>4. \A i : (\E r \in here : i \in Altering(r, 4)) <=> i \in Apart(s) /\ SectionOf(i) = 4
  BY RootIsOne DEF Altering, Apart, AllShaped, Shaped
<1> HIDE DEF here
<1> QED  BY <1>3, <1>4

------------------------------------------------------------------------------
\* The items of a source database

LEMMA InWithCopies ==
  ASSUME NEW set, NEW i
  PROVE  i \in WithCopies(set) <=>
           \/ i \in set
           \/ \E f \in set : /\ f.kind = "fk" /\ RelKind[f.to] = "p"
                             /\ \E p \in Descendants(f.to) : i = Copy(f, p)
BY DEF WithCopies, Copies

LEMMA SourceIs ==
  ASSUME NEW set \in SourceItems
  PROVE  /\ \E B \in SUBSET (Base \cup Candidates) : set = WithCopies(B)
         /\ \A i, j \in set : Same(i, j) => i = j
         /\ \A i \in set : i.kind = "fk" => HasKey(i.to, set)
<1>1. PICK choice \in [1..MaxItems -> Candidates \cup Base] :
        set = WithCopies(Base \cup {choice[k] : k \in 1..MaxItems})
  BY DEF SourceItems
<1>2. Base \cup {choice[k] : k \in 1..MaxItems} \in SUBSET (Base \cup Candidates)
  OBVIOUS
<1>3. /\ \A i, j \in set : Same(i, j) => i = j
      /\ \A i \in set : i.kind = "fk" => HasKey(i.to, set)
  BY DEF SourceItems
<1> QED  BY <1>1, <1>2, <1>3

LEMMA PossibleShaped ==
  ASSUME NEW i \in Base \cup Candidates
  PROVE  Shaped(i) /\ ~i.copy
<1>1. Possible(i)
  BY SourceAssumption
<1> QED  BY <1>1 DEF Possible, Shaped

LEMMA CopyIs ==
  ASSUME NEW f, Shaped(f), f.kind = "fk", NEW p \in DOMAIN ParentOf
  PROVE  LET i == Copy(f, p)
         IN  /\ i.kind = "fk" /\ i.on = f.on /\ i.to = p /\ i.valid = f.valid /\ i.copy = TRUE
             /\ Shaped(i)
<1> DEFINE i == Copy(f, p)
<1>1. f \in [kind : {"key", "check", "notnull", "fk", "default", "index", "option", "owned",
                     "comment"},
             on : Relations, to : Relations, valid : BOOLEAN, copy : BOOLEAN]
  BY DEF Shaped
<1>2. p \in Relations /\ ~IsView(p)
  BY RootOfPartition
<1>3. i.kind = "fk" /\ i.on = f.on /\ i.to = p /\ i.valid = f.valid /\ i.copy = TRUE
  BY <1>1 DEF Copy
<1>4. i \in [kind : {"key", "check", "notnull", "fk", "default", "index", "option", "owned",
                     "comment"},
             on : Relations, to : Relations, valid : BOOLEAN, copy : BOOLEAN]
  BY <1>1, <1>2 DEF Copy
<1> HIDE DEF i
<1>5. Shaped(i)
  BY <1>2, <1>3, <1>4 DEF Shaped
<1> QED  BY <1>3, <1>5 DEF i

\* The items of a database, and what its foreign keys to partitioned tables bring.
DbOK == db.items \in SourceItems /\ db.home \in Homes

LEMMA ItemsShaped ==
  ASSUME DbOK
  PROVE  AllShaped /\ db.items \subseteq AllItems /\ db.home \in [Relations -> Schemas]
<1>1. PICK B \in SUBSET (Base \cup Candidates) : db.items = WithCopies(B)
  BY SourceIs DEF DbOK
<1>2. \A i \in WithCopies(B) : i \in AllItems
  BY InWithCopies DEF AllItems
<1>3. \A i \in WithCopies(B) : Shaped(i)
  <2> TAKE i \in WithCopies(B)
  <2>1. CASE i \in B
    BY <2>1, PossibleShaped
  <2>2. CASE i \notin B
    <3>1. PICK f \in B : /\ f.kind = "fk"
                         /\ \E p \in Descendants(f.to) : i = Copy(f, p)
      BY <2>2, InWithCopies
    <3>2. PICK p \in Descendants(f.to) : i = Copy(f, p)
      BY <3>1
    <3> QED  BY <3>1, <3>2, PossibleShaped, CopyIs DEF Descendants
  <2> QED  BY <2>1, <2>2
<1>4. db.home \in [Relations -> Schemas]
  BY SourceAssumption DEF DbOK
<1> QED  BY <1>1, <1>2, <1>3, <1>4 DEF AllShaped

LEMMA SupportedCopies ==
  ASSUME DbOK, Supported
  PROVE  /\ \A i \in db.items : ~i.copy
         /\ \A set \in SUBSET db.items : WithCopies(set) = set
<1>1. PICK B \in SUBSET (Base \cup Candidates) : db.items = WithCopies(B)
  BY SourceIs DEF DbOK
<1>2. \A i \in db.items : i.kind = "fk" => RelKind[i.to] # "p"
  BY DEF Supported
<1>3. \A set \in SUBSET db.items : WithCopies(set) = set
  <2> TAKE set \in SUBSET db.items
  <2>1. \A i : i \in WithCopies(set) <=> i \in set
    BY <1>2, InWithCopies
  <2> QED  BY <2>1
<1>4. B \subseteq db.items
  BY <1>1, InWithCopies
<1>5. db.items = B
  BY <1>1, <1>3, <1>4
<1> QED  BY <1>3, <1>5, PossibleShaped

LEMMA CopiesOfItems ==
  ASSUME NEW set \in SUBSET AllItems
  PROVE  WithCopies(set) \subseteq AllItems
<1> DEFINE BC == Base \cup Candidates
<1>0. AllItems = WithCopies(BC)
  BY DEF AllItems
<1> HIDE DEF BC
<1> SUFFICES ASSUME NEW i \in WithCopies(set), i \notin set PROVE i \in AllItems
  OBVIOUS
<1>1. PICK f \in set : /\ f.kind = "fk" /\ RelKind[f.to] = "p"
                       /\ \E p \in Descendants(f.to) : i = Copy(f, p)
  BY InWithCopies
<1>2. PICK p \in Descendants(f.to) : i = Copy(f, p)
  BY <1>1
<1>3. CASE f \in BC
  BY <1>0, <1>1, <1>2, <1>3, InWithCopies
<1>4. CASE f \notin BC
  <2>1. PICK g \in BC : /\ g.kind = "fk" /\ RelKind[g.to] = "p"
                        /\ \E q \in Descendants(g.to) : f = Copy(g, q)
    BY <1>0, <1>4, InWithCopies
  <2>2. PICK q \in Descendants(g.to) : f = Copy(g, q)
    BY <2>1
  <2>3. Shaped(g) /\ q \in DOMAIN ParentOf /\ p \in DOMAIN ParentOf
    BY <2>1, PossibleShaped DEF Descendants, BC
  <2>4. f.to = q
    BY <2>1, <2>2, <2>3, CopyIs
  <2>5. p \in Descendants(g.to)
    <3>1. g.to \in Ancestors[q] /\ q \in Ancestors[p]
      BY <2>4 DEF Descendants
    <3>2. Ancestors[q] \subseteq Ancestors[p]
      BY <2>3, <3>1, AncestorsOfPartition, AboveTransitive
    <3> QED  BY <2>3, <3>1, <3>2 DEF Descendants
  <2>6. i = Copy(g, p)
    BY <1>2, <2>2, <2>3 DEF Shaped, Copy
  <2> QED  BY <1>0, <2>1, <2>5, <2>6, InWithCopies
<1> QED  BY <1>3, <1>4

------------------------------------------------------------------------------
\* What is in the files

LEMMA MakingHas ==
  ASSUME NEW r
  PROVE  /\ Making(r).create = TRUE /\ Making(r).on = r /\ Making(r).adds = MakingAdds(r)
         /\ Making(r).place[1] = IF IsView(r) THEN 2 ELSE 1
         /\ Making(r).place[2] = MakingPlace(r)
BY DEF Making, Make

LEMMA StatementHas ==
  ASSUME NEW i, ~InCreate(i)
  PROVE  /\ Statement(i).create = FALSE /\ Statement(i).on = i.on /\ Statement(i).adds = {i}
         /\ Statement(i).place[1] = SectionOf(i) /\ Statement(i).place[2] = LocalPlace(i)
BY DEF Statement, Alter

LEMMA StatementInCreate ==
  ASSUME NEW i \in db.items, InCreate(i)
  PROVE  Statement(i) = Making(i.on) /\ i \in MakingAdds(i.on) /\ ~Crosses(i)
BY DEF Statement, MakingAdds, Crosses, InCreate

LEMMA SectionIs ==
  ASSUME AllShaped, NEW i \in db.items
  PROVE  /\ i.on \in Relations
         /\ SectionOf(i) = 4 <=> Crosses(i)
         /\ SectionOf(i) \in {1, 2, 3, 4}
         /\ SectionOf(i) \in {1, 2} => SectionOf(i) = IF IsView(i.on) THEN 2 ELSE 1
BY DEF SectionOf, Crosses, AllShaped, Shaped

\* A statement of a schema file makes a relation or adds one item.
LEMMA SchemaFileHas ==
  ASSUME AllShaped, NEW s, NEW x \in SchemaFile(s)
  PROVE  /\ x.on \in Relations /\ db.home[Root(x.on)] = s
         /\ x.place[1] \in {1, 2, 3}
         /\ x.create \in BOOLEAN
         /\ x.create => x = Making(x.on)
         /\ ~x.create => \E i \in db.items : ~InCreate(i) /\ ~Crosses(i) /\ x = Statement(i)
<1>1. CASE \E r \in Relations : db.home[Root(r)] = s /\ x = Making(r)
  <2>1. PICK r \in Relations : db.home[Root(r)] = s /\ x = Making(r)
    BY <1>1
  <2>2. x.create = TRUE /\ x.on = r /\ x.place[1] \in {1, 2}
    BY <2>1, MakingHas
  <2> QED  BY <2>1, <2>2
<1>2. CASE \E i \in Apart(s) : SectionOf(i) # 4 /\ x = Statement(i)
  <2>1. PICK i \in Apart(s) : SectionOf(i) # 4 /\ x = Statement(i)
    BY <1>2
  <2>2. i \in db.items /\ ~InCreate(i) /\ db.home[Root(i.on)] = s
    BY DEF Apart
  <2> QED  BY <2>1, <2>2, StatementHas, SectionIs
<1> QED  BY <1>1, <1>2, SchemaFileIs

LEMMA CrossFileHas ==
  ASSUME AllShaped, NEW s, NEW x \in CrossSchemaFile(s)
  PROVE  /\ x.on \in Relations /\ db.home[Root(x.on)] = s
         /\ x.place[1] = 4 /\ x.create = FALSE
         /\ \E i \in db.items : ~InCreate(i) /\ Crosses(i) /\ x = Statement(i)
<1>1. PICK i \in Apart(s) : SectionOf(i) = 4 /\ x = Statement(i)
  BY CrossFileIs
<1>2. i \in db.items /\ ~InCreate(i) /\ db.home[Root(i.on)] = s
  BY DEF Apart
<1> QED  BY <1>1, <1>2, StatementHas, SectionIs

\* Every relation is made in the file of its root, and every item but the copies of
\* partitions has its statement there or in the cross-schema file.
LEMMA WhereMade ==
  ASSUME AllShaped, NEW r \in Relations
  PROVE  Making(r) \in SchemaFile(db.home[Root(r)])
BY SchemaFileIs

LEMMA WhereStated ==
  ASSUME AllShaped, NEW i \in db.items, i.copy => i.on \in Listed
  PROVE  /\ Crosses(i) => Statement(i) \in CrossSchemaFile(db.home[Root(i.on)])
         /\ ~Crosses(i) => Statement(i) \in SchemaFile(db.home[Root(i.on)])
<1>1. CASE InCreate(i)
  BY <1>1, StatementInCreate, WhereMade, SectionIs
<1>2. CASE ~InCreate(i)
  <2>1. i \in Apart(db.home[Root(i.on)])
    BY <1>2 DEF Apart
  <2> QED  BY <2>1, SectionIs, SchemaFileIs, CrossFileIs
<1> QED  BY <1>1, <1>2

\* A statement that adds one item is of that item only.
LEMMA StatementOfOne ==
  ASSUME NEW i \in db.items, NEW j \in db.items, ~InCreate(i), Statement(j) = Statement(i)
  PROVE  i = j
<1>1. Statement(i).create = FALSE
  BY StatementHas
<1>2. InCreate(j) => Statement(j).create = TRUE
  BY StatementInCreate, MakingHas
<1>3. ~InCreate(j)
  BY <1>1, <1>2
<1>4. Statement(i).adds = {i} /\ Statement(j).adds = {j}
  BY <1>3, StatementHas
<1> QED  BY <1>4

------------------------------------------------------------------------------
\* The invariant: what is not yet there is what is still to be run

Pending ==
  script \cup (UNION {SchemaFile(s) : s \in toRun})
    \cup (UNION {CrossSchemaFile(s) : s \in toRunCross})

Running ==
  \/ script = {}
  \/ \E s \in Schemas \ toRun : toRunCross = Schemas /\ script \subseteq SchemaFile(s)
  \/ \E s \in Schemas \ toRunCross : toRun = {} /\ script \subseteq CrossSchemaFile(s)

Typing ==
  /\ DbOK
  /\ preset \in {{}, Schemas} /\ schemas \in SUBSET Schemas
  /\ toRun \in SUBSET Schemas /\ toRunCross \in SUBSET Schemas
  /\ relations \in SUBSET Relations /\ items \in SUBSET Restorable
  /\ failed \in BOOLEAN
  /\ toRun # {} => toRunCross = Schemas
  /\ Running

Progress ==
  /\ ~failed
  /\ schemas = preset \cup (Schemas \ toRun)
  /\ relations = {r \in Relations : Making(r) \notin Pending}
  /\ items = {i \in db.items : Statement(i) \notin Pending}

IInv == Typing /\ (Supported => Progress)

IsWritten(x) == (\E s : x \in SchemaFile(s)) \/ (\E s : x \in CrossSchemaFile(s))

LEMMA PendingIsWritten ==
  ASSUME Typing
  PROVE  AllShaped /\ \A x \in Pending : IsWritten(x)
<1>1. AllShaped
  BY ItemsShaped DEF Typing
<1> QED  BY <1>1 DEF Typing, Running, Pending, IsWritten

LEMMA StatementsAre ==
  ASSUME AllShaped, NEW x, IsWritten(x)
  PROVE  /\ x.on \in Relations /\ x.create \in BOOLEAN
         /\ x.create => x = Making(x.on) /\ x.place[1] \in {1, 2, 3}
         /\ ~x.create => \E i \in db.items : /\ ~InCreate(i) /\ x = Statement(i)
                                             /\ Crosses(i) <=> x.place[1] = 4
<1>1. CASE \E s : x \in SchemaFile(s)
  BY <1>1, SchemaFileHas
<1>2. CASE \E s : x \in CrossSchemaFile(s)
  BY <1>2, CrossFileHas
<1> QED  BY <1>1, <1>2 DEF IsWritten

------------------------------------------------------------------------------
\* The order of the statements

LEMMA SectionFirst ==
  ASSUME NEW a, NEW b, a[1] < b[1]
  PROVE  Before(a, b)
BY DEF Before

LEMMA PlaceFirst ==
  ASSUME NEW a, NEW b, a[1] = b[1], NEW k \in 1..5, a[2][k] < b[2][k],
         \A j \in 1..(k - 1) : a[2][j] = b[2][j]
  PROVE  Before(a, b)
BY DEF Before

LEMMA AtFirst ==
  ASSUME NEW a, NEW b, a[1] = b[1], NEW t, NEW j \in Nat, NEW k \in Nat, j < k,
         a[2] = At(t, j), b[2] = At(t, k)
  PROVE  Before(a, b)
<1>1. a[2][1] = b[2][1] /\ a[2][2] < b[2][2]
  BY DEF At
<1>2. \A m \in 1..(2 - 1) : a[2][m] = b[2][m]
  BY <1>1
<1> QED  BY <1>1, <1>2, PlaceFirst

LEMMA TableFirst ==
  ASSUME NEW a, NEW b, a[1] = b[1], NEW t, NEW p, NEW k,
         a[2] = At(t, 1), b[2] = AtPartition(t, p, k)
  PROVE  Before(a, b)
<1>1. a[2][1] = b[2][1] /\ a[2][2] < b[2][2]
  BY DEF At, AtPartition
<1>2. \A m \in 1..(2 - 1) : a[2][m] = b[2][m]
  BY <1>1
<1> QED  BY <1>1, <1>2, PlaceFirst

LEMMA PartitionsFirst ==
  ASSUME NEW a, NEW b, a[1] = b[1], NEW t, NEW p, NEW k,
         a[2] = AtPartition(t, p, k), b[2] = At(t, 5)
  PROVE  Before(a, b)
<1>1. a[2][1] = b[2][1] /\ a[2][2] < b[2][2]
  BY DEF At, AtPartition
<1>2. \A m \in 1..(2 - 1) : a[2][m] = b[2][m]
  BY <1>1
<1> QED  BY <1>1, <1>2, PlaceFirst

LEMMA PartitionFirst ==
  ASSUME NEW a, NEW b, a[1] = b[1], NEW t, NEW p, NEW j \in Nat, NEW k \in Nat, j < k,
         a[2] = AtPartition(t, p, j), b[2] = AtPartition(t, p, k)
  PROVE  Before(a, b)
<1>1. /\ a[2][1] = b[2][1] /\ a[2][2] = b[2][2] /\ a[2][3] = b[2][3] /\ a[2][4] = b[2][4]
      /\ a[2][5] < b[2][5]
  BY DEF AtPartition
<1>2. \A m \in 1..(5 - 1) : a[2][m] = b[2][m]
  <2> TAKE m \in 1..(5 - 1)
  <2>1. m = 1 \/ m = 2 \/ m = 3 \/ m = 4
    OBVIOUS
  <2> QED  BY <1>1, <2>1
<1> QED  BY <1>1, <1>2, PlaceFirst

LEMMA LevelFirst ==
  ASSUME NEW a, NEW b, a[1] = b[1], NEW t, NEW p, NEW q, NEW j, NEW k,
         Cardinality(Ancestors[p]) < Cardinality(Ancestors[q]),
         a[2] = AtPartition(t, p, j), b[2] = AtPartition(t, q, k)
  PROVE  Before(a, b)
<1>1. a[2][1] = b[2][1] /\ a[2][2] = b[2][2] /\ a[2][3] < b[2][3]
  BY DEF AtPartition
<1>2. \A m \in 1..(3 - 1) : a[2][m] = b[2][m]
  <2> TAKE m \in 1..(3 - 1)
  <2>1. m = 1 \/ m = 2
    OBVIOUS
  <2> QED  BY <1>1, <2>1
<1> QED  BY <1>1, <1>2, PlaceFirst

\* A parent is made before its partitions.
LEMMA ParentFirst ==
  ASSUME NEW p \in DOMAIN ParentOf
  PROVE  Before(Making(ParentOf[p]).place, Making(p).place)
<1> DEFINE u == ParentOf[p]
<1>1. /\ p \notin Listed /\ ~IsView(p) /\ u \in Relations /\ Root(u) = Root(p)
  BY RootOfPartition
<1>2. ~IsView(u)
  BY RelationsAssumption DEF IsView
<1> HIDE DEF u
<1>3. Making(u).place[1] = 1 /\ Making(p).place[1] = 1
  BY <1>1, <1>2, MakingHas
<1>4. Making(p).place[2] = AtPartition(Root(p), p, 1)
  BY <1>1, MakingHas DEF MakingPlace
<1>5. CASE u \in Listed
  <2>1. Making(u).place[2] = At(Root(p), 1)
    <3>1. u = Root(p)
      BY <1>1, <1>5, RootOfListed
    <3>2. MakingPlace(u) = At(u, 1)
      BY <1>5 DEF MakingPlace
    <3>3. Making(u).place[2] = MakingPlace(u)
      BY MakingHas
    <3> QED  BY <3>1, <3>2, <3>3
  <2> QED  BY <1>3, <1>4, <2>1, TableFirst DEF u
<1>6. CASE u \notin Listed
  <2>1. Making(u).place[2] = AtPartition(Root(p), u, 1)
    BY <1>1, <1>6, MakingHas DEF MakingPlace
  <2>2. u \in DOMAIN ParentOf
    BY <1>1, <1>6 DEF Listed
  <2>3. Cardinality(Ancestors[u]) < Cardinality(Ancestors[p])
    BY <2>2, ParentIsHigher DEF u
  <2> QED  BY <1>3, <1>4, <2>1, <2>3, LevelFirst DEF u
<1> QED  BY <1>5, <1>6

\* A relation that a view reads is made before it.
LEMMA ReadFirst ==
  ASSUME NEW v \in DOMAIN Reads, NEW r \in Reads[v]
  PROVE  Before(Making(r).place, Making(v).place)
<1>1. v \in Relations /\ IsView(v) /\ r \in Relations
  BY SourceAssumption
<1>2. Making(v).place[1] = 2
  <2>1. Making(v).place[1] = IF IsView(v) THEN 2 ELSE 1
    BY MakingHas
  <2> QED  BY <1>1, <2>1
<1>3. CASE ~IsView(r)
  <2>1. Making(r).place[1] = 1
    BY <1>3, MakingHas
  <2> QED  BY <1>2, <2>1, SectionFirst
<1>4. CASE IsView(r)
  <2>1. r < v /\ Making(r).place[1] = 2
    BY <1>4, MakingHas, SourceAssumption
  <2>2. r \in Listed /\ v \in Listed
    BY <1>1, <1>4, RelationsAssumption DEF Listed, IsView
  <2>3. Making(r).place[2] = At(r, 1) /\ Making(v).place[2] = At(v, 1)
    BY <2>2, MakingHas DEF MakingPlace
  <2>4. Making(r).place[2][1] < Making(v).place[2][1]
    BY <2>1, <2>3 DEF At
  <2>5. \A j \in 1..(1 - 1) : Making(r).place[2][j] = Making(v).place[2][j]
    OBVIOUS
  <2> QED  BY <1>2, <2>1, <2>4, <2>5, PlaceFirst
<1> QED  BY <1>3, <1>4

\* A relation is made before an item is added to it.
LEMMA MakingFirst ==
  ASSUME AllShaped, NEW i \in db.items, ~InCreate(i)
  PROVE  Before(Making(i.on).place, Statement(i).place)
<1> DEFINE a == Making(i.on).place
           b == Statement(i).place
<1>1. /\ a[1] = IF IsView(i.on) THEN 2 ELSE 1
      /\ a[2] = MakingPlace(i.on) /\ b[1] = SectionOf(i) /\ b[2] = LocalPlace(i)
  BY MakingHas, StatementHas
<1>2. Shaped(i) /\ i.on \in Relations /\ SectionOf(i) \in {1, 2, 3, 4}
  BY SectionIs DEF AllShaped
<1> HIDE DEF a, b
<1>3. CASE SectionOf(i) \in {3, 4}
  <2>1. a[1] < b[1]
    BY <1>1, <1>3
  <2> QED  BY <2>1, SectionFirst DEF a, b
<1>4. CASE SectionOf(i) \in {1, 2}
  <2>1. a[1] = b[1]
    BY <1>1, <1>4, SectionIs
  <2>2. /\ i.kind \notin {"fk", "default"}
        /\ i.kind \in {"check", "notnull", "key"} => i.on \notin Listed
    BY <1>2, <1>4 DEF SectionOf, InCreate, Shaped
  <2>3. CASE i.on \in Listed
    <3>1. a[2] = At(i.on, 1)
      BY <1>1, <2>3 DEF MakingPlace
    <3>2. \E k \in {2, 3, 5, 6, 7} : b[2] = At(i.on, k)
      BY <1>1, <1>2, <2>2, <2>3, RootOfListed DEF LocalPlace, InPlace, Shaped
    <3> QED  BY <2>1, <3>1, <3>2, AtFirst DEF a, b
  <2>4. CASE i.on \notin Listed
    <3>1. i.on \in DOMAIN ParentOf
      BY <1>2, <2>4 DEF Listed
    <3>2. RelKind[Root(i.on)] = "p"
      BY <3>1, RootOfPartition
    <3>3. a[2] = AtPartition(Root(i.on), i.on, 1)
      BY <1>1, <2>4 DEF MakingPlace
    <3>4. \/ b[2] = At(Root(i.on), 5)
          \/ \E l \in {2, 3, 4} : b[2] = AtPartition(Root(i.on), i.on, l)
      BY <1>1, <1>2, <2>2, <2>4, <3>2 DEF LocalPlace, InPlace, Shaped
    <3> QED  BY <2>1, <3>3, <3>4, PartitionsFirst, PartitionFirst DEF a, b
  <2> QED  BY <2>3, <2>4
<1> QED  BY <1>2, <1>3, <1>4

------------------------------------------------------------------------------
\* What a statement adds

LEMMA AddsAre ==
  ASSUME AllShaped, NEW x, IsWritten(x)
  PROVE  x.adds = {i \in db.items : Statement(i) = x}
<1>1. CASE x.create
  <2>1. x = Making(x.on) /\ Making(x.on).adds = MakingAdds(x.on) /\ Making(x.on).create = TRUE
    BY <1>1, StatementsAre, MakingHas
  <2>2. \A i \in db.items : InCreate(i) => Statement(i) = Making(i.on) /\ Making(i.on).on = i.on
    BY StatementInCreate, MakingHas
  <2>3. \A i \in db.items : ~InCreate(i) => Statement(i).create = FALSE
    BY StatementHas
  <2>4. \A i \in db.items : Statement(i) = x <=> i \in MakingAdds(x.on)
    BY <2>1, <2>2, <2>3 DEF MakingAdds
  <2>5. MakingAdds(x.on) \subseteq db.items
    BY DEF MakingAdds
  <2> QED  BY <2>1, <2>4, <2>5
<1>2. CASE ~x.create
  <2>1. PICK i \in db.items : ~InCreate(i) /\ x = Statement(i)
    BY <1>2, StatementsAre
  <2>2. x.adds = {i}
    BY <2>1, StatementHas
  <2> QED  BY <2>1, <2>2, StatementOfOne
<1> QED  BY <1>1, <1>2

\* What a CREATE TABLE holds is valid.
LEMMA ValidAdds ==
  ASSUME AllShaped, NEW r
  PROVE  {[i EXCEPT !.valid = TRUE] : i \in MakingAdds(r)} = MakingAdds(r)
<1>1. \A i \in MakingAdds(r) : [i EXCEPT !.valid = TRUE] = i
  BY DEF MakingAdds, InCreate, AllShaped, Shaped
<1> QED  BY <1>1

LEMMA AddedIs ==
  ASSUME Typing, NEW x \in Pending
  PROVE  Added(x) = WithCopies(x.adds)
<1>1. x.create => x.adds = MakingAdds(x.on)
  BY PendingIsWritten, StatementsAre, MakingHas
<1>2. AllShaped
  BY ItemsShaped DEF Typing
<1>3. x.create => {[i EXCEPT !.valid = TRUE] : i \in x.adds} = x.adds
  BY <1>1, <1>2, ValidAdds
<1> QED  BY <1>3 DEF Added

LEMMA AddedTyped ==
  ASSUME Typing, NEW x \in Pending
  PROVE  x.adds \subseteq AllItems /\ Added(x) \subseteq Restorable
<1>1. x.adds \subseteq AllItems
  BY PendingIsWritten, AddsAre, ItemsShaped DEF Typing
<1>2. WithCopies(x.adds) \subseteq AllItems
  BY <1>1, CopiesOfItems
<1> QED  BY <1>1, <1>2, AddedIs DEF Restorable

LEMMA AddedSupported ==
  ASSUME Typing, Supported, NEW x \in Pending
  PROVE  Added(x) = {i \in db.items : Statement(i) = x}
BY PendingIsWritten, AddsAre, AddedIs, SupportedCopies DEF Typing

------------------------------------------------------------------------------
\* What is still to be run

\* A statement of the running file is in no other file that is left.
LEMMA InOneFile ==
  ASSUME Typing
  PROVE  /\ \A s \in Schemas \ toRun : \A x \in SchemaFile(s) :
              x \notin script => x \notin Pending
         /\ \A x \in script : /\ \A s \in toRun : x \notin SchemaFile(s)
                              /\ \A s \in toRunCross : x \notin CrossSchemaFile(s)
<1>1. AllShaped
  BY ItemsShaped DEF Typing
<1>2. \A s, u : \A x \in SchemaFile(s) : x \notin CrossSchemaFile(u)
  <2> SUFFICES ASSUME NEW s, NEW u, NEW x \in SchemaFile(s), x \in CrossSchemaFile(u) PROVE FALSE
    OBVIOUS
  <2>1. x.place[1] \in {1, 2, 3} /\ x.place[1] = 4
    BY <1>1, SchemaFileHas, CrossFileHas
  <2> QED  BY <2>1
<1>3. \A s, u : \A x \in SchemaFile(s) : x \in SchemaFile(u) => s = u
  <2> TAKE s, u
  <2> TAKE x \in SchemaFile(s)
  <2> HAVE x \in SchemaFile(u)
  <2>1. db.home[Root(x.on)] = s /\ db.home[Root(x.on)] = u
    BY <1>1, SchemaFileHas
  <2> QED  BY <2>1
<1>4. \A s, u : \A x \in CrossSchemaFile(s) : x \in CrossSchemaFile(u) => s = u
  <2> TAKE s, u
  <2> TAKE x \in CrossSchemaFile(s)
  <2> HAVE x \in CrossSchemaFile(u)
  <2>1. db.home[Root(x.on)] = s /\ db.home[Root(x.on)] = u
    BY <1>1, CrossFileHas
  <2> QED  BY <2>1
<1>5. \A s \in Schemas \ toRun : \A x \in SchemaFile(s) : x \notin script => x \notin Pending
  BY <1>2, <1>3 DEF Pending
<1>6. ASSUME NEW x \in script
      PROVE  /\ \A s \in toRun : x \notin SchemaFile(s)
             /\ \A s \in toRunCross : x \notin CrossSchemaFile(s)
  BY <1>2, <1>3, <1>4 DEF Typing, Running
<1> QED  BY <1>5, <1>6

\* What comes before the next statement of a schema file has been run.
LEMMA EarlierIsDone ==
  ASSUME Typing, NEW st \in script, IsNext(st),
         NEW s \in Schemas \ toRun, NEW x \in SchemaFile(s), Before(x.place, st.place)
  PROVE  x \notin Pending
<1>1. x \notin script
  BY DEF IsNext
<1> QED  BY <1>1, InOneFile

\* After all schema files only statements across schemas are left.
LEMMA CrossesAreLeft ==
  ASSUME Typing, toRun = {}, script = {} \/ \E s : script \subseteq CrossSchemaFile(s),
         NEW x \in Pending
  PROVE  x.place[1] = 4 /\ x.create = FALSE
<1>1. AllShaped
  BY ItemsShaped DEF Typing
<1>2. \E s : x \in CrossSchemaFile(s)
  BY DEF Pending
<1> QED  BY <1>1, <1>2, CrossFileHas

------------------------------------------------------------------------------
\* The next statement runs

LEMMA NoneIsSame ==
  ASSUME Typing, Supported, Progress, NEW x \in Pending
  PROVE  \A i \in x.adds : ~\E j \in items : Same(i, j)
<1> SUFFICES ASSUME NEW i \in x.adds, NEW j \in items, Same(i, j) PROVE FALSE
  OBVIOUS
<1>1. i \in db.items /\ Statement(i) = x
  BY PendingIsWritten, AddsAre
<1>2. j \in db.items /\ Statement(j) \notin Pending
  BY DEF Progress
<1>3. i = j
  BY <1>1, <1>2, SourceIs DEF Typing, DbOK
<1> QED  BY <1>1, <1>2, <1>3

LEMMA AddRuns ==
  ASSUME Typing, Supported, Progress, NEW x \in Pending, ~x.create,
         NEW i \in db.items, ~InCreate(i), x = Statement(i),
         i.on \in relations,
         i.kind \in {"default", "fk"} => i.to \in relations,
         i.kind = "fk" => HasKey(i.to, items)
  PROVE  Runs(x)
<1>1. x.adds = {i} /\ x.on = i.on
  BY StatementHas
<1>2. i.kind = "fk" => HasKey(i.to, items \cup x.adds)
  BY DEF HasKey
<1>3. ~\E j \in items : Same(i, j)
  BY <1>1, NoneIsSame
<1> QED  BY <1>1, <1>2, <1>3 DEF Runs

\* The key that a foreign key goes by comes with the tables of the same file.
LEMMA KeyOf ==
  ASSUME Typing, Supported, NEW i \in db.items, i.kind = "fk"
  PROVE  \E j \in db.items :
           /\ j.kind \in {"key", "index"} /\ j.on \in {i.to} \cup Ancestors[i.to]
           /\ Statement(j) \in SchemaFile(db.home[i.to])
           /\ Statement(j).place[1] < 3
<1>1. AllShaped
  BY ItemsShaped DEF Typing
<1>2. i.to \in Relations /\ HasKey(i.to, db.items)
  BY <1>1, SourceIs DEF Typing, DbOK, AllShaped, Shaped
<1>3. PICK j \in db.items : j.kind \in {"key", "index"} /\ j.on \in {i.to} \cup Ancestors[i.to]
  BY <1>2 DEF HasKey
<1>4. Root(j.on) = Root(i.to)
  BY <1>2, <1>3, AboveIsAncestors, RootAbove
<1>5. db.home[Root(i.to)] = db.home[i.to]
  BY DEF Supported, AtHome
<1>6. ~j.copy /\ ~Crosses(j)
  BY <1>3, SupportedCopies DEF Typing, Crosses
<1>7. Statement(j) \in SchemaFile(db.home[i.to])
  BY <1>1, <1>4, <1>5, <1>6, WhereStated
<1>8. Statement(j).place[1] < 3
  <2>1. CASE InCreate(j)
    <3>1. Statement(j) = Making(j.on)
      BY <2>1 DEF Statement
    <3>2. Making(j.on).place[1] = IF IsView(j.on) THEN 2 ELSE 1
      BY MakingHas
    <3> QED  BY <3>1, <3>2
  <2>2. CASE ~InCreate(j)
    <3>1. Statement(j).place[1] = SectionOf(j)
      BY <2>2, StatementHas
    <3>2. SectionOf(j) \in {1, 2}
      BY <1>3 DEF SectionOf
    <3> QED  BY <3>1, <3>2
  <2> QED  BY <2>1, <2>2
<1> QED  BY <1>3, <1>7, <1>8

\* A CREATE statement: the schema is there, nothing of it is, and what the relation
\* is made of has been made before.
LEMMA CreateRuns ==
  ASSUME Typing, Supported, Progress, NEW st \in script, IsNext(st), st.create,
         NEW s \in Schemas \ toRun, script \subseteq SchemaFile(s)
  PROVE  Runs(st)
<1> DEFINE r == st.on
<1>1. AllShaped /\ st \in Pending /\ db.home \in [Relations -> Schemas]
  BY ItemsShaped DEF Typing, Pending
<1>2. st = Making(r) /\ r \in Relations /\ db.home[Root(r)] = s
  BY <1>1, SchemaFileHas
<1> HIDE DEF r
<1>3. db.home[r] \in schemas
  <2>1. CASE db.home[r] = s
    BY <2>1 DEF Progress
  <2>2. CASE preset = Schemas
    BY <1>1, <1>2, <2>2 DEF Progress
  <2>3. CASE preset # Schemas /\ db.home[r] # s
    <3>1. \A p \in DOMAIN ParentOf : AtHome(p)
      BY <2>3 DEF Supported
    <3>2. r \in Listed
      BY <1>2, <2>3, <3>1 DEF AtHome, Listed
    <3> QED  BY <1>2, <2>3, <3>2, RootOfListed
  <2> QED  BY <2>1, <2>2, <2>3
<1>4. r \notin relations
  BY <1>1, <1>2 DEF Progress
<1>5. ASSUME NEW u \in Relations, db.home[Root(u)] = s, Before(Making(u).place, st.place)
      PROVE  u \in relations
  <2>1. Making(u) \in SchemaFile(s)
    BY <1>1, <1>5, WhereMade
  <2>2. Making(u) \notin Pending
    BY <1>5, <2>1, EarlierIsDone
  <2> QED  BY <2>2 DEF Progress
<1>6. r \in DOMAIN ParentOf => ParentOf[r] \in relations
  <2> HAVE r \in DOMAIN ParentOf
  <2>1. ParentOf[r] \in Relations /\ db.home[Root(ParentOf[r])] = s
    BY <1>2, RootOfPartition
  <2>2. Before(Making(ParentOf[r]).place, st.place)
    BY <1>2, ParentFirst
  <2> QED  BY <1>5, <2>1, <2>2
<1>7. r \in DOMAIN Reads => Reads[r] \subseteq relations
  <2> HAVE r \in DOMAIN Reads
  <2> SUFFICES ASSUME NEW u \in Reads[r] PROVE u \in relations
    OBVIOUS
  <2>1. u \in Relations /\ IsView(r) /\ db.home[Root(u)] = db.home[r]
    BY SourceAssumption DEF Supported
  <2>2. Root(r) = r
    BY <1>2, <2>1, RootOfPartition, RootOfListed DEF Listed
  <2>3. Before(Making(u).place, st.place)
    BY <1>2, ReadFirst
  <2> QED  BY <1>2, <1>5, <2>1, <2>2, <2>3
<1>8. \A i \in st.adds : i.kind \notin {"fk", "default"} /\ ~\E j \in items : Same(i, j)
  <2>1. \A i \in st.adds : i.kind \notin {"fk", "default"}
    BY <1>2, MakingHas DEF MakingAdds, InCreate
  <2> QED  BY <1>1, <2>1, NoneIsSame
<1> QED  BY <1>3, <1>4, <1>6, <1>7, <1>8 DEF Runs, r

\* A statement of a schema file that adds an item to a relation.
LEMMA LocalRuns ==
  ASSUME Typing, Supported, Progress, NEW st \in script, IsNext(st), ~st.create,
         NEW s \in Schemas \ toRun, script \subseteq SchemaFile(s)
  PROVE  Runs(st)
<1>1. AllShaped /\ st \in Pending
  BY ItemsShaped DEF Typing, Pending
<1>2. PICK i \in db.items : ~InCreate(i) /\ ~Crosses(i) /\ st = Statement(i)
  BY <1>1, SchemaFileHas
<1>3. st.on = i.on /\ i.on \in Relations /\ db.home[Root(i.on)] = s /\ st.place[1] = SectionOf(i)
  <2>1. st.on = i.on /\ st.place[1] = SectionOf(i)
    BY <1>2, StatementHas
  <2>2. st \in SchemaFile(s)
    OBVIOUS
  <2>3. st.on \in Relations /\ db.home[Root(st.on)] = s
    BY <1>1, <2>2, SchemaFileHas
  <2> QED  BY <2>1, <2>3
<1>4. ASSUME NEW u \in Relations, db.home[Root(u)] = s, Before(Making(u).place, st.place)
      PROVE  u \in relations
  <2>1. Making(u) \in SchemaFile(s)
    BY <1>1, <1>4, WhereMade
  <2>2. Making(u) \notin Pending
    BY <1>4, <2>1, EarlierIsDone
  <2> QED  BY <2>2 DEF Progress
<1>5. i.on \in relations
  BY <1>1, <1>2, <1>3, <1>4, MakingFirst
<1>6. i.kind \in {"default", "fk"} => db.home[i.to] = s /\ st.place[1] = 3
  BY <1>2, <1>3 DEF Crosses, SectionOf
<1>7. i.kind \in {"default", "fk"} => i.to \in relations
  <2> HAVE i.kind \in {"default", "fk"}
  <2>1. i.to \in Relations
    BY <1>1 DEF AllShaped, Shaped
  <2>2. db.home[Root(i.to)] = db.home[i.to]
    <3>1. CASE i.kind = "fk"
      BY <3>1 DEF Supported, AtHome
    <3>2. CASE i.kind = "default"
      <4>1. i.to \in Listed
        BY <1>1, <3>2 DEF AllShaped, Shaped
      <4> QED  BY <4>1, RootOfListed
    <3> QED  BY <3>1, <3>2
  <2>3. Making(i.to).place[1] = IF IsView(i.to) THEN 2 ELSE 1
    BY MakingHas
  <2>4. Making(i.to).place[1] < st.place[1]
    BY <1>6, <2>3
  <2> QED  BY <1>4, <1>6, <2>1, <2>2, <2>4, SectionFirst
<1>8. i.kind = "fk" => HasKey(i.to, items)
  <2> HAVE i.kind = "fk"
  <2>1. PICK j \in db.items : /\ j.kind \in {"key", "index"} /\ j.on \in {i.to} \cup Ancestors[i.to]
                              /\ Statement(j) \in SchemaFile(db.home[i.to])
                              /\ Statement(j).place[1] < 3
    BY KeyOf
  <2>2. Before(Statement(j).place, st.place)
    BY <1>6, <2>1, SectionFirst
  <2>3. Statement(j) \notin Pending
    BY <1>6, <2>1, <2>2, EarlierIsDone
  <2> QED  BY <2>1, <2>3 DEF Progress, HasKey
<1> QED  BY <1>1, <1>2, <1>5, <1>7, <1>8, AddRuns

\* A statement of a cross-schema file: all relations and all keys are there.
LEMMA CrossRuns ==
  ASSUME Typing, Supported, Progress, NEW st \in script, toRun = {},
         NEW s, script \subseteq CrossSchemaFile(s)
  PROVE  Runs(st)
<1>1. AllShaped /\ st \in Pending
  BY ItemsShaped DEF Typing, Pending
<1>2. PICK i \in db.items : ~InCreate(i) /\ Crosses(i) /\ st = Statement(i)
  BY <1>1, CrossFileHas
<1>3. ~st.create /\ i.on \in Relations /\ i.to \in Relations
  BY <1>1, <1>2, CrossFileHas DEF AllShaped, Shaped
<1>4. \A x \in Pending : x.place[1] = 4 /\ x.create = FALSE
  BY CrossesAreLeft
<1>5. \A r \in Relations : r \in relations
  <2> TAKE r \in Relations
  <2>1. Making(r).create = TRUE
    BY MakingHas
  <2> QED  BY <1>4, <2>1 DEF Progress
<1>6. i.kind = "fk" => HasKey(i.to, items)
  <2> HAVE i.kind = "fk"
  <2>1. PICK j \in db.items : /\ j.kind \in {"key", "index"} /\ j.on \in {i.to} \cup Ancestors[i.to]
                              /\ Statement(j).place[1] < 3
    BY KeyOf
  <2>2. Statement(j) \notin Pending
    BY <1>4, <2>1
  <2> QED  BY <2>1, <2>2 DEF Progress, HasKey
<1> QED  BY <1>1, <1>2, <1>3, <1>5, <1>6, AddRuns

LEMMA NextRuns ==
  ASSUME IInv, Supported, NEW st \in script, IsNext(st)
  PROVE  Runs(st)
<1>1. Typing /\ Progress
  BY DEF IInv
<1>2. CASE \E s \in Schemas \ toRun : toRunCross = Schemas /\ script \subseteq SchemaFile(s)
  BY <1>1, <1>2, CreateRuns, LocalRuns
<1>3. CASE \E s \in Schemas \ toRunCross : toRun = {} /\ script \subseteq CrossSchemaFile(s)
  BY <1>1, <1>3, CrossRuns
<1> QED  BY <1>1, <1>2, <1>3 DEF Typing, Running

------------------------------------------------------------------------------
\* The invariant holds

LEMMA SameDb ==
  ASSUME db' = db, preset' = preset
  PROVE  /\ DbOK' <=> DbOK
         /\ Supported' <=> Supported
         /\ \A s : SchemaFile(s)' = SchemaFile(s)
         /\ \A s : CrossSchemaFile(s)' = CrossSchemaFile(s)
         /\ \A r : Making(r)' = Making(r)
         /\ \A i : Statement(i)' = Statement(i)
<1>1. DbOK' <=> DbOK
  BY DEF DbOK
<1>2. Supported' <=> Supported
  BY DEF Supported, AtHome
<1>3. \A s : SchemaFile(s)' = SchemaFile(s)
  BY DEF SchemaFile
<1>4. \A s : CrossSchemaFile(s)' = CrossSchemaFile(s)
  BY DEF CrossSchemaFile
<1>5. \A r : Making(r)' = Making(r)
  BY DEF Making, Make, MakingAdds
<1>6. \A i : Statement(i)' = Statement(i)
  BY <1>5 DEF Statement, SectionOf, Crosses
<1> QED  BY <1>1, <1>2, <1>3, <1>4, <1>5, <1>6

LEMMA InitInv == Init => IInv
<1> SUFFICES ASSUME Init PROVE IInv
  OBVIOUS
<1>1. Typing
  BY DEF Init, Typing, DbOK, Running, Restorable
<1>2. AllShaped /\ db.home \in [Relations -> Schemas]
  BY <1>1, ItemsShaped DEF Typing
<1>3. ASSUME Supported PROVE Progress
  <2>1. \A s \in Schemas : SchemaFile(s) \subseteq Pending /\ CrossSchemaFile(s) \subseteq Pending
    BY DEF Init, Pending
  <2>2. \A r \in Relations : Making(r) \in Pending
    BY <1>2, <2>1, WhereMade, RootIsOne
  <2>3. \A i \in db.items : Statement(i) \in Pending
    <3> TAKE i \in db.items
    <3>1. ~i.copy
      BY <1>1, <1>3, SupportedCopies DEF Typing
    <3>2. db.home[Root(i.on)] \in Schemas
      BY <1>2, SectionIs, RootIsOne
    <3> QED  BY <1>2, <2>1, <3>1, <3>2, WhereStated
  <2> QED  BY <2>2, <2>3 DEF Init, Progress
<1> QED  BY <1>1, <1>3 DEF IInv

LEMMA RunSchemaFileInv ==
  ASSUME IInv, NEW s \in Schemas, RunSchemaFile(s)
  PROVE  IInv'
<1>1. /\ script = {} /\ s \in toRun /\ toRun' = toRun \ {s} /\ script' = SchemaFile(s)
      /\ schemas' = schemas \cup {s} /\ db' = db /\ preset' = preset
      /\ toRunCross' = toRunCross /\ relations' = relations /\ items' = items /\ failed' = failed
  BY DEF RunSchemaFile
<1>2. Typing /\ toRunCross = Schemas /\ toRun \in SUBSET Schemas
  BY <1>1 DEF IInv, Typing
<1>3. Running'
  <2>1. s \in Schemas \ toRun' /\ toRunCross' = Schemas
    BY <1>1, <1>2
  <2>2. script' \subseteq SchemaFile(s)'
    BY <1>1, SameDb
  <2> QED  BY <2>1, <2>2 DEF Running
<1>4. Typing'
  BY <1>1, <1>2, <1>3, SameDb DEF Typing
<1>5. Pending' = Pending
  <2>1. Pending' = script' \cup (UNION {SchemaFile(u)' : u \in toRun'})
                     \cup (UNION {CrossSchemaFile(u)' : u \in toRunCross'})
    BY DEF Pending
  <2>2. Pending' = SchemaFile(s) \cup (UNION {SchemaFile(u) : u \in toRun \ {s}})
                     \cup (UNION {CrossSchemaFile(u) : u \in toRunCross})
    BY <1>1, <2>1, SameDb
  <2> QED  BY <1>1, <2>2 DEF Pending
<1>6. Supported' => Progress'
  <2> HAVE Supported'
  <2>1. Progress
    BY <1>1, SameDb DEF IInv
  <2>2. schemas' = preset' \cup (Schemas \ toRun')
    BY <1>1, <1>2, <2>1 DEF Progress
  <2>3. relations' = {r \in Relations : Making(r)' \notin Pending'}
    BY <1>1, <1>5, <2>1, SameDb DEF Progress
  <2>4. items' = {i \in db'.items : Statement(i)' \notin Pending'}
    BY <1>1, <1>5, <2>1, SameDb DEF Progress
  <2> QED  BY <1>1, <2>1, <2>2, <2>3, <2>4 DEF Progress
<1> QED  BY <1>4, <1>6 DEF IInv

LEMMA RunCrossSchemaFileInv ==
  ASSUME IInv, NEW s \in Schemas, RunCrossSchemaFile(s)
  PROVE  IInv'
<1>1. /\ script = {} /\ toRun = {} /\ s \in toRunCross /\ toRunCross' = toRunCross \ {s}
      /\ script' = CrossSchemaFile(s) /\ db' = db /\ preset' = preset /\ toRun' = toRun
      /\ schemas' = schemas /\ relations' = relations /\ items' = items /\ failed' = failed
  BY DEF RunCrossSchemaFile
<1>2. Typing /\ toRunCross \in SUBSET Schemas
  BY DEF IInv, Typing
<1>3. Running'
  <2>1. s \in Schemas \ toRunCross' /\ toRun' = {}
    BY <1>1, <1>2
  <2>2. script' \subseteq CrossSchemaFile(s)'
    BY <1>1, SameDb
  <2> QED  BY <2>1, <2>2 DEF Running
<1>4. Typing'
  BY <1>1, <1>2, <1>3, SameDb DEF Typing
<1>5. Pending' = Pending
  <2>1. Pending' = script' \cup (UNION {SchemaFile(u)' : u \in toRun'})
                     \cup (UNION {CrossSchemaFile(u)' : u \in toRunCross'})
    BY DEF Pending
  <2>2. Pending' = CrossSchemaFile(s) \cup (UNION {SchemaFile(u) : u \in toRun})
                     \cup (UNION {CrossSchemaFile(u) : u \in toRunCross \ {s}})
    BY <1>1, <2>1, SameDb
  <2> QED  BY <1>1, <2>2 DEF Pending
<1>6. Supported' => Progress'
  <2> HAVE Supported'
  <2>1. Progress
    BY <1>1, SameDb DEF IInv
  <2>2. schemas' = preset' \cup (Schemas \ toRun')
    BY <1>1, <2>1 DEF Progress
  <2>3. relations' = {r \in Relations : Making(r)' \notin Pending'}
    BY <1>1, <1>5, <2>1, SameDb DEF Progress
  <2>4. items' = {i \in db'.items : Statement(i)' \notin Pending'}
    BY <1>1, <1>5, <2>1, SameDb DEF Progress
  <2> QED  BY <1>1, <2>1, <2>2, <2>3, <2>4 DEF Progress
<1> QED  BY <1>4, <1>6 DEF IInv

LEMMA ExecuteInv ==
  ASSUME IInv, Execute
  PROVE  IInv'
<1>1. PICK st \in script : /\ relations' = IF st.create THEN relations \cup {st.on} ELSE relations
                           /\ items' = items \cup Added(st)
                           /\ script' = script \ {st}
  BY DEF Execute
<1>2. /\ db' = db /\ preset' = preset /\ toRun' = toRun /\ toRunCross' = toRunCross
      /\ schemas' = schemas /\ failed' = failed
  BY DEF Execute
<1>3. Typing /\ st \in Pending
  BY DEF IInv, Pending
<1>4. st.on \in Relations /\ Added(st) \subseteq Restorable
  BY <1>3, PendingIsWritten, StatementsAre, AddedTyped
<1>5. Running'
  <2>1. CASE \E s \in Schemas \ toRun : toRunCross = Schemas /\ script \subseteq SchemaFile(s)
    BY <1>1, <1>2, <2>1, SameDb DEF Running
  <2>2. CASE \E s \in Schemas \ toRunCross : toRun = {} /\ script \subseteq CrossSchemaFile(s)
    BY <1>1, <1>2, <2>2, SameDb DEF Running
  <2> QED  BY <1>3, <2>1, <2>2 DEF Typing, Running
<1>6. Typing'
  BY <1>1, <1>2, <1>3, <1>4, <1>5, SameDb DEF Typing
<1>7. Pending' = Pending \ {st}
  <2>1. Pending' = script' \cup (UNION {SchemaFile(u)' : u \in toRun'})
                     \cup (UNION {CrossSchemaFile(u)' : u \in toRunCross'})
    BY DEF Pending
  <2>2. Pending' = (script \ {st}) \cup (UNION {SchemaFile(u) : u \in toRun})
                     \cup (UNION {CrossSchemaFile(u) : u \in toRunCross})
    BY <1>1, <1>2, <2>1, SameDb
  <2>3. /\ \A s \in toRun : st \notin SchemaFile(s)
        /\ \A s \in toRunCross : st \notin CrossSchemaFile(s)
    BY <1>3, InOneFile
  <2> QED  BY <2>2, <2>3 DEF Pending
<1>8. Supported' => Progress'
  <2> HAVE Supported'
  <2>1. Supported /\ Progress
    BY <1>2, SameDb DEF IInv
  <2>2. schemas' = preset' \cup (Schemas \ toRun')
    BY <1>2, <2>1 DEF Progress
  <2>3. relations' = {r \in Relations : Making(r)' \notin Pending'}
    <3>1. \A r \in Relations : Making(r) = st <=> st.create /\ r = st.on
      BY <1>3, PendingIsWritten, StatementsAre, MakingHas
    <3>2. relations = {r \in Relations : Making(r) \notin Pending}
      BY <2>1 DEF Progress
    <3>3. relations' = {r \in Relations : Making(r) \notin Pending \ {st}}
      BY <1>1, <1>4, <3>1, <3>2
    <3> QED  BY <1>2, <1>7, <3>3, SameDb
  <2>4. items' = {i \in db'.items : Statement(i)' \notin Pending'}
    <3>1. Added(st) = {i \in db.items : Statement(i) = st}
      BY <1>3, <2>1, AddedSupported
    <3>2. items = {i \in db.items : Statement(i) \notin Pending}
      BY <2>1 DEF Progress
    <3>3. items' = {i \in db.items : Statement(i) \notin Pending \ {st}}
      BY <1>1, <3>1, <3>2
    <3> QED  BY <1>2, <1>7, <3>3, SameDb
  <2> QED  BY <1>2, <2>1, <2>2, <2>3, <2>4 DEF Progress
<1> QED  BY <1>6, <1>8 DEF IInv

\* A statement fails only where the source is not supported.
LEMMA FailInv ==
  ASSUME IInv, Fail
  PROVE  IInv'
<1>1. /\ failed' = TRUE /\ script' = {} /\ db' = db /\ preset' = preset /\ toRun' = toRun
      /\ toRunCross' = toRunCross /\ schemas' = schemas /\ relations' = relations /\ items' = items
  BY DEF Fail
<1>2. Running'
  BY <1>1 DEF Running
<1>3. Typing'
  BY <1>1, <1>2, SameDb DEF IInv, Typing
<1>4. ~Supported
  BY NextRuns DEF Fail
<1> QED  BY <1>1, <1>3, <1>4, SameDb DEF IInv

LEMMA StutterInv ==
  ASSUME IInv, UNCHANGED vars
  PROVE  IInv'
<1>1. /\ db' = db /\ preset' = preset /\ toRun' = toRun /\ toRunCross' = toRunCross
      /\ script' = script /\ schemas' = schemas /\ relations' = relations /\ items' = items
      /\ failed' = failed
  BY DEF vars
<1>2. Running' <=> Running
  BY <1>1, SameDb DEF Running
<1>3. Pending' = Pending
  BY <1>1, SameDb DEF Pending
<1>4. Progress' <=> Progress
  BY <1>1, <1>3, SameDb DEF Progress
<1> QED  BY <1>1, <1>2, <1>4, SameDb DEF IInv, Typing

LEMMA InvHolds == Spec => []IInv
<1>1. ASSUME IInv, [Next]_vars PROVE IInv'
  BY <1>1, RunSchemaFileInv, RunCrossSchemaFileInv, ExecuteInv, FailInv, StutterInv DEF Next
<1> QED  BY <1>1, InitInv, PTL DEF Spec

------------------------------------------------------------------------------
\* The theorems

\* The target holds relations and items of the source, and no statement that is still
\* to be run makes a relation that another one makes (SchemaRestore!TypeOK): the lists
\* that fetch_table_ddl and write_sql build have each relation once.
THEOREM TypeCorrect == Spec => []TypeOK
<1>1. ASSUME IInv PROVE TypeOK
  <2>1. Typing /\ db.items \subseteq AllItems /\ script \subseteq Pending
    BY <1>1, ItemsShaped DEF IInv, Typing, Pending
  <2>2. \A st \in script : st.on \in Relations /\ st.adds \subseteq AllItems
    BY <2>1, PendingIsWritten, StatementsAre, AddedTyped
  <2>3. ASSUME NEW x \in script, NEW y \in script, x.create, y.create, x.on = y.on
        PROVE  x = y
    BY <2>1, <2>3, PendingIsWritten, StatementsAre
  <2> QED  BY <2>1, <2>2, <2>3 DEF TypeOK, Typing, DbOK
<1> QED  BY <1>1, InvHolds, PTL

\* Whatever the relations, their partitions and views, and their items refer to: if the
\* source is supported, no statement of the files fails.
THEOREM FilesExecute == Spec => []SupportedExecutes
<1>1. IInv => SupportedExecutes
  BY DEF IInv, Progress, SupportedExecutes
<1> QED  BY <1>1, InvHolds, PTL

\* And when all files have been run the target has exactly the relations and the items
\* of the source, with their marks.
THEOREM SourceIsRestored == Spec => []RestoresEverything
<1>1. ASSUME IInv PROVE RestoresEverything
  <2> SUFFICES ASSUME Finished, Supported PROVE Restored
    BY DEF RestoresEverything
  <2>1. Pending = {}
    BY DEF Finished, Pending
  <2> QED  BY <1>1, <2>1 DEF IInv, Progress, Restored
<1> QED  BY <1>1, InvHolds, PTL

\* After the schema files just the foreign keys and defaults across schemas are missing.
THEOREM CrossIsLast == Spec => []OnlyCrossIsMissing
<1>1. ASSUME IInv PROVE OnlyCrossIsMissing
  <2> SUFFICES ASSUME toRun = {}, toRunCross = Schemas, script = {}, Supported
               PROVE  db.items \ items = {i \in db.items : Crosses(i)}
    BY DEF OnlyCrossIsMissing, Crosses
  <2>1. Typing /\ items = {i \in db.items : Statement(i) \notin Pending}
    BY <1>1 DEF IInv, Progress
  <2>2. AllShaped /\ db.home \in [Relations -> Schemas]
    BY <2>1, ItemsShaped DEF Typing
  <2>3. ASSUME NEW i \in db.items PROVE Statement(i) \in Pending <=> Crosses(i)
    <3>1. ~i.copy /\ db.home[Root(i.on)] \in Schemas
      BY <2>1, <2>2, SupportedCopies, SectionIs, RootIsOne DEF Typing
    <3>2. Crosses(i) => Statement(i) \in Pending
      BY <2>2, <3>1, WhereStated DEF Pending
    <3>3. Statement(i) \in Pending => Statement(i).place[1] = 4 /\ Statement(i).create = FALSE
      BY <2>1, CrossesAreLeft
    <3>4. Statement(i) \in Pending => ~InCreate(i)
      BY <3>3, StatementInCreate, MakingHas
    <3>5. Statement(i) \in Pending => Crosses(i)
      BY <2>2, <3>3, <3>4, StatementHas, SectionIs
    <3> QED  BY <3>2, <3>5
  <2> QED  BY <2>1, <2>3
<1> QED  BY <1>1, InvHolds, PTL

\* The statements of all files, and what is said of them: for every item of the
\* catalog exactly one statement adds it, but none for the rows that a partition has
\* of a key that is written with its parent (coninhcount, partition.rs).
Statements ==
  (UNION {SchemaFile(s) : s \in Schemas}) \cup (UNION {CrossSchemaFile(s) : s \in Schemas})
EveryItemIsWrittenOnce ==
  \A i \in db.items :
    IF i.copy /\ i.on \notin Listed THEN \A x \in Statements : i \notin x.adds
    ELSE \E x \in Statements : {y \in Statements : i \in y.adds} = {x}

\* Nothing is written twice and nothing is forgotten, also in an export that cannot be
\* restored: the CREATE TABLE, the three lists of fetch_table_ddl and the two files of
\* a schema each take what the others leave.
THEOREM ItemsOnce == Spec => []EveryItemIsWrittenOnce
<1>1. ASSUME IInv PROVE EveryItemIsWrittenOnce
  <2>1. AllShaped /\ db.home \in [Relations -> Schemas]
    BY <1>1, ItemsShaped DEF IInv, Typing
  <2> SUFFICES ASSUME NEW i \in db.items
               PROVE  IF i.copy /\ i.on \notin Listed THEN \A x \in Statements : i \notin x.adds
                      ELSE \E x \in Statements : {y \in Statements : i \in y.adds} = {x}
    BY DEF EveryItemIsWrittenOnce
  <2>2. \A x \in Statements : i \in x.adds <=> Statement(i) = x
    <3> TAKE x \in Statements
    <3>1. IsWritten(x)
      BY DEF Statements, IsWritten
    <3> QED  BY <2>1, <3>1, AddsAre
  <2>3. CASE i.copy => i.on \in Listed
    <3>1. db.home[Root(i.on)] \in Schemas
      BY <2>1, SectionIs, RootIsOne
    <3>2. Statement(i) \in Statements
      BY <2>1, <2>3, <3>1, WhereStated DEF Statements
    <3>3. {y \in Statements : i \in y.adds} = {Statement(i)}
      BY <2>2, <3>2
    <3> QED  BY <2>3, <3>2, <3>3
  <2>4. CASE i.copy /\ i.on \notin Listed
    <3>1. ~InCreate(i)
      BY <2>4 DEF InCreate
    <3> SUFFICES ASSUME NEW x \in Statements, Statement(i) = x PROVE FALSE
      BY <2>2, <2>4
    <3>2. x.create = FALSE
      BY <3>1, StatementHas
    <3>3. \A r : x # Making(r)
      <4> TAKE r
      <4>1. Making(r).create = TRUE
        BY MakingHas
      <4> QED  BY <3>2, <4>1
    <3>4. \E s : \E j \in Apart(s) : x = Statement(j)
      <4>1. CASE \E s : x \in SchemaFile(s)
        BY <2>1, <3>3, <4>1, SchemaFileIs
      <4>2. CASE \E s : x \in CrossSchemaFile(s)
        BY <2>1, <4>2, CrossFileIs
      <4> QED  BY <4>1, <4>2 DEF Statements
    <3> PICK s : \E j \in Apart(s) : x = Statement(j)
      BY <3>4
    <3>5. PICK j \in Apart(s) : x = Statement(j)
      OBVIOUS
    <3>6. j \in db.items /\ (j.copy => j.on \in Listed)
      BY DEF Apart
    <3>7. i = j
      BY <3>1, <3>5, <3>6, StatementOfOne
    <3> QED  BY <2>4, <3>6, <3>7
  <2> QED  BY <2>3, <2>4
<1> QED  BY <1>1, InvHolds, PTL
================================================================================
