--------------------------- MODULE ExportRunProofs ---------------------------
(***************************************************************************)
(* One run after another over the same directory, for any number of        *)
(* schemas with any names on any system, any number of runs and any        *)
(* failures: the loops that look for a free name find one, no two schemas  *)
(* share a file, and what a completed run leaves is fresh.                 *)
(***************************************************************************)
EXTENDS ExportRun, FiniteSetTheorems, WellFoundedInduction, TLAPS

------------------------------------------------------------------------------
\* Free names

\* A set of natural numbers has a least element.
LEMMA MinIsLeast ==
  ASSUME NEW S, S \subseteq Nat, S # {}
  PROVE  Min(S) \in S /\ \A y \in S : Min(S) <= y
<1> DEFINE less == {ss \in Nat \X Nat : ss[1] < ss[2]}
<1>1. IsWellFoundedOn(less, Nat)
  BY NatLessThanWellFounded DEF OpToRel
<1> HIDE DEF less
<1>2. PICK x \in S : \A y \in S : ~(<<y, x>> \in less)
  BY <1>1, WFMin
<1>3. \A y \in S : x <= y
  <2> TAKE y \in S
  <2>1. x \in Nat /\ y \in Nat /\ <<y, x>> \notin less
    BY <1>2
  <2>2. ~(<<y, x>>[1] < <<y, x>>[2])
    BY <2>1 DEF less
  <2> QED  BY <2>1, <2>2
<1> QED  BY <1>3 DEF Min

\* No more than n names are taken by the n schemas before: of n + 1 different
\* ones the first may be passed over, and one of the others is free.
LEMMA OneIsFree ==
  ASSUME NEW s \in Schemas, NEW key, NEW used,
         \A m, n \in Suffixes \ {1} : key[m] = key[n] => m = n
  PROVE  \E m \in Suffixes \ {1} : \A t \in Schemas : t < s => key[m] # used[t]
<1> SUFFICES ASSUME \A m \in Suffixes \ {1} : \E t \in Schemas : t < s /\ key[m] = used[t]
             PROVE  FALSE
  OBVIOUS
<1> USE NumSchemasAssumption
<1> DEFINE holder == [m \in 2..(NumSchemas + 1) |->
                        CHOOSE t \in Schemas : t < s /\ key[m] = used[t]]
<1>1. 2..(NumSchemas + 1) = Suffixes \ {1}
  BY DEF Suffixes
<1>2. \A m \in 2..(NumSchemas + 1) :
        holder[m] \in Schemas /\ holder[m] < s /\ key[m] = used[holder[m]]
  BY <1>1
<1>3. holder \in [2..(NumSchemas + 1) -> 1..(NumSchemas - 1)]
  <2>1. \A m \in 2..(NumSchemas + 1) : holder[m] \in 1..(NumSchemas - 1)
    <3> HIDE DEF holder
    <3> QED  BY <1>2 DEF Schemas
  <2> QED  BY <2>1
<1>4. /\ IsFiniteSet(2..(NumSchemas + 1)) /\ Cardinality(2..(NumSchemas + 1)) = NumSchemas
      /\ IsFiniteSet(1..(NumSchemas - 1)) /\ Cardinality(1..(NumSchemas - 1)) = NumSchemas - 1
  <2> HIDE DEF holder
  <2>1. /\ IsFiniteSet(2..(NumSchemas + 1))
        /\ Cardinality(2..(NumSchemas + 1)) =
             IF 2 > NumSchemas + 1 THEN 0 ELSE (NumSchemas + 1) - 2 + 1
    <3>1. 2 \in Int /\ NumSchemas + 1 \in Int
      OBVIOUS
    <3> QED  BY <3>1, FS_Interval, Zenon
  <2>2. /\ IsFiniteSet(1..(NumSchemas - 1))
        /\ Cardinality(1..(NumSchemas - 1)) =
             IF 1 > NumSchemas - 1 THEN 0 ELSE (NumSchemas - 1) - 1 + 1
    <3>1. 1 \in Int /\ NumSchemas - 1 \in Int
      OBVIOUS
    <3> QED  BY <3>1, FS_Interval, Zenon
  <2> QED  BY <2>1, <2>2
<1>5. Cardinality(1..(NumSchemas - 1)) < Cardinality(2..(NumSchemas + 1))
  BY <1>4
<1> HIDE DEF holder
<1>6. PICK m, n \in 2..(NumSchemas + 1) : m # n /\ holder[m] = holder[n]
  BY <1>3, <1>4, <1>5, FS_PigeonHole
<1> QED  BY <1>1, <1>2, <1>6

\* The names tried for a schema differ, and still do without case or form.
LEMMA NamesTriedDiffer ==
  ASSUME NEW name \in Name, NEW m \in Suffixes \ {1}, NEW n \in Suffixes \ {1}, NEW system \in Systems
  PROVE  /\ Lower(FileName(name, m)) = Lower(FileName(name, n)) => m = n
         /\ Inode(system, FileName(name, m)) = Inode(system, FileName(name, n)) => m = n
<1>0. m \in Nat /\ n \in Nat /\ m # 1 /\ n # 1
  BY NumSchemasAssumption DEF Suffixes
<1>1. \A k \in {m, n} : FileName(name, k) \in Name /\ FileName(name, k).tail = Append(name.tail, k)
  BY <1>0 DEF FileName, With, Name
<1>2. \A f \in Name : Lower(f).tail = f.tail /\ Inode(system, f).tail = f.tail
  BY DEF Lower, Inode, With, Name, Systems
<1>3. Append(name.tail, m) = Append(name.tail, n) => m = n
  <2>1. name.tail \in Seq(Nat)
    BY DEF Name
  <2>2. \A k \in {m, n} : Append(name.tail, k)[Len(name.tail) + 1] = k
    BY <2>1, <1>0
  <2> QED  BY <2>2
<1> QED  BY <1>1, <1>2, <1>3

------------------------------------------------------------------------------
(***************************************************************************)
(* The inductive invariant.  The loops visit the schemas in order; names   *)
(* given differ in more than case, files opened are different files; what  *)
(* the loop has left behind is known; until something is warned of, it has *)
(* gaps exactly where reads have lost something silently.  If no two names *)
(* collide, no file has ever held another schema.                          *)
(***************************************************************************)
Done == selected \ todo
LowerOf(s) == Lower(FileName(naming.name[s], suffix[s]))
FileOf(s) == IdOf(s, suffix[s])
NamesDiffer(S) == \A s, t \in S : s # t => LowerOf(s) # LowerOf(t)
FilesDiffer(S) == \A s, t \in S : s # t => FileOf(s) # FileOf(t)

LoopsInOrder ==
  /\ pc \in {"name", "open", "list", "collect", "preamble", "write", "cross"} => todo # {}
  /\ pc = "finish" => todo = {}
  /\ pc = "open" => format # "excel"
  /\ pc \in {"preamble", "cross"} => format = "sql"
  /\ \A s \in Done, t \in todo : s < t

\* A gap in the output of s is told of, or lost silently.
Explained(s, gap) == warned \/ gap = (s \in silent)

BufferIsCurrent ==
  pc \in {"collect", "preamble", "write", "cross"} =>
    /\ buffer.owner = Current /\ buffer.rev = db[Current].rev
    /\ Explained(Current, buffer.gap)

SilentSoFar ==
  /\ pc \notin Writing => silent = {}
  /\ pc = "list" => silent \cap todo = {}
  /\ pc \in {"collect", "preamble", "write", "cross"} => silent \cap todo \subseteq {Current}

NamesApart ==
  /\ pc = "name" => NamesDiffer(Done)
  /\ pc = "open" /\ ~HasFileId(naming.system) => NamesDiffer(selected)
  /\ pc \in Writing /\ format = "excel" => NamesDiffer(selected)

FilesApart ==
  /\ pc = "open" => FilesDiffer(Done) /\ \A s \in Done : fs[Main(s)] = Empty
  /\ pc \in Writing /\ format # "excel" => FilesDiffer(selected)

EmptyToCome ==
  pc \in Writing /\ format # "excel" =>
    \A s \in todo : (pc = "cross" /\ s = Current) \/ fs[Main(s)] = Empty

\* What the loop leaves of schema s, with the given gap.
Output(s, gap) ==
  LET d == [owner |-> s, rev |-> db[s].rev, gap |-> gap]
  IN  /\ format = "excel" => d \in sheets
      /\ format # "excel" => fs[Main(s)] = Whole({d})
      /\ format = "sql" =>
           \/ fs[Cross(s)] = IF db[s].cross THEN Whole({d}) ELSE Absent
           \/ gap /\ fs[Cross(s)] = Absent

OutputSoFar ==
  /\ pc \in Writing =>
       \A s \in Done : \E gap \in BOOLEAN : Explained(s, gap) /\ Output(s, gap)
  /\ pc = "cross" => fs[Main(Current)] = Whole({buffer})

OwnersStay ==
  Apart =>
    /\ suffix = Plain
    /\ \A f \in Files : \A d \in fs[f].data : f[2] = IdOf(d.owner, 1)

IInv ==
  /\ TypeOK
  /\ LoopsInOrder
  /\ BufferIsCurrent
  /\ SilentSoFar
  /\ NamesApart
  /\ FilesApart
  /\ EmptyToCome
  /\ OutputSoFar
  /\ OwnersStay

------------------------------------------------------------------------------
\* Facts that many steps use

\* Names and files depend on the naming and the suffixes only.
LEMMA NamesStay ==
  ASSUME UNCHANGED naming
  PROVE  /\ \A s, n : IdOf(s, n)' = IdOf(s, n)
         /\ Ids' = Ids /\ Files' = Files /\ Apart' = Apart
<1>1. \A s, n : IdOf(s, n)' = IdOf(s, n)
  BY DEF IdOf
<1>2. Ids' = Ids
  BY <1>1 DEF Ids
<1>3. Apart' = Apart
  BY <1>1 DEF Apart
<1> QED  BY <1>1, <1>2, <1>3 DEF Files

LEMMA FilesStay ==
  ASSUME UNCHANGED <<naming, suffix>>
  PROVE  /\ \A s : Main(s)' = Main(s) /\ Cross(s)' = Cross(s)
         /\ \A s : LowerOf(s)' = LowerOf(s) /\ FileOf(s)' = FileOf(s)
BY DEF Main, Cross, LowerOf, FileOf, IdOf

\* The files of a schema are files, and different kinds of file.
LEMMA FilesOfSchema ==
  ASSUME TypeOK, NEW s \in Schemas
  PROVE  /\ \A n \in Suffixes : IdOf(s, n) \in Ids /\ <<"main", IdOf(s, n)>> \in Files
         /\ Main(s) \in Files /\ Cross(s) \in Files
         /\ \A t : Main(s) # Cross(t)
         /\ \A t : (Main(s) = Main(t) \/ Cross(s) = Cross(t)) => FileOf(s) = FileOf(t)
         /\ Main(s)[2] = FileOf(s) /\ Cross(s)[2] = FileOf(s)
<1>1. \A n \in Suffixes : IdOf(s, n) \in Ids
  BY DEF Ids
<1>2. suffix[s] \in Suffixes
  BY DEF TypeOK
<1> QED  BY <1>1, <1>2 DEF Files, Main, Cross, FileOf

\* The current schema is the first of those to come.
LEMMA CurrentIsFirst ==
  ASSUME TypeOK, todo # {}
  PROVE  Current \in todo /\ Current \in Schemas /\ \A t \in todo : Current <= t
<1>1. todo \subseteq Nat
  BY NumSchemasAssumption DEF TypeOK, Schemas
<1> QED  BY <1>1, MinIsLeast DEF Current, TypeOK

\* The schemas before it are those that the loop has visited.
LEMMA EarlierIsDone ==
  ASSUME TypeOK, LoopsInOrder, todo # {}
  PROVE  Earlier(Current) = Done
<1>1. selected \subseteq Nat
  BY NumSchemasAssumption DEF TypeOK, Schemas
<1> DEFINE c == Current
<1>2. c \in todo /\ \A t \in todo : c <= t
  BY CurrentIsFirst
<1> HIDE DEF c
<1>3. todo \subseteq selected /\ c \in Nat
  BY <1>1, <1>2 DEF TypeOK
<1>4. \A t \in selected \ todo : t < c
  BY <1>2 DEF LoopsInOrder, Done
<1>5. \A t \in todo : ~(t < c)
  BY <1>1, <1>2, <1>3
<1>6. {t \in selected : t < c} = selected \ todo
  BY <1>4, <1>5
<1> QED  BY <1>6 DEF Earlier, Done, c

\* Only the file of a schema whose data goes into it is written.
Owned(g) == \A f \in Files : \A d \in g[f].data : f[2] = IdOf(d.owner, 1)

LEMMA OwnedAfterWrite ==
  ASSUME Owned(fs), fs \in [Files -> Content], NEW f \in Files, NEW c \in Content,
         \A d \in c.data : f[2] = IdOf(d.owner, 1)
  PROVE  Owned([fs EXCEPT ![f] = c])
BY DEF Owned

LEMMA ContentTypes ==
  /\ Absent \in Content /\ Empty \in Content /\ Torn \in Content
  /\ \A d \in SUBSET Data : Whole(d) \in Content
  /\ Absent.data = {} /\ Empty.data = {} /\ Torn.data = {}
  /\ \A d : Whole(d).data = d
BY DEF Absent, Empty, Torn, Whole, Content, States

\* When the process ends, only what is on disk remains.
LEMMA EndIInv ==
  ASSUME IInv, NEW how \in {"ok", "strict", "error", "crashed"}, End(how),
         fs' \in [Files -> Content], workbook' \in Content, Apart => Owned(fs')
  PROVE  IInv'
<1> USE DEF End
<1>1. Ids' = Ids /\ Files' = Files /\ Apart' = Apart /\ \A s, n : IdOf(s, n)' = IdOf(s, n)
  BY NamesStay
<1>2. TypeOK'
  <2>1. Plain \in [Schemas -> Suffixes] /\ NoBuffer \in Data /\ All \subseteq Targets
    BY NumSchemasAssumption, BoundsAssumption DEF Plain, Suffixes, Schemas, NoBuffer, Data, Revs, All
  <2> QED  BY <1>1, <2>1 DEF TypeOK, IInv
<1>3. OwnersStay'
  BY <1>1 DEF OwnersStay, Owned, Plain
<1>4. /\ LoopsInOrder' /\ BufferIsCurrent' /\ SilentSoFar' /\ NamesApart' /\ FilesApart'
      /\ EmptyToCome' /\ OutputSoFar'
  BY DEF LoopsInOrder, BufferIsCurrent, SilentSoFar, NamesApart, FilesApart, EmptyToCome, OutputSoFar,
         Writing, Done
<1> QED  BY <1>2, <1>3, <1>4 DEF IInv

------------------------------------------------------------------------------
\* Each action keeps the invariant

LEMMA MigrateIInv == ASSUME IInv, NEW s \in Schemas, Migrate(s) PROVE IInv'
<1> USE DEF Migrate, memory
<1>1. Ids' = Ids /\ Files' = Files /\ Apart' = Apart /\ \A t, n : IdOf(t, n)' = IdOf(t, n)
  BY NamesStay
<1>2. TypeOK'
  <2>1. db' \in [Schemas -> [rev : Revs, cross : BOOLEAN]]
    BY BoundsAssumption DEF IInv, TypeOK, Revs
  <2> QED  BY <1>1, <2>1 DEF IInv, TypeOK
<1>3. OwnersStay'
  BY <1>1 DEF IInv, OwnersStay
<1>4. LoopsInOrder'
  BY DEF IInv, LoopsInOrder, Done
<1>5. BufferIsCurrent' /\ SilentSoFar' /\ NamesApart' /\ FilesApart' /\ EmptyToCome' /\ OutputSoFar'
  BY DEF IInv, BufferIsCurrent, SilentSoFar, NamesApart, FilesApart, EmptyToCome, OutputSoFar, Writing
<1> QED  BY <1>2, <1>3, <1>4, <1>5 DEF IInv

\* Before the exporter is set up nothing is named, open or written.
LEMMA PrepareIInv ==
  ASSUME IInv, Start \/ Configure \/ Connect \/ GetSchemas
  PROVE  IInv'
<1> USE DEF Start, Configure, Connect, GetSchemas, fixed
<1>1. /\ Ids' = Ids /\ Files' = Files /\ Apart' = Apart /\ \A t, n : IdOf(t, n)' = IdOf(t, n)
  BY NamesStay
<1>2. TypeOK'
  <2>1. Catalog \subseteq Schemas /\ All \subseteq Targets
    BY DEF Catalog, SystemSchema, Schemas, All
  <2>2. runs' \in 0..MaxRuns
    BY BoundsAssumption DEF IInv, TypeOK
  <2> QED  BY <1>1, <2>1, <2>2 DEF IInv, TypeOK
<1>3. OwnersStay'
  BY <1>1 DEF IInv, OwnersStay
<1>4. LoopsInOrder'
  BY DEF IInv, LoopsInOrder, Done
<1>5. NamesApart' 
  BY DEF NamesApart, Writing, Done, NamesDiffer
<1>6. BufferIsCurrent' /\ SilentSoFar' /\ FilesApart' /\ EmptyToCome' /\ OutputSoFar'
  BY DEF IInv, BufferIsCurrent, SilentSoFar, FilesApart, EmptyToCome, OutputSoFar, Writing
<1> QED  BY <1>2, <1>3, <1>4, <1>5, <1>6 DEF IInv

\* The next name is free, and the plain one if names do not collide.
LEMMA FirstFreeName ==
  ASSUME IInv, pc = "name", NEW n, n = Min({m \in Suffixes : FreeName(Current, m)})
  PROVE  n \in Suffixes /\ FreeName(Current, n) /\ (Apart => n = 1)
<1> DEFINE c == Current
           name == naming.name[c]
<1>1. c \in Schemas /\ c \in todo
  BY CurrentIsFirst DEF IInv, LoopsInOrder, c
<1>2. name \in Name /\ naming.system \in Systems
  BY <1>1, NamingsAssumption DEF IInv, TypeOK, Naming
<1>3. \E m \in Suffixes \ {1} : FreeName(c, m)
  <2> DEFINE key == [m \in Suffixes |-> Lower(FileName(name, m))]
             used == [t \in Schemas |-> LowerOf(t)]
  <2>1. \A l, m \in Suffixes \ {1} : key[l] = key[m] => l = m
    BY <1>2, NamesTriedDiffer
  <2> HIDE DEF c
  <2>2. PICK m \in Suffixes \ {1} : \A t \in Schemas : t < c => key[m] # used[t]
    <3> HIDE DEF key, used
    <3> QED  BY <1>1, <2>1, OneIsFree
  <2>3. Earlier(c) \subseteq {t \in Schemas : t < c}
    BY DEF Earlier, IInv, TypeOK
  <2> QED  BY <2>2, <2>3 DEF FreeName, LowerOf
<1>4. Suffixes \subseteq Nat
  BY NumSchemasAssumption DEF Suffixes
<1>5. n \in Suffixes /\ FreeName(c, n) /\ \A m \in Suffixes : FreeName(c, m) => n <= m
  <2> DEFINE S == {m \in Suffixes : FreeName(c, m)}
  <2>1. S \subseteq Nat /\ S # {}
    BY <1>3, <1>4
  <2>2. Min(S) \in S /\ \A m \in S : Min(S) <= m
    <3> HIDE DEF S
    <3> QED  BY <2>1, MinIsLeast
  <2> QED  BY <2>2
<1>6. Apart => FreeName(c, 1)
  <2> SUFFICES ASSUME Apart, NEW t \in Earlier(c)
               PROVE  Lower(FileName(name, 1)) # Lower(FileName(naming.name[t], suffix[t]))
    BY DEF FreeName
  <2>1. t \in Schemas /\ t # c
    BY <1>1, NumSchemasAssumption DEF Earlier, IInv, TypeOK, Schemas
  <2>2. suffix[t] = 1
    BY <2>1 DEF IInv, OwnersStay, Plain
  <2> QED  BY <1>1, <2>1, <2>2 DEF Apart, FileName
<1>7. Apart => n <= 1
  <2>1. 1 \in Suffixes
    BY NumSchemasAssumption DEF Suffixes
  <2> QED  BY <1>5, <1>6, <2>1
<1>8. n \in Suffixes => n >= 1 /\ n \in Nat
  BY NumSchemasAssumption DEF Suffixes
<1>9. Apart => n = 1
  BY <1>5, <1>7, <1>8
<1> QED  BY <1>5, <1>9 DEF c

LEMMA NameOutputIInv == ASSUME IInv, NameOutput PROVE IInv'
<1>c. PICK c, n : c = Current /\ n = Min({m \in Suffixes : FreeName(c, m)})
  OBVIOUS
<1>0. /\ pc = "name"
      /\ suffix' = [suffix EXCEPT ![c] = n]
      /\ warned' \in BOOLEAN
      /\ \/ todo = {c} /\ todo' = selected /\ pc' = IF format = "excel" THEN "list" ELSE "open"
         \/ todo # {c} /\ todo' = todo \ {c} /\ pc' = pc
      /\ UNCHANGED <<fixed, fs, workbook, asked, selected, sheets, buffer, silent, outcome>>
  BY <1>c DEF NameOutput, IInv, TypeOK
<1>1. c \in todo /\ c \in Schemas /\ \A t \in todo : c <= t
  BY <1>c, <1>0, CurrentIsFirst DEF IInv, LoopsInOrder
<1>2. n \in Suffixes /\ FreeName(c, n) /\ (Apart => n = 1)
  BY <1>c, <1>0, FirstFreeName
<1>3. Earlier(c) = Done
  BY <1>c, <1>0, <1>1, EarlierIsDone DEF IInv
<1>4. /\ Ids' = Ids /\ Files' = Files /\ Apart' = Apart /\ \A t, m : IdOf(t, m)' = IdOf(t, m)
  BY <1>0, NamesStay DEF fixed
<1>5. TypeOK'
  BY <1>0, <1>1, <1>2, <1>4 DEF IInv, TypeOK, fixed, Writing
<1>6. OwnersStay'
  BY <1>0, <1>2, <1>4 DEF IInv, OwnersStay, Plain, TypeOK
<1>7. selected \subseteq Schemas /\ todo \subseteq selected /\ selected \subseteq Nat
  BY NumSchemasAssumption DEF IInv, TypeOK, Schemas
<1>8. LoopsInOrder'
  <2>1. \A s \in Done', t \in todo' : s < t
    <3>1. CASE todo = {c}
      BY <1>0, <3>1 DEF Done
    <3>2. CASE todo # {c}
      <4>1. \A t \in todo \ {c} : c < t
        BY <1>1, <1>7
      <4>2. \A s \in Done, t \in todo : s < t
        BY DEF IInv, LoopsInOrder
      <4>3. Done' \subseteq Done \cup {c} /\ todo' = todo \ {c}
        BY <1>0, <3>2 DEF Done
      <4> QED  BY <4>1, <4>2, <4>3
    <3> QED  BY <3>1, <3>2
  <2>2. todo' # {}
    BY <1>0, <1>1, <1>7
  <2> QED  BY <1>0, <2>1, <2>2 DEF LoopsInOrder, fixed
<1>9. \A s, t \in Done \cup {c} : s # t => LowerOf(s)' # LowerOf(t)'
  <2>1. \A t \in Done : LowerOf(t)' = LowerOf(t) /\ t # c
    BY <1>0, <1>1, <1>7 DEF Done, LowerOf, fixed, IInv, TypeOK
  <2>2. LowerOf(c)' = Lower(FileName(naming.name[c], n))
    <3>1. naming' = naming /\ suffix'[c] = n
      BY <1>0, <1>1 DEF fixed, IInv, TypeOK
    <3> QED  BY <3>1 DEF LowerOf
  <2>3. \A t \in Done : LowerOf(c)' # LowerOf(t)'
    BY <1>2, <1>3, <2>1, <2>2 DEF FreeName, LowerOf
  <2>4. \A s, t \in Done : s # t => LowerOf(s)' # LowerOf(t)'
    BY <1>0, <2>1 DEF IInv, NamesApart, NamesDiffer
  <2> QED  BY <2>3, <2>4
<1>10. NamesApart'
  <2>1. Done' \subseteq Done \cup {c}
    BY <1>0 DEF Done
  <2>2. todo = {c} => selected' \subseteq Done \cup {c}
    BY <1>0 DEF Done
  <2>3. NamesDiffer(Done)'
    BY <1>9, <2>1 DEF NamesDiffer
  <2>4. todo = {c} => NamesDiffer(selected)'
    BY <1>9, <2>2 DEF NamesDiffer
  <2> QED  BY <1>0, <2>3, <2>4 DEF NamesApart, Writing
<1>11. BufferIsCurrent' /\ SilentSoFar' /\ FilesApart' /\ EmptyToCome' /\ OutputSoFar'
  BY <1>0 DEF IInv, BufferIsCurrent, SilentSoFar, FilesApart, EmptyToCome, OutputSoFar, Writing,
              FilesDiffer, Done, fixed
<1> QED  BY <1>5, <1>6, <1>8, <1>10, <1>11 DEF IInv

\* The file opened is free, and that of the plain name if names do not collide.
LEMMA FirstFreeFile ==
  ASSUME IInv, pc = "open", NEW c, c = Current,
         NEW n, n = IF FreeFile(c, suffix[c]) THEN suffix[c]
                    ELSE Min({m \in Suffixes \ {1} : FreeFile(c, m)})
  PROVE  /\ n \in Suffixes /\ FreeFile(c, n)
         /\ Apart => n = 1
         /\ ~HasFileId(naming.system) => n = suffix[c]
<1> DEFINE name == naming.name[c]
<1>1. c \in Schemas /\ c \in todo
  BY CurrentIsFirst DEF IInv, LoopsInOrder
<1>2. name \in Name /\ naming.system \in Systems
  BY <1>1, NamingsAssumption DEF IInv, TypeOK, Naming
<1>3. \E m \in Suffixes \ {1} : FreeFile(c, m)
  <2> DEFINE key == [m \in Suffixes |-> IdOf(c, m)]
             used == [t \in Schemas |-> IdOf(t, suffix[t])]
  <2>1. \A l, m \in Suffixes \ {1} : key[l] = key[m] => l = m
    BY <1>2, NamesTriedDiffer DEF IdOf
  <2>2. PICK m \in Suffixes \ {1} : \A t \in Schemas : t < c => key[m] # used[t]
    <3> HIDE DEF key, used
    <3> QED  BY <1>1, <2>1, OneIsFree
  <2>3. Earlier(c) \subseteq {t \in Schemas : t < c}
    BY DEF Earlier, IInv, TypeOK
  <2> QED  BY <2>2, <2>3 DEF FreeFile
<1>4. Min({m \in Suffixes \ {1} : FreeFile(c, m)}) \in {m \in Suffixes \ {1} : FreeFile(c, m)}
  <2> DEFINE S == {m \in Suffixes \ {1} : FreeFile(c, m)}
  <2>1. S \subseteq Nat /\ S # {}
    BY <1>3, NumSchemasAssumption DEF Suffixes
  <2> HIDE DEF S
  <2>2. Min(S) \in S
    BY <2>1, MinIsLeast
  <2> QED  BY <2>2 DEF S
<1>5. suffix[c] \in Suffixes
  BY <1>1 DEF IInv, TypeOK
<1>6. ~HasFileId(naming.system) => FreeFile(c, suffix[c])
  BY DEF FreeFile
<1>7. Apart => FreeFile(c, suffix[c]) /\ suffix[c] = 1
  <2> SUFFICES ASSUME Apart PROVE FreeFile(c, suffix[c]) /\ suffix[c] = 1
    OBVIOUS
  <2>1. \A t \in Schemas : suffix[t] = 1
    BY DEF IInv, OwnersStay, Plain
  <2>2. \A t \in Earlier(c) : t \in Schemas /\ t # c
    BY <1>1, NumSchemasAssumption DEF Earlier, IInv, TypeOK, Schemas
  <2> QED  BY <1>1, <2>1, <2>2 DEF Apart, FreeFile
<1> QED  BY <1>4, <1>5, <1>6, <1>7

LEMMA OpenFileIInv == ASSUME IInv, OpenFile PROVE IInv'
<1>c. PICK c, n : /\ c = Current
                  /\ n = IF FreeFile(c, suffix[c]) THEN suffix[c]
                         ELSE Min({m \in Suffixes \ {1} : FreeFile(c, m)})
  OBVIOUS
<1>0. /\ pc = "open"
      /\ suffix' = [suffix EXCEPT ![c] = n]
      /\ fs' = [fs EXCEPT ![<<"main", IdOf(c, n)>>] = Empty]
      /\ warned' \in BOOLEAN
      /\ \/ todo = {c} /\ todo' = selected /\ pc' = "list"
         \/ todo # {c} /\ todo' = todo \ {c} /\ pc' = pc
      /\ UNCHANGED <<fixed, workbook, asked, selected, sheets, buffer, silent, outcome>>
  BY <1>c DEF OpenFile, IInv, TypeOK
<1>1. c \in todo /\ c \in Schemas /\ \A t \in todo : c <= t
  BY <1>c, <1>0, CurrentIsFirst DEF IInv, LoopsInOrder
<1>2. /\ n \in Suffixes /\ FreeFile(c, n) /\ (Apart => n = 1)
      /\ ~HasFileId(naming.system) => n = suffix[c]
  BY <1>c, <1>0, FirstFreeFile
<1>3. Earlier(c) = Done
  BY <1>c, <1>0, <1>1, EarlierIsDone DEF IInv
<1>4. /\ Ids' = Ids /\ Files' = Files /\ Apart' = Apart /\ \A t, m : IdOf(t, m)' = IdOf(t, m)
  BY <1>0, NamesStay DEF fixed
<1>5. <<"main", IdOf(c, n)>> \in Files
  BY <1>1, <1>2, FilesOfSchema DEF IInv
<1>6. TypeOK'
  BY <1>0, <1>1, <1>2, <1>4, <1>5, ContentTypes DEF IInv, TypeOK, fixed, Writing
<1>7. OwnersStay'
  <2>1. Apart => Owned(fs)
    BY DEF IInv, OwnersStay, Owned
  <2>2. Apart => Owned(fs')
    BY <1>0, <1>5, <2>1, ContentTypes, OwnedAfterWrite DEF IInv, TypeOK
  <2>3. Apart => suffix' = Plain
    BY <1>0, <1>2 DEF IInv, OwnersStay, Plain
  <2> QED  BY <1>4, <2>2, <2>3 DEF OwnersStay, Owned, Plain
<1>8. selected \subseteq Schemas /\ todo \subseteq selected /\ selected \subseteq Nat
  BY NumSchemasAssumption DEF IInv, TypeOK, Schemas
<1>9. LoopsInOrder'
  <2>1. \A s \in Done', t \in todo' : s < t
    <3>1. CASE todo = {c}
      BY <1>0, <3>1 DEF Done
    <3>2. CASE todo # {c}
      <4>1. \A t \in todo \ {c} : c < t
        BY <1>1, <1>8
      <4>2. \A s \in Done, t \in todo : s < t
        BY DEF IInv, LoopsInOrder
      <4>3. Done' \subseteq Done \cup {c} /\ todo' = todo \ {c}
        BY <1>0, <3>2 DEF Done
      <4> QED  BY <4>1, <4>2, <4>3
    <3> QED  BY <3>1, <3>2
  <2>2. todo' # {}
    BY <1>0, <1>1, <1>8
  <2>3. format' # "excel"
    BY <1>0 DEF IInv, LoopsInOrder, fixed
  <2> QED  BY <1>0, <2>1, <2>2, <2>3 DEF LoopsInOrder
<1>10. \A t \in Done : FileOf(t)' = FileOf(t) /\ t # c /\ t \in Schemas
  BY <1>0, <1>1, <1>4, <1>8 DEF Done, FileOf, IInv, TypeOK
<1>11. FileOf(c)' = IdOf(c, n)
  <2>1. suffix'[c] = n
    BY <1>0, <1>1 DEF IInv, TypeOK
  <2> QED  BY <1>4, <2>1 DEF FileOf
<1>12. NamesApart'
  <2>1. ~HasFileId(naming.system) => NamesDiffer(selected)'
    <3> SUFFICES ASSUME ~HasFileId(naming.system) PROVE NamesDiffer(selected)'
      OBVIOUS
    <3>1. suffix' = suffix
      BY <1>0, <1>2 DEF IInv, TypeOK
    <3>2. \A s : LowerOf(s)' = LowerOf(s)
      BY <1>0, <3>1, FilesStay DEF fixed
    <3> QED  BY <1>0, <3>2 DEF IInv, NamesApart, NamesDiffer
  <2>2. format' # "excel" /\ naming' = naming
    BY <1>0 DEF IInv, LoopsInOrder, fixed
  <2> QED  BY <1>0, <2>1, <2>2 DEF NamesApart
<1>13. \A s, t \in Done \cup {c} : s # t => FileOf(s)' # FileOf(t)'
  <2>1. \A t \in Done : FileOf(c)' # FileOf(t)'
    <3>1. CASE HasFileId(naming.system)
      BY <1>2, <1>3, <1>10, <1>11, <3>1 DEF FreeFile, FileOf
    <3>2. CASE ~HasFileId(naming.system)
      <4>1. \A s : FileOf(s) = LowerOf(s)
        BY <3>2 DEF FileOf, LowerOf, IdOf, Inode, HasFileId
      <4>2. NamesDiffer(selected) /\ Done \subseteq selected /\ c \in selected
        BY <1>0, <1>1, <1>8, <3>2 DEF IInv, NamesApart, Done
      <4>3. FileOf(c)' = FileOf(c)
        BY <1>2, <1>11, <3>2 DEF FileOf
      <4> QED  BY <1>10, <4>1, <4>2, <4>3 DEF NamesDiffer
    <3> QED  BY <3>1, <3>2
  <2>2. \A s, t \in Done : s # t => FileOf(s)' # FileOf(t)'
    BY <1>0, <1>10 DEF IInv, FilesApart, FilesDiffer
  <2> QED  BY <2>1, <2>2
<1>14. \A t \in Done \cup {c} : fs'[Main(t)'] = Empty
  <2>1. \A t : Main(t)' = <<"main", FileOf(t)'>> /\ Main(t) = <<"main", FileOf(t)>>
    BY DEF Main, FileOf
  <2>2. fs'[Main(c)'] = Empty
    BY <1>0, <1>5, <1>11, <2>1 DEF IInv, TypeOK
  <2>3. ASSUME NEW t \in Done PROVE fs'[Main(t)'] = Empty
    <3>1. Main(t)' = Main(t) /\ Main(t) \in Files /\ fs[Main(t)] = Empty
      BY <1>0, <1>10, <2>1, FilesOfSchema DEF IInv, FilesApart
    <3>2. Main(t) # <<"main", IdOf(c, n)>>
      BY <1>10, <1>11, <1>13, <2>1
    <3> QED  BY <1>0, <3>1, <3>2 DEF IInv, TypeOK
  <2> QED  BY <2>2, <2>3
<1>15. Done' \subseteq Done \cup {c} /\ (todo = {c} => selected' \subseteq Done \cup {c})
  BY <1>0 DEF Done
<1>16. FilesApart'
  <2>1. FilesDiffer(Done)' /\ \A t \in Done' : fs'[Main(t)'] = Empty
    BY <1>13, <1>14, <1>15 DEF FilesDiffer
  <2>2. todo = {c} => FilesDiffer(selected)'
    BY <1>13, <1>15 DEF FilesDiffer
  <2> QED  BY <1>0, <2>1, <2>2 DEF FilesApart, Writing
<1>17. EmptyToCome'
  BY <1>0, <1>14, <1>15 DEF EmptyToCome, Writing
<1>18. BufferIsCurrent' /\ SilentSoFar' /\ OutputSoFar'
  BY <1>0 DEF IInv, BufferIsCurrent, SilentSoFar, OutputSoFar, Writing, Done
<1> QED  BY <1>6, <1>7, <1>9, <1>12, <1>16, <1>17, <1>18 DEF IInv

\* Reading a schema changes no file; what it loses is warned of or lost silently.
LEMMA ReadIInv ==
  ASSUME IInv, ListTables \/ Collect \/ Preamble
  PROVE  IInv'
<1>0. /\ pc \in {"list", "collect", "preamble"} /\ pc' \in {"collect", "preamble", "write"}
      /\ pc' = "preamble" => format = "sql"
      /\ warned' \in BOOLEAN /\ (warned => warned')
      /\ silent' = silent \/ silent' = silent \cup {Current}
      /\ UNCHANGED <<fixed, fs, workbook, asked, selected, todo, suffix, sheets, outcome>>
  BY DEF ListTables, Collect, Preamble, Lose, IInv, TypeOK
<1>1. /\ todo # {} /\ Current \in todo /\ Current \in Schemas
      /\ Current' = Current
  BY <1>0, CurrentIsFirst DEF IInv, LoopsInOrder, Current
<1>2. /\ Ids' = Ids /\ Files' = Files /\ Apart' = Apart /\ \A t, m : IdOf(t, m)' = IdOf(t, m)
  BY <1>0, NamesStay DEF fixed
<1>3. /\ \A s : Main(s)' = Main(s) /\ Cross(s)' = Cross(s)
      /\ \A s : LowerOf(s)' = LowerOf(s) /\ FileOf(s)' = FileOf(s)
  BY <1>0, FilesStay DEF fixed
<1>4. buffer' \in Data /\ BufferIsCurrent'
  <2>1. CASE ListTables
    <3>1. PICK told \in BOOLEAN, untold \in BOOLEAN :
            /\ buffer' = [owner |-> Current, rev |-> db[Current].rev, gap |-> told \/ untold]
            /\ warned' = (warned \/ told)
            /\ silent' = IF untold THEN silent \cup {Current} ELSE silent
      BY <2>1 DEF ListTables, Lose
    <3>2. Current \notin silent
      BY <1>1, <2>1 DEF ListTables, IInv, SilentSoFar
    <3>3. warned' \/ (told \/ untold) = (Current \in silent')
      BY <3>1, <3>2
    <3>4. db[Current].rev \in Revs
      BY <1>1 DEF IInv, TypeOK
    <3>5. /\ buffer' \in Data /\ buffer'.owner = Current /\ buffer'.rev = db[Current].rev
          /\ buffer'.gap = (told \/ untold)
      BY <1>1, <3>1, <3>4 DEF Data
    <3> QED  BY <1>0, <1>1, <3>3, <3>5 DEF BufferIsCurrent, Explained, fixed
  <2>2. CASE Collect \/ Preamble
    <3>1. PICK told \in BOOLEAN, untold \in BOOLEAN :
            /\ buffer' = [buffer EXCEPT !.gap = @ \/ told \/ untold]
            /\ told => warned'
            /\ silent' = IF untold THEN silent \cup {Current} ELSE silent
      BY <2>2 DEF Collect, Preamble, Lose
    <3>2. buffer \in Data
      BY DEF IInv, TypeOK
    <3>3. /\ buffer'.owner = buffer.owner /\ buffer'.rev = buffer.rev
          /\ buffer'.gap = (buffer.gap \/ told \/ untold) /\ buffer' \in Data
      BY <3>1, <3>2 DEF Data
    <3>4. pc \in {"collect", "preamble"}
      BY <2>2 DEF Collect, Preamble
    <3>5. /\ buffer.owner = Current /\ buffer.rev = db[Current].rev
          /\ warned \/ buffer.gap = (Current \in silent)
      BY <3>4 DEF IInv, BufferIsCurrent, Explained
    <3>6. warned' \/ buffer'.gap = (Current \in silent')
      <4>1. CASE untold
        BY <3>1, <3>3, <4>1
      <4>2. CASE told
        BY <3>1, <4>2
      <4>3. CASE ~untold /\ ~told
        <5>1. buffer'.gap = buffer.gap /\ silent' = silent
          BY <3>1, <3>2, <3>3, <4>3 DEF Data
        <5> QED  BY <1>0, <3>5, <5>1
      <4> QED  BY <4>1, <4>2, <4>3
    <3> QED  BY <1>0, <1>1, <3>3, <3>5, <3>6 DEF BufferIsCurrent, Explained, fixed
  <2> QED  BY <2>1, <2>2
<1>11. SilentSoFar'
  <2>1. silent \cap todo \subseteq {Current}
    BY <1>0 DEF IInv, SilentSoFar
  <2>2. (silent \cap todo)' \subseteq {Current}
    BY <1>0, <2>1
  <2> QED  BY <1>0, <1>1, <2>2 DEF SilentSoFar, Writing
<1>5. TypeOK'
  BY <1>0, <1>1, <1>2, <1>4 DEF IInv, TypeOK, fixed, Writing
<1>6. OwnersStay'
  BY <1>0, <1>2 DEF IInv, OwnersStay
<1>7. LoopsInOrder'
  BY <1>0, <1>1 DEF IInv, LoopsInOrder, Done, fixed
<1>8. NamesApart' /\ FilesApart'
  BY <1>0, <1>3 DEF IInv, NamesApart, FilesApart, NamesDiffer, FilesDiffer, Writing, fixed
<1>9. EmptyToCome'
  BY <1>0, <1>1, <1>3 DEF IInv, EmptyToCome, Writing, fixed
<1>10. OutputSoFar'
  <2>1. \A s, gap : Output(s, gap)' = Output(s, gap)
    BY <1>0, <1>3 DEF Output, fixed
  <2>2. \A s \in Done : s # Current /\ (s \in silent' <=> s \in silent)
    BY <1>0, <1>1 DEF Done
  <2>3. \A s \in Done, gap \in BOOLEAN : Explained(s, gap) => Explained(s, gap)'
    BY <1>0, <2>2 DEF Explained
  <2>4. \A s \in Done : \E gap \in BOOLEAN : Explained(s, gap) /\ Output(s, gap)
    BY <1>0 DEF IInv, OutputSoFar, Writing
  <2>5. Done' = Done /\ pc' # "cross"
    BY <1>0 DEF Done
  <2> QED  BY <2>1, <2>3, <2>4, <2>5 DEF OutputSoFar
<1> QED  BY <1>4, <1>5, <1>6, <1>7, <1>8, <1>9, <1>10, <1>11 DEF IInv

\* The loop goes on to the next schema: those before stay in order.
LEMMA NextSchemaInOrder ==
  ASSUME IInv, pc \in {"write", "cross"}, NextSchema, UNCHANGED <<selected, format>>
  PROVE  /\ LoopsInOrder' /\ todo' \subseteq selected
         /\ Done' = Done \cup {Current}
         /\ Current \notin todo'
         /\ UNCHANGED silent => SilentSoFar'
<1>1. Current \in todo /\ \A t \in todo : Current <= t
  BY CurrentIsFirst DEF IInv, LoopsInOrder
<1>2. PICK c : c = Current
  OBVIOUS
<1>3. selected \subseteq Nat /\ todo \subseteq selected
  BY NumSchemasAssumption DEF IInv, TypeOK, Schemas
<1>4. todo' = todo \ {c} /\ pc' = IF todo' = {} THEN "finish" ELSE "list"
  BY <1>2 DEF NextSchema
<1>5. Done' = Done \cup {c}
  BY <1>1, <1>2, <1>3, <1>4 DEF Done
<1>6. \A t \in todo \ {c} : c < t
  BY <1>1, <1>2, <1>3
<1>7. \A s \in Done', t \in todo' : s < t
  BY <1>4, <1>5, <1>6 DEF IInv, LoopsInOrder
<1>8. silent' = silent => SilentSoFar'
  <2>1. silent \cap todo \subseteq {c}
    BY <1>2 DEF IInv, SilentSoFar
  <2> QED  BY <1>4, <2>1 DEF SilentSoFar, Writing
<1> QED  BY <1>2, <1>3, <1>4, <1>5, <1>7, <1>8 DEF LoopsInOrder

\* Writing a file of one schema leaves the files of the others alone.
LEMMA OthersStay ==
  ASSUME IInv, pc \in Writing, format # "excel",
         NEW c \in selected, NEW v, fs' = [fs EXCEPT ![Main(c)] = v] \/ fs' = [fs EXCEPT ![Cross(c)] = v]
  PROVE  \A t \in selected : t # c => fs'[Main(t)] = fs[Main(t)] /\ fs'[Cross(t)] = fs[Cross(t)]
<1>1. \A t \in selected : t # c => FileOf(t) # FileOf(c)
  BY DEF IInv, FilesApart, FilesDiffer
<1>2. selected \subseteq Schemas /\ fs \in [Files -> Content]
  BY DEF IInv, TypeOK
<1>3. TypeOK
  BY DEF IInv
<1> SUFFICES ASSUME NEW t \in selected, t # c
             PROVE  fs'[Main(t)] = fs[Main(t)] /\ fs'[Cross(t)] = fs[Cross(t)]
  OBVIOUS
<1>4. Main(t) # Main(c) /\ Main(t) # Cross(c) /\ Cross(t) # Main(c) /\ Cross(t) # Cross(c)
  BY <1>1, <1>2, <1>3, FilesOfSchema
<1>5. Main(t) \in Files /\ Cross(t) \in Files
  BY <1>2, <1>3, FilesOfSchema
<1> QED  BY <1>2, <1>4, <1>5

LEMMA WriteTablesIInv == ASSUME IInv, WriteTables PROVE IInv'
<1>c. PICK c, b : c = Current /\ b = buffer'
  OBVIOUS
<1>0. /\ pc = "write" /\ UNCHANGED <<fixed, workbook, asked, selected, suffix, silent, outcome>>
      /\ IF format = "excel"
         THEN sheets' = sheets \cup {b} /\ UNCHANGED fs
         ELSE fs' = [fs EXCEPT ![Main(c)] = Whole({b})] /\ UNCHANGED sheets
      /\ IF format = "sql" THEN pc' = "cross" /\ UNCHANGED todo ELSE NextSchema
  BY <1>c DEF WriteTables
<1>1. /\ todo # {} /\ c \in todo /\ c \in selected /\ c \in Schemas
  BY <1>c, <1>0, CurrentIsFirst DEF IInv, LoopsInOrder, TypeOK
<1>2. /\ b \in Data /\ b.owner = c /\ b.rev = db[c].rev /\ Explained(c, b.gap)'
      /\ warned' \in BOOLEAN /\ (warned => warned')
  <2>1. PICK skipped \in BOOLEAN : b = [buffer EXCEPT !.gap = @ \/ skipped]
                                  /\ warned' = (warned \/ skipped)
    BY <1>c DEF WriteTables
  <2>2. buffer \in Data /\ warned \in BOOLEAN
    BY DEF IInv, TypeOK
  <2>3. b.owner = buffer.owner /\ b.rev = buffer.rev /\ b.gap = (buffer.gap \/ skipped) /\ b \in Data
    BY <2>1, <2>2 DEF Data
  <2>4. buffer.owner = c /\ buffer.rev = db[c].rev /\ (warned \/ buffer.gap = (c \in silent))
    BY <1>c, <1>0 DEF IInv, BufferIsCurrent, Explained
  <2>5. warned' \/ b.gap = (c \in silent')
    <3>1. CASE skipped
      BY <2>1, <3>1
    <3>2. CASE ~skipped
      <4>1. b.gap = buffer.gap /\ warned' = warned
        BY <2>1, <2>2, <2>3, <3>2 DEF Data
      <4> QED  BY <1>0, <2>4, <4>1
    <3> QED  BY <3>1, <3>2
  <2>6. Explained(c, b.gap)'
    BY <1>c, <2>5 DEF Explained
  <2> QED  BY <2>1, <2>2, <2>3, <2>4, <2>6
<1>3. b = [owner |-> c, rev |-> db[c].rev, gap |-> b.gap] /\ b.gap \in BOOLEAN
  BY <1>2 DEF Data
<1>4. /\ Ids' = Ids /\ Files' = Files /\ Apart' = Apart /\ \A t, m : IdOf(t, m)' = IdOf(t, m)
  BY <1>0, NamesStay DEF fixed
<1>5. /\ \A s : Main(s)' = Main(s) /\ Cross(s)' = Cross(s)
      /\ \A s : LowerOf(s)' = LowerOf(s) /\ FileOf(s)' = FileOf(s)
  BY <1>0, FilesStay DEF fixed
<1>6. Main(c) \in Files /\ Main(c)[2] = FileOf(c) /\ Whole({b}) \in Content
  BY <1>1, <1>2, FilesOfSchema, ContentTypes DEF IInv
<1>7. /\ LoopsInOrder' /\ SilentSoFar' /\ todo' \subseteq selected
      /\ pc' \in {"cross", "list", "finish"}
      /\ format # "sql" => pc' # "cross" /\ Done' = Done \cup {c}
  <2>1. CASE format = "sql"
    BY <1>0, <1>1, <2>1 DEF IInv, LoopsInOrder, SilentSoFar, Writing, Current, Done, TypeOK, fixed
  <2>2. CASE format # "sql"
    BY <1>0, <1>c, <2>2, NextSchemaInOrder DEF fixed, NextSchema
  <2> QED  BY <2>1, <2>2
<1>8. TypeOK'
  <2>1. fs' \in [Files -> Content] /\ sheets' \subseteq Data /\ todo' \subseteq selected
    BY <1>0, <1>2, <1>6, <1>7 DEF IInv, TypeOK
  <2>2. buffer' \in Data /\ warned' \in BOOLEAN
    BY <1>c, <1>2
  <2> QED  BY <1>0, <1>4, <1>7, <2>1, <2>2 DEF IInv, TypeOK, fixed, Writing
<1>9. OwnersStay'
  <2> SUFFICES ASSUME Apart PROVE Owned(fs') /\ suffix = Plain
    BY <1>0, <1>4 DEF OwnersStay, Owned, Plain
  <2>1. Owned(fs) /\ suffix = Plain
    BY DEF IInv, OwnersStay, Owned
  <2>2. \A d \in Whole({b}).data : Main(c)[2] = IdOf(d.owner, 1)
    BY <1>1, <1>2, <1>6, <2>1, ContentTypes DEF FileOf, Plain
  <2> QED  BY <1>0, <1>6, <2>1, <2>2, OwnedAfterWrite DEF IInv, TypeOK
<1>10. NamesApart' /\ FilesApart'
  BY <1>0, <1>5, <1>7 DEF IInv, NamesApart, FilesApart, NamesDiffer, FilesDiffer, Writing, fixed
<1>11. format # "excel" => /\ \A t \in selected : t # c => fs'[Main(t)] = fs[Main(t)] /\ fs'[Cross(t)] = fs[Cross(t)]
                           /\ fs'[Main(c)] = Whole({b})
  <2>1. format # "excel" => \A t \in selected : t # c => fs'[Main(t)] = fs[Main(t)] /\ fs'[Cross(t)] = fs[Cross(t)]
    BY <1>0, <1>1, OthersStay DEF Writing
  <2>2. format # "excel" => fs'[Main(c)] = Whole({b})
    BY <1>0, <1>6 DEF IInv, TypeOK
  <2> QED  BY <2>1, <2>2
<1>12. format = "sql" => Current' = Current /\ Done' = Done
  BY <1>0 DEF Current, Done
<1>13. BufferIsCurrent'
  BY <1>0, <1>c, <1>2, <1>7, <1>12 DEF BufferIsCurrent, fixed
<1>14. EmptyToCome'
  <2> SUFFICES ASSUME format # "excel", NEW s \in todo', ~(pc' = "cross" /\ s = Current')
               PROVE  fs'[Main(s)] = Empty
    BY <1>0, <1>5 DEF EmptyToCome, fixed
  <2>1. s # c
    <3>1. CASE format = "sql"
      BY <1>0, <1>c, <1>12, <3>1
    <3>2. CASE format # "sql"
      BY <1>0, <1>c, <3>2, NextSchemaInOrder DEF fixed
    <3> QED  BY <3>1, <3>2
  <2>2. s \in todo /\ s \in selected
    BY <1>0, <1>7 DEF NextSchema, IInv, TypeOK
  <2>3. fs[Main(s)] = Empty
    BY <1>0, <2>2 DEF IInv, EmptyToCome, Writing
  <2> QED  BY <1>11, <2>1, <2>2, <2>3
<1>15. OutputSoFar'
  <2>1. \A s \in Done : \E gap \in BOOLEAN : Explained(s, gap)' /\ Output(s, gap)'
    <3> TAKE s \in Done
    <3>1. PICK gap \in BOOLEAN : Explained(s, gap) /\ Output(s, gap)
      BY <1>0 DEF IInv, OutputSoFar, Writing
    <3>2. s \in selected /\ s # c
      BY <1>1 DEF Done
    <3>3. Output(s, gap)'
      BY <1>0, <1>5, <1>11, <3>1, <3>2 DEF Output, fixed
    <3>4. Explained(s, gap)'
      BY <1>0, <1>2, <3>1 DEF Explained
    <3> QED  BY <3>3, <3>4
  <2>2. format # "sql" => Output(c, b.gap)'
    BY <1>0, <1>3, <1>5, <1>11 DEF Output, fixed
  <2>3. pc' = "cross" => fs'[Main(Current)'] = Whole({buffer'})
    <3> SUFFICES ASSUME pc' = "cross" PROVE fs'[Main(Current)'] = Whole({b})
      BY <1>c
    <3>1. format = "sql"
      BY <1>7
    <3>2. Main(Current)' = Main(c)
      BY <1>0, <1>c, <1>12, <3>1 DEF Main, IdOf, fixed
    <3> QED  BY <1>11, <3>1, <3>2
  <2>4. \A s \in Done' : \E gap \in BOOLEAN : Explained(s, gap)' /\ Output(s, gap)'
    BY <1>2, <1>3, <1>7, <1>12, <2>1, <2>2
  <2> QED  BY <2>3, <2>4 DEF OutputSoFar
<1> QED  BY <1>7, <1>8, <1>9, <1>10, <1>13, <1>14, <1>15 DEF IInv

LEMMA WriteCrossIInv == ASSUME IInv, WriteCross PROVE IInv'
<1>c. PICK c : c = Current
  OBVIOUS
<1>0. /\ pc = "cross" /\ format = "sql" /\ NextSchema
      /\ UNCHANGED <<fixed, workbook, asked, selected, suffix, sheets, buffer, warned, silent, outcome>>
  BY DEF WriteCross, IInv, LoopsInOrder
<1>1. /\ todo # {} /\ c \in todo /\ c \in selected /\ c \in Schemas
  BY <1>c, <1>0, CurrentIsFirst DEF IInv, LoopsInOrder, TypeOK
<1>2. /\ buffer \in Data /\ buffer.owner = c /\ buffer.rev = db[c].rev /\ Explained(c, buffer.gap)
      /\ fs[Main(c)] = Whole({buffer})
  BY <1>c, <1>0 DEF IInv, TypeOK, BufferIsCurrent, OutputSoFar
<1>3. PICK v : /\ \/ v = Absent /\ (db[c].cross => buffer.gap)
                  \/ v = Whole({buffer}) /\ db[c].cross
               /\ fs' = [fs EXCEPT ![Cross(c)] = v]
  <2>1. PICK lost \in BOOLEAN :
          /\ lost => buffer.gap
          /\ fs' = [fs EXCEPT ![Cross(c)] = IF db[c].cross /\ ~lost THEN Whole({buffer}) ELSE Absent]
    BY <1>c DEF WriteCross
  <2>2. CASE db[c].cross /\ ~lost  BY <2>1, <2>2
  <2>3. CASE ~(db[c].cross /\ ~lost)  BY <2>1, <2>3
  <2> QED  BY <2>2, <2>3
<1>4. /\ Ids' = Ids /\ Files' = Files /\ Apart' = Apart /\ \A t, m : IdOf(t, m)' = IdOf(t, m)
  BY <1>0, NamesStay DEF fixed
<1>5. /\ \A s : Main(s)' = Main(s) /\ Cross(s)' = Cross(s)
      /\ \A s : LowerOf(s)' = LowerOf(s) /\ FileOf(s)' = FileOf(s)
  BY <1>0, FilesStay DEF fixed
<1>6. /\ Main(c) \in Files /\ Cross(c) \in Files /\ Main(c) # Cross(c)
      /\ Cross(c)[2] = FileOf(c) /\ v \in Content
  BY <1>1, <1>2, <1>3, FilesOfSchema, ContentTypes DEF IInv
<1>7. /\ LoopsInOrder' /\ SilentSoFar' /\ todo' \subseteq selected
      /\ Done' = Done \cup {c} /\ c \notin todo'
      /\ pc' \in {"list", "finish"} /\ todo' = todo \ {c}
  BY <1>c, <1>0, NextSchemaInOrder DEF fixed, NextSchema
<1>8. TypeOK'
  BY <1>0, <1>3, <1>4, <1>6, <1>7 DEF IInv, TypeOK, fixed, Writing
<1>9. OwnersStay'
  <2> SUFFICES ASSUME Apart PROVE Owned(fs') /\ suffix = Plain
    BY <1>0, <1>4 DEF OwnersStay, Owned, Plain
  <2>1. Owned(fs) /\ suffix = Plain
    BY DEF IInv, OwnersStay, Owned
  <2>2. \A d \in v.data : Cross(c)[2] = IdOf(d.owner, 1)
    BY <1>1, <1>2, <1>3, <1>6, <2>1, ContentTypes DEF FileOf, Plain
  <2> QED  BY <1>3, <1>6, <2>1, <2>2, OwnedAfterWrite DEF IInv, TypeOK
<1>10. NamesApart' /\ FilesApart' /\ BufferIsCurrent'
  BY <1>0, <1>5, <1>7 DEF IInv, NamesApart, FilesApart, NamesDiffer, FilesDiffer, Writing, fixed,
                          BufferIsCurrent
<1>11. \A t \in selected : t # c => fs'[Main(t)] = fs[Main(t)] /\ fs'[Cross(t)] = fs[Cross(t)]
  BY <1>0, <1>1, <1>3, OthersStay DEF Writing
<1>12. fs'[Main(c)] = fs[Main(c)] /\ fs'[Cross(c)] = v
  BY <1>3, <1>6 DEF IInv, TypeOK
<1>13. EmptyToCome'
  <2> SUFFICES ASSUME NEW s \in todo' PROVE fs'[Main(s)] = Empty
    BY <1>5 DEF EmptyToCome
  <2>1. s \in todo /\ s # c /\ s \in selected
    BY <1>7
  <2> QED  BY <1>0, <1>c, <1>11, <2>1 DEF IInv, EmptyToCome, Writing
<1>14. OutputSoFar'
  <2>1. \A s \in Done : \E gap \in BOOLEAN : Explained(s, gap)' /\ Output(s, gap)'
    <3> TAKE s \in Done
    <3>1. PICK gap \in BOOLEAN : Explained(s, gap) /\ Output(s, gap)
      BY <1>0 DEF IInv, OutputSoFar, Writing
    <3>2. s \in selected /\ s # c
      BY <1>1 DEF Done
    <3>3. Output(s, gap)'
      BY <1>0, <1>5, <1>11, <3>1, <3>2 DEF Output, fixed
    <3>4. Explained(s, gap)'
      BY <1>0, <3>1 DEF Explained
    <3> QED  BY <3>3, <3>4
  <2>2. Output(c, buffer.gap)' /\ buffer.gap \in BOOLEAN
    <3>1. buffer = [owner |-> c, rev |-> db[c].rev, gap |-> buffer.gap] /\ buffer.gap \in BOOLEAN
      BY <1>2 DEF Data
    <3> QED  BY <1>0, <1>2, <1>3, <1>5, <1>12, <3>1 DEF Output, fixed
  <2>3. Explained(c, buffer.gap)'
    BY <1>0, <1>2 DEF Explained
  <2> QED  BY <1>0, <1>7, <2>1, <2>2, <2>3 DEF OutputSoFar
<1> QED  BY <1>7, <1>8, <1>9, <1>10, <1>13, <1>14 DEF IInv

\* An error, a crash or the end of the run: at most one file is torn.
LEMMA EndsIInv ==
  ASSUME IInv, PrepareFails \/ SetupFails \/ ListFails \/ WriteFails \/ CrossFails
               \/ Finish \/ FinishFails \/ Crash
  PROVE  IInv'
<1>c. PICK c : c = Current
  OBVIOUS
<1>1. Apart => Owned(fs)
  BY DEF IInv, OwnersStay, Owned
<1>2. pc \in {"write", "cross"} => Main(c) \in Files /\ Cross(c) \in Files
  BY <1>c, CurrentIsFirst, FilesOfSchema DEF IInv, LoopsInOrder
<1>3. /\ \E how \in {"ok", "strict", "error", "crashed"} : End(how)
      /\ \/ UNCHANGED fs
         \/ pc \in {"write", "cross"} /\ fs' = [fs EXCEPT ![Main(c)] = Torn]
         \/ pc \in {"write", "cross"} /\ fs' = [fs EXCEPT ![Cross(c)] = Torn]
      /\ workbook' \in {workbook, Torn, Whole(sheets)}
  BY <1>c DEF PrepareFails, SetupFails, ListFails, WriteFails, CrossFails, Finish, FinishFails, Crash,
              Abort, Verdict
<1>4. workbook' \in Content
  BY <1>3, ContentTypes DEF IInv, TypeOK
<1>5. fs' \in [Files -> Content] /\ (Apart => Owned(fs'))
  <2>1. fs \in [Files -> Content]
    BY DEF IInv, TypeOK
  <2>2. \A f \in Files : Apart => Owned([fs EXCEPT ![f] = Torn])
    BY <1>1, <2>1, ContentTypes, OwnedAfterWrite
  <2>3. \A f \in Files : [fs EXCEPT ![f] = Torn] \in [Files -> Content]
    BY <2>1, ContentTypes
  <2> QED  BY <1>1, <1>2, <1>3, <2>1, <2>2, <2>3
<1> QED  BY <1>3, <1>4, <1>5, EndIInv

LEMMA InitIInv == Init => IInv
<1> SUFFICES ASSUME Init PROVE IInv
  OBVIOUS
<1> USE DEF Init
<1>1. TypeOK
  <2>1. Plain \in [Schemas -> Suffixes] /\ NoBuffer \in Data /\ All \subseteq Targets
    BY NumSchemasAssumption, BoundsAssumption DEF Plain, Suffixes, Schemas, NoBuffer, Data, Revs, All
  <2>2. db \in [Schemas -> [rev : Revs, cross : BOOLEAN]]
    BY BoundsAssumption DEF Revs
  <2>3. 0 \in 0..MaxRuns
    BY BoundsAssumption
  <2> QED  BY <2>1, <2>2, <2>3, ContentTypes DEF TypeOK
<1>2. OwnersStay
  BY ContentTypes DEF OwnersStay
<1>3. /\ LoopsInOrder /\ BufferIsCurrent /\ SilentSoFar /\ NamesApart /\ FilesApart
      /\ EmptyToCome /\ OutputSoFar
  BY DEF LoopsInOrder, BufferIsCurrent, SilentSoFar, NamesApart, FilesApart, EmptyToCome, OutputSoFar, Writing, Done
<1> QED  BY <1>1, <1>2, <1>3 DEF IInv

LEMMA NextIInv == IInv /\ [Next]_vars => IInv'
<1> SUFFICES ASSUME IInv, [Next]_vars PROVE IInv'
  OBVIOUS
<1>1. CASE \E s \in Schemas : Migrate(s)
  BY <1>1, MigrateIInv
<1>2. CASE Start \/ Configure \/ Connect \/ GetSchemas
  BY <1>2, PrepareIInv
<1>3. CASE NameOutput
  BY <1>3, NameOutputIInv
<1>4. CASE OpenFile
  BY <1>4, OpenFileIInv
<1>5. CASE ListTables \/ Collect \/ Preamble
  BY <1>5, ReadIInv
<1>6. CASE WriteTables
  BY <1>6, WriteTablesIInv
<1>7. CASE WriteCross
  BY <1>7, WriteCrossIInv
<1>8. CASE PrepareFails \/ SetupFails \/ ListFails \/ WriteFails \/ CrossFails
           \/ Finish \/ FinishFails \/ Crash
  BY <1>8, EndsIInv
<1>9. CASE UNCHANGED vars
  <2>1. /\ Ids' = Ids /\ Files' = Files /\ Apart' = Apart /\ \A t, m : IdOf(t, m)' = IdOf(t, m)
        /\ \A s : Main(s)' = Main(s) /\ Cross(s)' = Cross(s)
        /\ \A s : LowerOf(s)' = LowerOf(s) /\ FileOf(s)' = FileOf(s)
    <3>1. UNCHANGED <<naming, suffix>>
      BY <1>9 DEF vars, memory
    <3>2. UNCHANGED naming
      BY <3>1
    <3> QED  BY <3>1, <3>2, NamesStay, FilesStay
  <2>2. Done' = Done /\ Current' = Current /\ \A s, gap : Output(s, gap)' = Output(s, gap)
    BY <1>9, <2>1 DEF vars, memory, Done, Current, Output
  <2>3. TypeOK'
    BY <1>9, <2>1 DEF vars, memory, IInv, TypeOK
  <2>4. LoopsInOrder' /\ BufferIsCurrent' /\ SilentSoFar'
    BY <1>9, <2>2 DEF vars, memory, IInv, LoopsInOrder, BufferIsCurrent, Explained, SilentSoFar, Writing
  <2>5. NamesApart' /\ FilesApart'
    BY <1>9, <2>1, <2>2 DEF vars, memory, IInv, NamesApart, FilesApart, NamesDiffer, FilesDiffer
  <2>6. EmptyToCome' /\ OutputSoFar'
    BY <1>9, <2>1, <2>2 DEF vars, memory, IInv, EmptyToCome, OutputSoFar, Explained, Writing
  <2>7. OwnersStay'
    BY <1>9, <2>1 DEF vars, memory, IInv, OwnersStay
  <2> QED  BY <2>3, <2>4, <2>5, <2>6, <2>7 DEF IInv
<1> QED
  BY <1>1, <1>2, <1>3, <1>4, <1>5, <1>6, <1>7, <1>8, <1>9 DEF Next, Prepare, Export, Rest

------------------------------------------------------------------------------
\* Theorems

LEMMA Invariance == Spec => []IInv
BY InitIInv, NextIInv, PTL DEF Spec

\* The state keeps its shape: no loop of schema_filenames, sheet_names or
\* create_schema_files runs out of names, whatever the names and the system.
THEOREM TypeCorrect == Spec => []TypeOK
<1>1. IInv => TypeOK  BY DEF IInv
<1> QED  BY <1>1, Invariance, PTL

\* No two schemas of a run share a file or a sheet, for any names on any system.
THEOREM NoSharedFile == Spec => []OneOwnerPerFile
<1>1. IInv => OneOwnerPerFile
  <2> SUFFICES ASSUME IInv, pc \in Writing, NEW s \in selected, NEW t \in selected, s # t
               PROVE  IF format = "excel"
                      THEN Lower(FileName(naming.name[s], suffix[s])) # Lower(FileName(naming.name[t], suffix[t]))
                      ELSE Main(s) # Main(t)
    BY DEF OneOwnerPerFile
  <2>1. CASE format = "excel"
    BY <2>1 DEF IInv, NamesApart, NamesDiffer, LowerOf
  <2>2. CASE format # "excel"
    <3>1. FileOf(s) # FileOf(t)
      BY <2>2 DEF IInv, FilesApart, FilesDiffer
    <3> QED  BY <2>2, <3>1 DEF FileOf, Main
  <2> QED  BY <2>1, <2>2
<1> QED  BY <1>1, Invariance, PTL

\* At every moment of the loop it is known what each file holds: the tables of
\* its schema as of now, or nothing.
THEOREM FilesAreKnown == Spec => []WrittenSoFar
<1>1. IInv => WrittenSoFar
  <2> SUFFICES ASSUME IInv, pc \in Writing, format # "excel", NEW s \in selected
               PROVE  IF s \in todo /\ ~(pc = "cross" /\ s = Current)
                      THEN fs[Main(s)] = Empty
                      ELSE \E gap \in BOOLEAN :
                             fs[Main(s)] = Whole({[owner |-> s, rev |-> db[s].rev, gap |-> gap]})
    BY DEF WrittenSoFar, Writing
  <2>1. CASE s \in todo /\ ~(pc = "cross" /\ s = Current)
    BY <2>1 DEF IInv, EmptyToCome
  <2>2. CASE s \in todo /\ pc = "cross" /\ s = Current
    <3>1. fs[Main(s)] = Whole({buffer}) /\ buffer.owner = s /\ buffer.rev = db[s].rev /\ buffer \in Data
      BY <2>2 DEF IInv, OutputSoFar, BufferIsCurrent, TypeOK
    <3>2. buffer = [owner |-> s, rev |-> db[s].rev, gap |-> buffer.gap] /\ buffer.gap \in BOOLEAN
      BY <3>1 DEF Data
    <3> QED  BY <2>2, <3>1, <3>2
  <2>3. CASE s \notin todo
    BY <2>3 DEF IInv, OutputSoFar, Output, Done
  <2> QED  BY <2>1, <2>2, <2>3
<1> QED  BY <1>1, Invariance, PTL

\* The step that completes a run, and what it leaves.
LEMMA CompletionLeaves ==
  ASSUME IInv, Next, Completes
  PROVE  /\ \A s \in selected : \E gap \in BOOLEAN : Explained(s, gap) /\ FreshOutput(s, gap)
         /\ strict /\ outcome' = "ok" => ~warned
<1>1. Finish
  BY DEF Completes, Next, Prepare, Export, Migrate, Start, Configure, Connect, GetSchemas, PrepareFails,
         NameOutput, OpenFile, SetupFails, ListTables, ListFails, Collect, Preamble, WriteTables,
         WriteFails, WriteCross, CrossFails, FinishFails, Crash, Rest, End, Abort
<1>2. pc = "finish" /\ outcome' = Verdict /\ fs' = fs /\ (format = "excel" => workbook' = Whole(sheets))
  BY <1>1 DEF Finish, End
<1>3. \A s \in selected : \E gap \in BOOLEAN : Explained(s, gap) /\ Output(s, gap)
  BY <1>2 DEF IInv, LoopsInOrder, OutputSoFar, Writing, Done
<1>4. \A s, gap : Output(s, gap) => FreshOutput(s, gap)
  BY <1>2, ContentTypes DEF Output, FreshOutput
<1>5. strict /\ outcome' = "ok" => ~warned
  BY <1>2 DEF Verdict
<1> QED  BY <1>3, <1>4, <1>5

\* A run that completes leaves the definitions of today for each of its schemas,
\* whatever earlier runs, failures and crashes have left behind.
THEOREM CompletedRunsAreFresh == Spec => CompletionIsFresh
<1>1. IInv /\ [Next]_vars =>
        [Completes => \A s \in selected : \E gap \in BOOLEAN : FreshOutput(s, gap)]_vars
  BY CompletionLeaves
<1> QED  BY <1>1, Invariance, PTL DEF Spec, CompletionIsFresh

\* With --strict and exit code 0, the files of each schema found lack exactly what
\* the silent reads have lost of it: no failed query, unreadable type or refused
\* name passes, of whichever schema and however many steps before the end.
THEOREM OnlySilentLossesPass == Spec => OnlySilentLossPasses
<1>1. IInv /\ [Next]_vars =>
        [Completes /\ strict /\ outcome' = "ok" =>
           \A s \in selected : FreshOutput(s, s \in silent)]_vars
  <2> SUFFICES ASSUME IInv, Next, Completes, strict, outcome' = "ok", NEW s \in selected
               PROVE  FreshOutput(s, s \in silent)
    OBVIOUS
  <2>1. ~warned
    BY CompletionLeaves
  <2>2. PICK gap \in BOOLEAN : Explained(s, gap) /\ FreshOutput(s, gap)
    BY CompletionLeaves
  <2>3. gap = (s \in silent)
    BY <2>1, <2>2 DEF Explained
  <2> QED  BY <2>2, <2>3
<1> QED  BY <1>1, Invariance, PTL DEF Spec, OnlySilentLossPasses

\* If no two names collide, a step touches at most a file of a schema of the run.
LEMMA WritesOwnFile ==
  ASSUME IInv, Next, Apart
  PROVE  \/ fs' = fs
         \/ \E c \in selected, f \in Files : \E v : f[2] = IdOf(c, 1) /\ fs' = [fs EXCEPT ![f] = v]
<1>1. \A s \in Schemas : suffix[s] = 1
  BY DEF IInv, OwnersStay, Plain
<1>2. pc \in {"open", "write", "cross"} =>
        /\ Current \in selected /\ Current \in Schemas
        /\ Main(Current) \in Files /\ Cross(Current) \in Files
        /\ Main(Current)[2] = IdOf(Current, 1) /\ Cross(Current)[2] = IdOf(Current, 1)
  <2> SUFFICES ASSUME pc \in {"open", "write", "cross"}
               PROVE  /\ Current \in selected /\ Current \in Schemas
                      /\ Main(Current) \in Files /\ Cross(Current) \in Files
                      /\ Main(Current)[2] = IdOf(Current, 1) /\ Cross(Current)[2] = IdOf(Current, 1)
    OBVIOUS
  <2>1. Current \in todo /\ Current \in Schemas
    BY CurrentIsFirst DEF IInv, LoopsInOrder
  <2>2. Current \in selected
    BY <2>1 DEF IInv, TypeOK
  <2> QED  BY <1>1, <2>1, <2>2, FilesOfSchema DEF IInv, FileOf
<1>3. CASE OpenFile
  <2>1. PICK n : n = IF FreeFile(Current, suffix[Current]) THEN suffix[Current]
                     ELSE Min({m \in Suffixes \ {1} : FreeFile(Current, m)})
    OBVIOUS
  <2>2. pc = "open" /\ fs' = [fs EXCEPT ![<<"main", IdOf(Current, n)>>] = Empty]
    BY <1>3, <2>1 DEF OpenFile
  <2>3. n = 1
    BY <2>1, <2>2, FirstFreeFile
  <2>4. Main(Current) = <<"main", IdOf(Current, 1)>>
    BY <1>1, <1>2, <2>2 DEF Main
  <2> QED  BY <1>2, <2>2, <2>3, <2>4
<1>4. CASE \/ pc \in {"write", "cross"} /\ \E v : fs' = [fs EXCEPT ![Main(Current)] = v]
           \/ pc \in {"write", "cross"} /\ \E v : fs' = [fs EXCEPT ![Cross(Current)] = v]
  BY <1>2, <1>4
<1>5. \/ OpenFile
      \/ fs' = fs
      \/ pc \in {"write", "cross"} /\ \E v : fs' = [fs EXCEPT ![Main(Current)] = v]
      \/ pc \in {"write", "cross"} /\ \E v : fs' = [fs EXCEPT ![Cross(Current)] = v]
  BY DEF Next, Prepare, Export, Migrate, Start, Configure, Connect, GetSchemas, PrepareFails,
         NameOutput, SetupFails, ListTables, ListFails, Collect, Preamble, WriteTables,
         WriteFails, WriteCross, CrossFails, Finish, FinishFails, Crash, Rest, vars
<1> QED  BY <1>3, <1>4, <1>5

\* A run of some schemas leaves every file of the others alone, as long as no two
\* schemas have names that collide.
THEOREM OtherFilesStay == Spec => RerunKeepsOthersApart
<1>1. IInv /\ [Next]_vars =>
        [Apart /\ fs' # fs =>
           \A f \in Files : \A d \in fs[f].data : d.owner \notin selected => fs'[f] = fs[f]]_vars
  <2> SUFFICES ASSUME IInv, Next, Apart, NEW f \in Files, NEW d \in fs[f].data, d.owner \notin selected
               PROVE  fs'[f] = fs[f]
    OBVIOUS
  <2>1. f[2] = IdOf(d.owner, 1) /\ d.owner \in Schemas /\ fs \in [Files -> Content]
    BY DEF IInv, OwnersStay, TypeOK, Content, Data
  <2>2. CASE fs' = fs
    BY <2>2
  <2>3. ASSUME NEW c \in selected, NEW g \in Files, NEW v,
               g[2] = IdOf(c, 1), fs' = [fs EXCEPT ![g] = v]
        PROVE  fs'[f] = fs[f]
    <3>1. c \in Schemas /\ c # d.owner
      BY DEF IInv, TypeOK
    <3>2. f # g
      BY <2>1, <2>3, <3>1 DEF Apart
    <3> QED  BY <2>1, <2>3, <3>2
  <2> QED  BY <2>2, <2>3, WritesOwnFile
<1> QED  BY <1>1, Invariance, PTL DEF Spec, RerunKeepsOthersApart
==============================================================================
