------------------------------ MODULE ClientProofs ------------------------------
(***************************************************************************)
(* What the clients read, for any tables and rows and any number of values  *)
(* that cannot be decoded: that rows of the same index, foreign key or      *)
(* column are put together, what is warned of, and what the defaults of the *)
(* columns stand for.  And the sessions of the MySQL client, for any jobs,  *)
(* any number of connections and any number of them lost: each definition   *)
(* is read in the session state it needs, without its DEFINER clause, and   *)
(* no loss is silent.                                                       *)
(***************************************************************************)
EXTENDS CatalogRead, MySqlSession, TextProofs

------------------------------------------------------------------------------
\* The rows that are joined

\* Joined takes the rows one after the other.
LEMMA JoinedIs ==
  ASSUME NEW R, NEW rows \in Seq(R), \A a \in Seq(R), r \in R : JoinRow(a, r) \in Seq(R)
  PROVE  \E g \in [0..Len(rows) -> Seq(R)] :
           /\ g[0] = <<>> /\ Joined(rows) = g[Len(rows)]
           /\ \A i \in 1..Len(rows) : g[i] = JoinRow(g[i - 1], rows[i])
<1> DEFINE n == Len(rows)
           A == Seq(R)
           Is(f) == f = [s \in SUBSET (1..n) |->
                           IF s = {} THEN <<>> ELSE JoinRow(f[s \ {Max(s)}], rows[Max(s)])]
           step == [p \in A \X (1..n) |-> JoinRow(p[1], rows[p[2]])]
<1>0. n \in Nat /\ DOMAIN rows = 1..n /\ <<>> \in A /\ \A i \in 1..n : rows[i] \in R
  OBVIOUS
<1> HIDE DEF n, A
<1>1. \A a \in A, i \in 1..n : step[<<a, i>>] = JoinRow(a, rows[i]) /\ JoinRow(a, rows[i]) \in A
  <2> TAKE a \in A, i \in 1..n
  <2> DEFINE p == <<a, i>>
  <2>1. p \in A \X (1..n) /\ p[1] = a /\ p[2] = i
    OBVIOUS
  <2> HIDE DEF p
  <2>2. step[p] = JoinRow(p[1], rows[p[2]])
    BY Zenon, <2>1
  <2>3. JoinRow(a, rows[i]) \in A
    BY Zenon, <1>0 DEF A
  <2> QED  BY Zenon, <2>1, <2>2, <2>3 DEF p
<1>2. step \in [A \X (1..n) -> A]
  <2>1. \A p \in A \X (1..n) : JoinRow(p[1], rows[p[2]]) \in A
    <3> TAKE p \in A \X (1..n)
    <3>1. p[1] \in A /\ p[2] \in 1..n
      OBVIOUS
    <3> QED  BY Zenon, <1>0, <3>1 DEF A
  <2> QED  BY Zenon, <2>1
<1> HIDE DEF step
<1>3. PICK f \in [SUBSET (1..n) -> A] : Folding(f, n, <<>>, step)
  BY Zenon, <1>0, <1>2, FoldExists
<1>4. Is(f)
  <2> DEFINE a(s) == IF s = {} THEN <<>> ELSE step[<<f[s \ {Max(s)}], Max(s)>>]
             b(s) == IF s = {} THEN <<>> ELSE JoinRow(f[s \ {Max(s)}], rows[Max(s)])
  <2>1. f = [s \in SUBSET (1..n) |-> a(s)]
    BY Zenon, <1>3 DEF Folding
  <2>2. \A s \in SUBSET (1..n) : a(s) = b(s)
    <3> TAKE s \in SUBSET (1..n)
    <3>1. CASE s # {}
      <4>1. Max(s) \in 1..n
        BY Zenon, <1>0, <3>1, GreatestOf
      <4>2. s \ {Max(s)} \in SUBSET (1..n)
        BY Zenon
      <4>3. f[s \ {Max(s)}] \in A
        BY Zenon, <4>2
      <4> QED  BY Zenon, <1>1, <3>1, <4>1, <4>3
    <3> QED  BY Zenon, <3>1
  <2>3. f = [s \in SUBSET (1..n) |-> b(s)]
    <3> HIDE DEF a, b
    <3> QED  BY Zenon, <2>1, <2>2
  <2> QED  BY Zenon, <2>3
<1> DEFINE iter == CHOOSE h : Is(h)
<1>5. Joined(rows) = iter[1..n]
  BY Zenon, <1>0 DEF Joined, FoldLeft, MapThenFoldSet
<1>6. Is(iter)
  <2> HIDE DEF Is
  <2> QED  BY Zenon, <1>4
<1> HIDE DEF iter
<1>7. \A s \in SUBSET (1..n) : iter[s] = IF s = {} THEN <<>> ELSE JoinRow(iter[s \ {Max(s)}], rows[Max(s)])
  BY Zenon, <1>6
<1> HIDE DEF Is
<1>8. iter[{}] = <<>>
  BY Zenon, <1>7
<1>9. \A s \in SUBSET (1..n) :
        s # {} /\ iter[s \ {Max(s)}] \in A => iter[s] = step[<<iter[s \ {Max(s)}], Max(s)>>]
  <2> TAKE s \in SUBSET (1..n)
  <2> HAVE s # {} /\ iter[s \ {Max(s)}] \in A
  <2>1. Max(s) \in 1..n
    BY Zenon, <1>0, GreatestOf
  <2> QED  BY Zenon, <1>1, <1>7, <2>1
<1>10. Iterates(iter, n, <<>>, step, A)
  BY Zenon, <1>8, <1>9 DEF Iterates
<1>11. PICK g \in [0..n -> A] : Steps(g, n, <<>>, step, iter[1..n])
  BY Zenon, <1>0, <1>2, <1>10, FoldsOn
<1>12. \A i \in 1..n : g[i] = JoinRow(g[i - 1], rows[i])
  <2> TAKE i \in 1..n
  <2>1. i - 1 \in 0..n
    BY <1>0
  <2> QED  BY Zenon, <1>1, <1>11, <2>1 DEF Steps
<1>13. g[0] = <<>> /\ g[n] = iter[1..n]
  BY Zenon, <1>11 DEF Steps
<1> QED  BY Zenon, <1>5, <1>11, <1>12, <1>13 DEF n, A

\* Rows with a name and a list of columns among their fields D.
RowsWith(D, W, E) == {r \in [D -> W] : r.columns \in Seq(E)}
FieldsFit(D, W, E) == "columns" \in D /\ "name" \in D /\ Seq(E) \subseteq W

\* A row with other columns.
With(r, c) == [r EXCEPT !.columns = c]
Changes(r, c, D, R) ==
  /\ With(r, c) \in R /\ With(r, c).columns = c /\ With(r, r.columns) = r
  /\ \A x \in D : x # "columns" => With(r, c)[x] = r[x]
  /\ \A d : With(With(r, d), c) = With(r, c)

\* Other columns change nothing else, and the last columns count.
LEMMA OtherColumns ==
  ASSUME NEW D, NEW W, NEW E, FieldsFit(D, W, E), NEW r \in RowsWith(D, W, E), NEW c \in Seq(E)
  PROVE  Changes(r, c, D, RowsWith(D, W, E))
<1>1. "columns" \in D /\ c \in W /\ r \in [D -> W] /\ r.columns \in Seq(E)
  BY DEF FieldsFit, RowsWith
<1> DEFINE Sc == Seq(E)
           q == [r EXCEPT !.columns = c]
<1>2. c \in Sc
  OBVIOUS
<1> HIDE DEF Sc
<1>3. q \in [D -> W] /\ q.columns = c /\ (\A x \in D : x # "columns" => q[x] = r[x])
  BY ONLY <1>1, <1>2
<1>4. [r EXCEPT !.columns = r.columns] = r
  BY ONLY <1>1
<1>5. ASSUME NEW d PROVE [[r EXCEPT !.columns = d] EXCEPT !.columns = c] = [r EXCEPT !.columns = c]
  BY ONLY <1>1
<1> QED  BY Zenon, <1>2, <1>3, <1>4, <1>5 DEF Changes, RowsWith, With, Sc

\* What the next row makes of the entries: either it goes on with the last one or
\* it opens one.
GoesOn(a, r) == Len(a) > 0 /\ a[Len(a)].name = r.name
NextRow(a, r, z, R) ==
  /\ z \in Seq(R)
  /\ GoesOn(a, r) =>
       /\ Len(z) = Len(a) /\ \A e \in 1..(Len(a) - 1) : z[e] = a[e]
       /\ z[Len(a)] = With(a[Len(a)], a[Len(a)].columns \o r.columns)
  /\ ~GoesOn(a, r) =>
       Len(z) = Len(a) + 1 /\ (\A e \in 1..Len(a) : z[e] = a[e]) /\ z[Len(a) + 1] = r

\* JoinRow makes of the entries what NextRow says.
LEMMA JoinRowIs ==
  ASSUME NEW D, NEW W, NEW E, FieldsFit(D, W, E),
         NEW a \in Seq(RowsWith(D, W, E)), NEW r \in RowsWith(D, W, E)
  PROVE  NextRow(a, r, JoinRow(a, r), RowsWith(D, W, E))
<1> DEFINE R == RowsWith(D, W, E)
           m == Len(a)
           z == JoinRow(a, r)
           j == With(a[m], a[m].columns \o r.columns)
<1>0. a \in Seq(R)
  BY Zenon
<1>1. m \in Nat /\ (a # <<>> <=> m > 0) /\ (m > 0 => a[m] \in R) /\ Last(a) = a[m]
  <2> HIDE DEF R
  <2> QED  BY ONLY <1>0 DEF Last
<1>2. CASE GoesOn(a, r)
  <2>1. m > 0 /\ a[m] \in R /\ a[m].name = r.name
    BY Zenon, <1>1, <1>2 DEF GoesOn
  <2>2. a[m].columns \o r.columns \in Seq(E)
    <3>1. a[m].columns \in Seq(E) /\ r.columns \in Seq(E)
      BY Zenon, <2>1 DEF RowsWith
    <3> QED  BY <3>1
  <2>3. j \in R
    <3> DEFINE c == a[m].columns \o r.columns
               b == a[m]
    <3>1. b \in RowsWith(D, W, E) /\ c \in Seq(E)
      BY Zenon, <2>1, <2>2
    <3> HIDE DEF b, c
    <3>2. With(b, c) \in RowsWith(D, W, E)
      BY Zenon, <3>1, OtherColumns DEF Changes
    <3> QED  BY Zenon, <3>2 DEF b, c
  <2>4. z = Front(a) \o <<j>>
    BY Zenon, <1>1, <2>1 DEF JoinRow, With
  <2> HIDE DEF j
  <2>5. Front(a) \in Seq(R) /\ Len(Front(a)) = m - 1 /\ \A e \in 1..(m - 1) : Front(a)[e] = a[e]
    <3> HIDE DEF R
    <3>1. Len(a) \in Nat /\ Len(a) > 0
      BY Zenon, <1>1, <2>1
    <3> DEFINE x == Len(a) - 1
    <3>2. x \in Nat /\ x <= Len(a)
      BY ONLY <3>1, SMT
    <3> HIDE DEF x
    <3>3. SubSeq(a, 1, x) \in Seq(R) /\ Len(SubSeq(a, 1, x)) = x /\ \A e \in 1..x : SubSeq(a, 1, x)[e] = a[e]
      BY ONLY <1>0, <3>2, SMT
    <3> QED  BY Zenon, <3>3 DEF Front, x, m
  <2> DEFINE f == Front(a)
  <2>6. f \in Seq(R) /\ Len(f) = m - 1 /\ (\A e \in 1..(m - 1) : f[e] = a[e]) /\ z = f \o <<j>> /\ m \in Nat /\ m > 0
    BY Zenon, <1>1, <2>1, <2>4, <2>5
  <2> HIDE DEF f, z, R, m
  <2>7. f \o <<j>> \in Seq(R) /\ Len(f \o <<j>>) = m /\ (\A e \in 1..(m - 1) : (f \o <<j>>)[e] = a[e]) /\ (f \o <<j>>)[m] = j
    BY ONLY <2>3, <2>6
  <2>8. z \in Seq(R) /\ Len(z) = m /\ (\A e \in 1..(m - 1) : z[e] = a[e]) /\ z[m] = j
    BY Zenon, <2>6, <2>7
  <2> QED  BY Zenon, <1>2, <2>8 DEF NextRow, z, R, m, j
<1>3. CASE ~GoesOn(a, r)
  <2>1. z = Append(a, r)
    <3>1. ~(a # <<>> /\ Last(a).name = r.name)
      BY Zenon, <1>1, <1>3 DEF GoesOn
    <3> QED  BY Zenon, <3>1 DEF JoinRow
  <2> HIDE DEF z, R
  <2>2. Append(a, r) \in Seq(R) /\ Len(Append(a, r)) = m + 1 /\ (\A e \in 1..m : Append(a, r)[e] = a[e]) /\ Append(a, r)[m + 1] = r
    <3>1. a \in Seq(R) /\ r \in R
      BY DEF R
    <3> QED  BY ONLY <3>1 DEF m
  <2>8. z \in Seq(R) /\ Len(z) = m + 1 /\ (\A e \in 1..m : z[e] = a[e]) /\ z[m + 1] = r
    BY Zenon, <2>1, <2>2
  <2> QED  BY Zenon, <1>3, <2>8 DEF NextRow, z, R
<1> QED  BY Zenon, <1>2, <1>3

\* Rows that come in N blocks: block b of row p is what rows with its name are in.
Blocks(rows, n, N, b) ==
  /\ b \in [0..n -> 0..N] /\ b[0] = 0 /\ b[n] = N
  /\ \A p \in 1..n : b[p] # 0 /\ (b[p] = b[p - 1] \/ b[p] = b[p - 1] + 1)
  /\ \A p, q \in 1..n : rows[p].name = rows[q].name <=> b[p] = b[q]

\* The columns of block e among the first p rows.
Gathers(h, rows, n, b, e, E) ==
  /\ h \in [0..n -> Seq(E)] /\ h[0] = <<>>
  /\ \A p \in 1..n : h[p] = IF b[p] = e THEN h[p - 1] \o rows[p].columns ELSE h[p - 1]

OpensBlock(f, b, e, i) == f \in 1..i /\ b[f] = e /\ \A p \in 1..i : b[p] = e => f <= p
IsEntry(x, e, i, rows, b, H) ==
  \E f : OpensBlock(f, b, e, i) /\ x = With(rows[f], H[e][i])
JoinedTo(a, i, N, rows, b, H) ==
  /\ Len(a) = b[i]
  /\ \A e \in 1..N : e > b[i] => H[e][i] = <<>>
  /\ \A p \in 1..i : b[p] <= b[i]
  /\ \A e \in 1..b[i] : IsEntry(a[e], e, i, rows, b, H)

\* An entry that the next row does not belong to stays what it is.
LEMMA EntryStays ==
  ASSUME NEW n \in Nat, NEW i \in 0..(n - 1), NEW E, NEW rows, NEW b, NEW H, NEW e, NEW x,
         Gathers(H[e], rows, n, b, e, E), b[i + 1] # e, IsEntry(x, e, i, rows, b, H)
  PROVE  IsEntry(x, e, i + 1, rows, b, H) /\ H[e][i + 1] = H[e][i]
<1>1. PICK f : OpensBlock(f, b, e, i) /\ x = With(rows[f], H[e][i])
  BY Zenon DEF IsEntry
<1>2. i + 1 \in 1..n /\ (i + 1) - 1 = i /\ 1..(i + 1) = (1..i) \cup {i + 1}
  OBVIOUS
<1>3. H[e][i + 1] = H[e][i]
  BY Zenon, <1>2 DEF Gathers
<1>4. OpensBlock(f, b, e, i + 1)
  <2>1. f \in 1..(i + 1)
    BY Zenon, <1>1, <1>2 DEF OpensBlock
  <2>2. \A p \in 1..(i + 1) : b[p] = e => f <= p
    BY Zenon, <1>1, <1>2 DEF OpensBlock
  <2> QED  BY Zenon, <1>1, <2>1, <2>2 DEF OpensBlock
<1> QED  BY Zenon, <1>1, <1>3, <1>4 DEF IsEntry

\* The next row keeps the entries joined to the rows before it.
LEMMA BlocksStep ==
  ASSUME NEW D, NEW W, NEW E, FieldsFit(D, W, E), NEW rows \in Seq(RowsWith(D, W, E)),
         NEW N \in Nat, NEW b, Blocks(rows, Len(rows), N, b),
         NEW H, \A e \in 1..N : Gathers(H[e], rows, Len(rows), b, e, E),
         NEW i \in 0..(Len(rows) - 1), NEW a \in Seq(RowsWith(D, W, E)), JoinedTo(a, i, N, rows, b, H)
  PROVE  JoinedTo(JoinRow(a, rows[i + 1]), i + 1, N, rows, b, H)
<1> DEFINE R == RowsWith(D, W, E)
           n == Len(rows)
           r == rows[i + 1]
           z == JoinRow(a, r)
           m == b[i]
           o == b[i + 1]
<1>0. /\ n \in Nat /\ i \in 0..(n - 1) /\ i + 1 \in 1..n /\ (i + 1) - 1 = i /\ i \in 0..n /\ i + 1 \in 0..n
      /\ 1..(i + 1) = (1..i) \cup {i + 1} /\ i + 1 \in 1..(i + 1)
  OBVIOUS
<1>1. r \in R /\ \A p \in 1..n : rows[p] \in R
  <2> HIDE DEF R
  <2>1. rows \in Seq(R)
    BY DEF R
  <2> QED  BY <1>0, <2>1
<1>2. m \in 0..N /\ o \in 1..N /\ (o = m \/ o = m + 1)
  <2>1. m \in 0..N /\ o \in 0..N /\ o # 0 /\ (o = m \/ o = m + 1)
    BY Zenon, <1>0 DEF Blocks
  <2> HIDE DEF m, o
  <2> QED  BY <2>1
<1>3. Len(a) = m /\ (\A e \in 1..N : e > m => H[e][i] = <<>>) /\ (\A p \in 1..i : b[p] <= m)
  BY Zenon DEF JoinedTo
<1>4. \A e \in 1..m : IsEntry(a[e], e, i, rows, b, H)
  BY Zenon DEF JoinedTo
<1>5. \A p, q \in 1..n : rows[p].name = rows[q].name <=> b[p] = b[q]
  BY Zenon DEF Blocks
<1>6. \A e \in 1..N : Gathers(H[e], rows, n, b, e, E)
  OBVIOUS
<1>7. \A e \in 1..N : e # o => H[e][i + 1] = H[e][i]
  <2> TAKE e \in 1..N
  <2> HAVE e # o
  <2>1. Gathers(H[e], rows, n, b, e, E)
    BY Zenon, <1>6
  <2>2. b[i + 1] # e /\ H[e][(i + 1) - 1] = H[e][i] /\ i + 1 \in 1..n
    BY Zenon, <1>0
  <2> QED  BY Zenon, <2>1, <2>2 DEF Gathers
<1>8. H[o][i + 1] = H[o][i] \o r.columns /\ H[o][i] \in Seq(E) /\ H[o][i + 1] \in Seq(E)
  BY Zenon, <1>0, <1>2, <1>6 DEF Gathers
<1>9. NextRow(a, r, z, R)
  BY Zenon, <1>1, JoinRowIs
<1> HIDE DEF R, n, m, o, r, z
<1>10. CASE o = m
  <2>1. m \in 1..N /\ m \in 1..m /\ Len(a) > 0
    BY ONLY <1>2, <1>3, <1>10, SMT
  <2>2. PICK f : OpensBlock(f, b, m, i) /\ a[m] = With(rows[f], H[m][i])
    BY Zenon, <1>4, <2>1 DEF IsEntry
  <2>3. f \in 1..i /\ b[f] = m /\ \A p \in 1..i : b[p] = m => f <= p
    BY Zenon, <2>2 DEF OpensBlock
  <2>4. f \in 1..n /\ f <= i + 1
    BY ONLY <1>0, <2>3, SMT
  <2>5. rows[f] \in RowsWith(D, W, E) /\ H[m][i] \in Seq(E) /\ H[m][i + 1] \in Seq(E)
    BY Zenon, <1>1, <1>8, <1>10, <2>4 DEF R
  <2>6. /\ a[m].columns = H[m][i] /\ a[m].name = rows[f].name
        /\ With(a[m], H[m][i + 1]) = With(rows[f], H[m][i + 1])
    <3> DEFINE q == rows[f]
               c == H[m][i]
               d == H[m][i + 1]
    <3> HIDE DEF q, c, d
    <3>1. q \in RowsWith(D, W, E) /\ c \in Seq(E) /\ d \in Seq(E) /\ "name" \in D /\ "name" # "columns"
      BY Zenon, <2>5 DEF q, c, d, FieldsFit
    <3>2. /\ With(q, c).columns = c
          /\ \A x \in D : x # "columns" => With(q, c)[x] = q[x]
          /\ \A y : With(With(q, y), d) = With(q, d)
      <4>1. Changes(q, c, D, RowsWith(D, W, E)) /\ Changes(q, d, D, RowsWith(D, W, E))
        BY Zenon, <3>1, OtherColumns
      <4> QED  BY Zenon, <4>1 DEF Changes
    <3>3. With(q, c).name = q.name
      BY Zenon, <3>1, <3>2
    <3>4. With(With(q, c), d) = With(q, d)
      BY Zenon, <3>2
    <3>5. a[m] = With(q, c)
      BY Zenon, <2>2 DEF q, c
    <3> QED  BY Zenon, <3>2, <3>3, <3>4, <3>5 DEF q, c, d
  <2>7. GoesOn(a, r)
    <3>1. rows[f].name = r.name
      BY Zenon, <1>0, <1>5, <1>10, <2>3, <2>4 DEF r, o
    <3> QED  BY Zenon, <1>3, <2>1, <2>6, <3>1 DEF GoesOn
  <2>8. /\ Len(z) = m /\ (\A e \in 1..(m - 1) : z[e] = a[e])
        /\ z[m] = With(a[m], a[m].columns \o r.columns)
    BY Zenon, <1>3, <1>9, <2>7 DEF NextRow
  <2>9. z[m] = With(rows[f], H[m][i + 1])
    BY Zenon, <1>8, <1>10, <2>6, <2>8
  <2>10. IsEntry(z[m], m, i + 1, rows, b, H)
    <3>1. f \in 1..(i + 1) /\ \A p \in 1..(i + 1) : b[p] = m => f <= p
      BY Zenon, <1>0, <2>3, <2>4
    <3>2. OpensBlock(f, b, m, i + 1)
      BY Zenon, <2>3, <3>1 DEF OpensBlock
    <3> QED  BY Zenon, <2>9, <3>2 DEF IsEntry
  <2>11. ASSUME NEW e \in 1..o PROVE IsEntry(z[e], e, i + 1, rows, b, H)
    <3>1. CASE e = m
      BY Zenon, <2>10, <3>1
    <3>2. CASE e # m
      <4>1. e \in 1..m /\ e \in 1..N /\ e \in 1..(m - 1) /\ e # o
        BY ONLY <1>2, <1>10, <2>11, <3>2, SMT
      <4>2. z[e] = a[e] /\ IsEntry(a[e], e, i, rows, b, H) /\ Gathers(H[e], rows, n, b, e, E) /\ b[i + 1] # e
        BY Zenon, <1>4, <1>6, <2>8, <4>1 DEF o
      <4>3. IsEntry(a[e], e, i + 1, rows, b, H)
        BY Zenon, <1>0, <4>2, EntryStays
      <4> QED  BY Zenon, <4>2, <4>3
    <3> QED  BY Zenon, <3>1, <3>2
  <2>12. \A e \in 1..N : e > o => H[e][i + 1] = <<>>
    <3> TAKE e \in 1..N
    <3> HAVE e > o
    <3>1. e # o /\ e > m
      BY ONLY <1>2, <1>10, e > o, SMT
    <3> QED  BY Zenon, <1>3, <1>7, <3>1
  <2>13. \A p \in 1..(i + 1) : b[p] <= o
    <3>1. o <= o
      BY <1>2
    <3> QED  BY Zenon, <1>0, <1>3, <1>10, <3>1 DEF o
  <2> QED  BY Zenon, <1>10, <2>8, <2>11, <2>12, <2>13 DEF JoinedTo, z, r, o
<1>11. CASE o = m + 1
  <2>1. o # m /\ o \in 1..N /\ o > m
    BY ONLY <1>2, <1>11, SMT
  <2>2. ~GoesOn(a, r)
    <3>1. SUFFICES ASSUME GoesOn(a, r) PROVE FALSE
      OBVIOUS
    <3>2. m > 0 /\ a[m].name = r.name
      BY Zenon, <1>3, <3>1 DEF GoesOn
    <3>3. m \in 1..m
      BY ONLY <1>2, <3>2, SMT
    <3>4. PICK f : OpensBlock(f, b, m, i) /\ a[m] = With(rows[f], H[m][i])
      BY Zenon, <1>4, <3>3 DEF IsEntry
    <3>5. f \in 1..i /\ b[f] = m
      BY Zenon, <3>4 DEF OpensBlock
    <3>6. f \in 1..n /\ m \in 1..N
      BY ONLY <1>0, <1>2, <3>3, <3>5, SMT
    <3>7. rows[f] \in RowsWith(D, W, E) /\ H[m][i] \in Seq(E)
      BY Zenon, <1>0, <1>1, <1>6, <3>6 DEF R, Gathers
    <3>8. a[m].name = rows[f].name
      <4> DEFINE q == rows[f]
                 c == H[m][i]
      <4> HIDE DEF q, c
      <4>1. q \in RowsWith(D, W, E) /\ c \in Seq(E) /\ "name" \in D /\ "name" # "columns"
        BY Zenon, <3>7 DEF q, c, FieldsFit
      <4>2. \A x \in D : x # "columns" => With(q, c)[x] = q[x]
        <5>1. Changes(q, c, D, RowsWith(D, W, E))
          BY Zenon, <4>1, OtherColumns
        <5> QED  BY Zenon, <5>1 DEF Changes
      <4>3. With(q, c).name = q.name
        BY Zenon, <4>1, <4>2
      <4> QED  BY Zenon, <3>4, <4>3 DEF q, c
    <3> QED  BY Zenon, <1>0, <1>5, <2>1, <3>2, <3>5, <3>6, <3>8 DEF r, o
  <2>3. Len(z) = m + 1 /\ (\A e \in 1..m : z[e] = a[e]) /\ z[m + 1] = r
    BY Zenon, <1>3, <1>9, <2>2 DEF NextRow
  <2>4. IsEntry(z[o], o, i + 1, rows, b, H)
    <3>1. H[o][i] = <<>>
      BY Zenon, <1>3, <2>1
    <3>2. H[o][i + 1] = r.columns
      <4>1. r.columns \in Seq(E)
        BY Zenon, <1>1 DEF R, RowsWith
      <4> QED  BY Zenon, <1>8, <3>1, <4>1, EmptyJoins
    <3>3. With(r, r.columns) = r
      <4>1. r \in RowsWith(D, W, E) /\ r.columns \in Seq(E)
        BY Zenon, <1>1 DEF R, RowsWith
      <4>2. Changes(r, r.columns, D, RowsWith(D, W, E))
        BY Zenon, <4>1, OtherColumns
      <4> QED  BY Zenon, <4>2 DEF Changes
    <3>4. z[o] = With(rows[i + 1], H[o][i + 1])
      BY Zenon, <1>11, <2>3, <3>2, <3>3 DEF r
    <3>5. \A p \in 1..(i + 1) : b[p] = o => i + 1 <= p
      <4> TAKE p \in 1..(i + 1)
      <4> HAVE b[p] = o
      <4>1. CASE p \in 1..i
        <5>1. b[p] <= m
          BY Zenon, <1>3, <4>1
        <5> QED  BY ONLY <1>2, <2>1, <5>1, b[p] = o, SMT
      <4>2. CASE p = i + 1
        BY <1>0, <4>2
      <4> QED  BY Zenon, <1>0, <4>1, <4>2
    <3>6. OpensBlock(i + 1, b, o, i + 1)
      BY Zenon, <1>0, <3>5 DEF OpensBlock, o
    <3> QED  BY Zenon, <3>4, <3>6 DEF IsEntry
  <2>5. ASSUME NEW e \in 1..o PROVE IsEntry(z[e], e, i + 1, rows, b, H)
    <3>1. CASE e = o
      BY Zenon, <2>4, <3>1
    <3>2. CASE e # o
      <4>1. e \in 1..m /\ e \in 1..N
        BY ONLY <1>2, <1>11, <2>5, <3>2, SMT
      <4>2. z[e] = a[e] /\ IsEntry(a[e], e, i, rows, b, H) /\ Gathers(H[e], rows, n, b, e, E) /\ b[i + 1] # e
        BY Zenon, <1>4, <1>6, <2>3, <3>2, <4>1 DEF o
      <4>3. IsEntry(a[e], e, i + 1, rows, b, H)
        BY Zenon, <1>0, <4>2, EntryStays
      <4> QED  BY Zenon, <4>2, <4>3
    <3> QED  BY Zenon, <3>1, <3>2
  <2>6. \A e \in 1..N : e > o => H[e][i + 1] = <<>>
    <3> TAKE e \in 1..N
    <3> HAVE e > o
    <3>1. e # o /\ e > m
      BY ONLY <1>2, <1>11, e > o, SMT
    <3> QED  BY Zenon, <1>3, <1>7, <3>1
  <2>7. \A p \in 1..(i + 1) : b[p] <= o
    <3> TAKE p \in 1..(i + 1)
    <3>1. CASE p \in 1..i
      <4>1. b[p] <= m /\ p \in 0..n
        <5>1. p \in 0..n
          BY ONLY <1>0, <3>1, SMT
        <5> QED  BY Zenon, <1>3, <3>1, <5>1
      <4>2. b[p] \in 0..N
        BY Zenon, <4>1 DEF Blocks, n
      <4> QED  BY ONLY <1>2, <1>11, <4>1, <4>2, SMT
    <3>2. CASE p = i + 1
      <4>1. o <= o
        BY <1>2
      <4> QED  BY Zenon, <3>2, <4>1 DEF o
    <3> QED  BY Zenon, <1>0, <3>1, <3>2
  <2> QED  BY Zenon, <1>11, <2>3, <2>5, <2>6, <2>7 DEF JoinedTo, z, r, o
<1> QED  BY Zenon, <1>2, <1>10, <1>11

\* Rows in blocks are joined to one entry for each block: its first row, with the
\* columns of all of them.
InBlocks(z, n, N, rows, b, H, R) ==
  z \in Seq(R) /\ Len(z) = N /\ \A e \in 1..N : IsEntry(z[e], e, n, rows, b, H)

\* So rows that come in blocks are joined to an entry for each block.
LEMMA BlocksJoin ==
  ASSUME NEW D, NEW W, NEW E, FieldsFit(D, W, E), NEW rows \in Seq(RowsWith(D, W, E)),
         NEW N \in Nat, NEW b, Blocks(rows, Len(rows), N, b),
         NEW H, \A e \in 1..N : Gathers(H[e], rows, Len(rows), b, e, E)
  PROVE  InBlocks(Joined(rows), Len(rows), N, rows, b, H, RowsWith(D, W, E))
<1> DEFINE R == RowsWith(D, W, E)
           n == Len(rows)
<1>0. n \in Nat /\ 0 \in 0..n /\ n \in 0..n /\ \A p \in 1..n : rows[p] \in R
  <2> HIDE DEF R
  <2>1. rows \in Seq(R)
    BY DEF R
  <2> QED  BY <2>1
<1>1. \A a \in Seq(R), r \in R : JoinRow(a, r) \in Seq(R)
  <2> TAKE a \in Seq(R), r \in R
  <2>1. NextRow(a, r, JoinRow(a, r), RowsWith(D, W, E))
    BY Zenon, JoinRowIs
  <2> QED  BY Zenon, <2>1 DEF NextRow
<1>2. PICK g \in [0..n -> Seq(R)] :
        /\ g[0] = <<>> /\ Joined(rows) = g[n]
        /\ \A i \in 1..n : g[i] = JoinRow(g[i - 1], rows[i])
  <2> HIDE DEF R
  <2>1. rows \in Seq(R)
    BY DEF R
  <2> QED  BY <1>1, <2>1, JoinedIs
<1> DEFINE T == {i \in 0..n : JoinedTo(g[i], i, N, rows, b, H)}
<1>3. 0 \in T
  <2>1. b[0] = 0 /\ \A e \in 1..N : H[e][0] = <<>>
    BY Zenon DEF Blocks, Gathers
  <2>2. Len(<<>>) = 0 /\ 1..0 = {}
    OBVIOUS
  <2>3. JoinedTo(g[0], 0, N, rows, b, H)
    BY Zenon, <1>2, <2>1, <2>2 DEF JoinedTo
  <2> QED  BY Zenon, <1>0, <2>3
<1>4. ASSUME NEW i \in 0..(n - 1), i \in T PROVE i + 1 \in T
  <2>1. i + 1 \in 1..n /\ (i + 1) - 1 = i /\ i + 1 \in 0..n /\ i \in 0..n
    BY <1>0
  <2>2. g[i] \in Seq(R) /\ g[i + 1] = JoinRow(g[i], rows[i + 1])
    BY Zenon, <1>2, <2>1
  <2>3. JoinedTo(g[i], i, N, rows, b, H)
    BY Zenon, <1>4
  <2>4. JoinedTo(JoinRow(g[i], rows[i + 1]), i + 1, N, rows, b, H)
    BY Zenon, <2>2, <2>3, BlocksStep
  <2> QED  BY Zenon, <2>1, <2>2, <2>4
<1>5. 0..n \subseteq T
  <2> HIDE DEF T
  <2> QED  BY <1>0, <1>3, <1>4, InductionUpTo
<1>6. JoinedTo(Joined(rows), n, N, rows, b, H)
  BY Zenon, <1>0, <1>2, <1>5
<1>7. b[n] = N
  BY Zenon DEF Blocks
<1>8. Joined(rows) \in Seq(RowsWith(D, W, E))
  BY Zenon, <1>0, <1>2
<1> QED  BY Zenon, <1>6, <1>7, <1>8 DEF JoinedTo, InBlocks

\* The rows of entries xs: row p is one of the columns of entry b[p], whose rows end
\* at at[b[p]].
RowsLaid(xs, rows, at, b) ==
  /\ Ends(at, Len(rows), Len(xs)) /\ InParts(b, at, Len(rows), Len(xs))
  /\ \A k \in 1..Len(xs) : at[k] = at[k - 1] + Len(xs[k].columns)
  /\ \A p \in 1..Len(rows) :
       /\ p - at[b[p] - 1] \in 1..Len(xs[b[p]].columns)
       /\ rows[p] = With(xs[b[p]], <<xs[b[p]].columns[p - at[b[p] - 1]]>>)

\* The rows of entries with columns lie one entry after the other.
LEMMA RowsAreLaid ==
  ASSUME NEW D, NEW W, NEW E, FieldsFit(D, W, E), NEW xs \in Seq(RowsWith(D, W, E)),
         \A k \in 1..Len(xs) : xs[k].columns # <<>>
  PROVE  /\ RowsOfColumns(xs) \in Seq(RowsWith(D, W, E))
         /\ \E at, b : RowsLaid(xs, RowsOfColumns(xs), at, b)
<1> DEFINE R == RowsWith(D, W, E)
           N == Len(xs)
           part(k) == [c \in DOMAIN xs[k].columns |-> With(xs[k], <<xs[k].columns[c]>>)]
           parts == [k \in DOMAIN xs |-> part(k)]
           F == RowsOfColumns(xs)
<1>0. N \in Nat /\ DOMAIN xs = 1..N /\ \A k \in 1..N : xs[k] \in R
  <2> HIDE DEF R
  <2>1. xs \in Seq(R)
    BY DEF R
  <2> QED  BY <2>1
<1>1. F = FlattenSeq(parts)
  BY Zenon DEF RowsOfColumns, With
<1>2. ASSUME NEW k \in 1..N
      PROVE  /\ xs[k].columns \in Seq(E) /\ part(k) \in Seq(R) /\ Len(part(k)) = Len(xs[k].columns)
             /\ Len(xs[k].columns) \in Nat /\ Len(xs[k].columns) > 0
             /\ DOMAIN xs[k].columns = 1..Len(xs[k].columns)
  <2> DEFINE x == xs[k]
             cs == x.columns
  <2>1. x \in R /\ cs \in Seq(E) /\ cs # <<>>
    BY Zenon, <1>0 DEF RowsWith
  <2> HIDE DEF x, cs
  <2>2. DOMAIN cs = 1..Len(cs) /\ Len(cs) \in Nat /\ Len(cs) > 0 /\ \A c \in 1..Len(cs) : <<cs[c]>> \in Seq(E)
    BY ONLY <2>1
  <2>3. \A c \in 1..Len(cs) : With(x, <<cs[c]>>) \in R
    <3> TAKE c \in 1..Len(cs)
    <3>1. x \in RowsWith(D, W, E) /\ <<cs[c]>> \in Seq(E)
      BY Zenon, <2>1, <2>2
    <3>2. Changes(x, <<cs[c]>>, D, RowsWith(D, W, E))
      BY Zenon, <3>1, OtherColumns
    <3> QED  BY Zenon, <3>2 DEF Changes
  <2>4. [c \in 1..Len(cs) |-> With(x, <<cs[c]>>)] \in Seq(R) /\ Len([c \in 1..Len(cs) |-> With(x, <<cs[c]>>)]) = Len(cs)
    <3> HIDE DEF R
    <3> QED  BY ONLY <2>2, <2>3
  <2>5. part(k) = [c \in 1..Len(cs) |-> With(x, <<cs[c]>>)]
    BY Zenon, <2>2 DEF x, cs
  <2> QED  BY Zenon, <2>1, <2>2, <2>4, <2>5 DEF x, cs
<1>3. parts \in Seq(Seq(R)) /\ Len(parts) = N /\ \A k \in 1..N : parts[k] = part(k)
  <2> DEFINE S == Seq(R)
  <2>1. \A k \in 1..N : part(k) \in S
    BY Zenon, <1>2
  <2> HIDE DEF part, S, N
  <2>2. [k \in 1..N |-> part(k)] \in Seq(S) /\ Len([k \in 1..N |-> part(k)]) = N
    BY ONLY <1>0, <2>1
  <2>3. parts = [k \in 1..N |-> part(k)]
    BY Zenon, <1>0
  <2>4. \A k \in 1..N : parts[k] = part(k)
    BY Zenon, <2>3
  <2> HIDE DEF parts
  <2> QED  BY Zenon, <2>2, <2>3, <2>4 DEF S
<1> HIDE DEF parts
<1>4. F \in Seq(R) /\ \E at : Laid(F, parts, at)
  <2> HIDE DEF R, F
  <2> QED  BY Zenon, <1>1, <1>3, FlattenPlaces
<1>5. PICK at : Laid(F, parts, at)
  BY Zenon, <1>4
<1> DEFINE n == Len(F)
<1>6. n \in Nat
  <2> HIDE DEF F, R
  <2> QED  BY <1>4
<1>7. /\ at \in [0..N -> Nat] /\ at[0] = 0 /\ n = at[N]
      /\ \A k \in 1..N :
           /\ at[k] = at[k - 1] + Len(xs[k].columns) /\ at[k] <= n
           /\ \A c \in 1..Len(xs[k].columns) : F[at[k - 1] + c] = With(xs[k], <<xs[k].columns[c]>>)
  <2>1. /\ at \in [0..N -> Nat] /\ at[0] = 0 /\ n = at[N]
        /\ \A k \in 1..N :
             /\ at[k] = at[k - 1] + Len(parts[k]) /\ at[k] <= n
             /\ \A c \in 1..Len(parts[k]) : F[at[k - 1] + c] = parts[k][c]
    BY Zenon, <1>3, <1>5 DEF Laid
  <2>2. ASSUME NEW k \in 1..N
        PROVE  /\ Len(parts[k]) = Len(xs[k].columns)
               /\ \A c \in 1..Len(xs[k].columns) : parts[k][c] = With(xs[k], <<xs[k].columns[c]>>)
    <3>1. parts[k] = part(k) /\ Len(part(k)) = Len(xs[k].columns) /\ DOMAIN xs[k].columns = 1..Len(xs[k].columns)
      BY Zenon, <1>2, <1>3
    <3>2. \A c \in 1..Len(xs[k].columns) : part(k)[c] = With(xs[k], <<xs[k].columns[c]>>)
      BY Zenon, <3>1
    <3> HIDE DEF part
    <3> QED  BY Zenon, <3>1, <3>2
  <2> HIDE DEF F, n, N, part
  <2> QED  BY Zenon, <2>1, <2>2
<1> HIDE DEF F, n, part
<1>8. \A k \in 1..N : Len(xs[k].columns) \in Nat /\ Len(xs[k].columns) > 0
  BY Zenon, <1>2
<1> HIDE DEF N, R
<1>9. Ends(at, n, N)
  <2>1. \A k \in 1..N : at[k - 1] < at[k]
    <3> TAKE k \in 1..N
    <3> DEFINE l == Len(xs[k].columns)
               x == at[k - 1]
    <3>1. l \in Nat /\ l > 0 /\ x \in Nat /\ at[k] = x + l
      <4>1. k - 1 \in 0..N
        BY <1>0
      <4> QED  BY Zenon, <1>7, <1>8, <4>1
    <3> HIDE DEF l, x
    <3>2. x < x + l
      BY ONLY <3>1, SMT
    <3> QED  BY Zenon, <3>1, <3>2 DEF x
  <2>2. \A k \in 0..N : at[k] \in 0..n
    <3> TAKE k \in 0..N
    <3>1. at[k] \in Nat /\ (k = 0 \/ k \in 1..N)
      BY <1>0, <1>7
    <3>2. at[k] <= n
      <4>1. 0 <= n
        BY <1>6
      <4> QED  BY Zenon, <1>7, <3>1, <4>1
    <3> DEFINE x == at[k]
    <3> HIDE DEF x
    <3>3. x \in Nat /\ x <= n
      BY Zenon, <3>1, <3>2 DEF x
    <3>4. x \in 0..n
      BY ONLY <1>6, <3>3, SMT
    <3> QED  BY Zenon, <3>4 DEF x
  <2>3. at \in [0..N -> 0..n]
    <3>1. at = [k \in 0..N |-> at[k]]
      BY Zenon, <1>7
    <3> QED  BY Zenon, <2>2, <3>1
  <2> QED  BY Zenon, <1>7, <2>1, <2>3 DEF Ends
<1>10. PICK b : InParts(b, at, n, N)
  BY Zenon, <1>0, <1>6, <1>9, PartsExist
<1>11. \A p \in 1..n : b[p] \in 1..N /\ at[b[p] - 1] < p /\ p <= at[b[p]]
  BY Zenon, <1>10 DEF InParts
<1>12. ASSUME NEW p \in 1..n
       PROVE  /\ p - at[b[p] - 1] \in 1..Len(xs[b[p]].columns)
              /\ F[p] = With(xs[b[p]], <<xs[b[p]].columns[p - at[b[p] - 1]]>>)
  <2> DEFINE k == b[p]
             x == at[k - 1]
             l == Len(xs[k].columns)
             c == p - x
  <2>1. k \in 1..N /\ x < p /\ p <= at[k]
    BY Zenon, <1>11
  <2>2. at[k] = x + l /\ l \in Nat /\ x \in Nat
    <3>1. k - 1 \in 0..N
      <4> HIDE DEF k
      <4> QED  BY ONLY <1>0, <2>1, SMT
    <3> QED  BY Zenon, <1>7, <1>8, <2>1, <3>1
  <2> HIDE DEF x, l
  <2>3. c \in 1..l /\ x + c = p
    <3>1. p \in 1..n /\ x < p /\ p <= x + l /\ l \in Nat /\ x \in Nat
      BY Zenon, <2>1, <2>2
    <3> QED  BY ONLY <1>6, <3>1, SMT
  <2>4. F[x + c] = With(xs[k], <<xs[k].columns[c]>>)
    <3> HIDE DEF c
    <3> QED  BY Zenon, <1>7, <2>1, <2>3 DEF x, l
  <2> QED  BY Zenon, <2>3, <2>4 DEF x, l
<1>13. RowsLaid(xs, F, at, b)
  BY Zenon, <1>7, <1>9, <1>10, <1>12 DEF RowsLaid, n, N
<1> QED  BY Zenon, <1>4, <1>13 DEF F, R

\* Rows with the names of the entries come in blocks.
LEMMA NamesMakeBlocks ==
  ASSUME NEW D, NEW W, NEW E, FieldsFit(D, W, E), NEW xs \in Seq(RowsWith(D, W, E)),
         \A j, k \in 1..Len(xs) : xs[j].name = xs[k].name => j = k,
         NEW of, NEW at, NEW b, RowsLaid(xs, of, at, b),
         NEW rows, \A p \in 1..Len(of) : rows[p].name = of[p].name
  PROVE  Blocks(rows, Len(of), Len(xs), b)
<1> DEFINE R == RowsWith(D, W, E)
           n == Len(of)
           N == Len(xs)
<1>1. /\ b \in [0..n -> 0..N] /\ b[0] = 0 /\ b[n] = N
      /\ \A p \in 1..n : b[p] \in 1..N
      /\ \A p \in 1..n : b[p] = b[p - 1] \/ b[p] = b[p - 1] + 1
  <2>1. InParts(b, at, n, N)
    BY Zenon DEF RowsLaid
  <2>2. \A p \in 1..n : b[p] \in 1..N /\ at[b[p] - 1] < p /\ p <= at[b[p]]
    BY Zenon, <2>1 DEF InParts
  <2>3. \A p \in 1..n : b[p] \in 1..N
    BY Zenon, <2>2
  <2> QED  BY Zenon, <2>1, <2>3 DEF InParts
<1>2. \A k \in 1..N : xs[k] \in R /\ xs[k].columns \in Seq(E) /\ \A c \in 1..Len(xs[k].columns) : <<xs[k].columns[c]>> \in Seq(E)
  <2> TAKE k \in 1..N
  <2>1. xs[k] \in R
    <3> HIDE DEF R
    <3>1. xs \in Seq(R)
      BY DEF R
    <3> QED  BY <3>1
  <2> DEFINE cs == xs[k].columns
  <2>2. cs \in Seq(E)
    BY Zenon, <2>1 DEF RowsWith
  <2> HIDE DEF cs, R
  <2>3. \A c \in 1..Len(cs) : <<cs[c]>> \in Seq(E)
    BY ONLY <2>2
  <2> QED  BY Zenon, <2>1, <2>2, <2>3 DEF cs
<1>3. \A p \in 1..n : rows[p].name = xs[b[p]].name
  <2> TAKE p \in 1..n
  <2> DEFINE c == p - at[b[p] - 1]
             x == xs[b[p]]
  <2>1. c \in 1..Len(x.columns) /\ of[p] = With(x, <<x.columns[c]>>)
    BY Zenon DEF RowsLaid
  <2>2. x \in RowsWith(D, W, E) /\ <<x.columns[c]>> \in Seq(E)
    <3> HIDE DEF c
    <3> QED  BY Zenon, <1>1, <1>2, <2>1
  <2> HIDE DEF c, x
  <2>3. Changes(x, <<x.columns[c]>>, D, RowsWith(D, W, E))
    BY Zenon, <2>2, OtherColumns
  <2>4. "name" \in D /\ "name" # "columns"
    BY Zenon DEF FieldsFit
  <2>5. of[p].name = x.name
    BY Zenon, <2>1, <2>3, <2>4 DEF Changes
  <2> QED  BY Zenon, <2>5 DEF x
<1>4. \A p \in 1..n : b[p] # 0 /\ (b[p] = b[p - 1] \/ b[p] = b[p - 1] + 1)
  <2>1. \A k \in 1..N : k # 0
    OBVIOUS
  <2> QED  BY Zenon, <1>1, <2>1
<1>5. \A p, q \in 1..n : rows[p].name = rows[q].name <=> b[p] = b[q]
  <2> TAKE p, q \in 1..n
  <2>1. b[p] \in 1..Len(xs) /\ b[q] \in 1..Len(xs)
    BY Zenon, <1>1
  <2>2. rows[p].name = xs[b[p]].name /\ rows[q].name = xs[b[q]].name
    BY Zenon, <1>3
  <2>3. xs[b[p]].name = xs[b[q]].name => b[p] = b[q]
    BY Zenon, <2>1
  <2> QED  BY Zenon, <2>2, <2>3
<1> QED  BY Zenon, <1>1, <1>4, <1>5 DEF Blocks

\* The first columns of x, one more at each step.
LEMMA OneMore ==
  ASSUME NEW E, NEW x \in Seq(E)
  PROVE  /\ SubSeq(x, 1, 0) = <<>> /\ SubSeq(x, 1, Len(x)) = x
         /\ \A c \in 0..Len(x) : SubSeq(x, 1, c) \in Seq(E)
         /\ \A c \in 1..Len(x) : SubSeq(x, 1, c) = SubSeq(x, 1, c - 1) \o <<x[c]>>
<1>1. SubSeq(x, 1, 0) = <<>> /\ SubSeq(x, 1, Len(x)) = x
  OBVIOUS
<1>2. ASSUME NEW c \in 0..Len(x) PROVE SubSeq(x, 1, c) \in Seq(E)
  OBVIOUS
<1>3. ASSUME NEW c \in 1..Len(x) PROVE SubSeq(x, 1, c) = SubSeq(x, 1, c - 1) \o <<x[c]>>
  <2>1. c - 1 \in 0..(Len(x) - 1) /\ (c - 1) + 1 = c
    OBVIOUS
  <2>2. SubSeq(x, 1, c - 1) \o <<x[(c - 1) + 1]>> = SubSeq(x, 1, (c - 1) + 1)
    BY Zenon, <2>1, HeadGrows
  <2> QED  BY Zenon, <2>1, <2>2
<1> QED  BY Zenon, <1>1, <1>2, <1>3

\* How much of entry e the first p rows tell.
TakenUpTo(at, e, p, l) == IF p <= at[e - 1] THEN 0 ELSE IF at[e] <= p THEN l ELSE p - at[e - 1]

Filling(at, b, e, n, l) ==
  /\ TakenUpTo(at, e, 0, l) = 0 /\ TakenUpTo(at, e, n, l) = l
  /\ \A p \in 0..n : TakenUpTo(at, e, p, l) \in 0..l
  /\ \A p \in 1..n : b[p] # e => TakenUpTo(at, e, p, l) = TakenUpTo(at, e, p - 1, l)
  /\ \A p \in 1..n : b[p] = e =>
       /\ p - at[e - 1] \in 1..l
       /\ TakenUpTo(at, e, p, l) = p - at[e - 1] /\ TakenUpTo(at, e, p - 1, l) = (p - at[e - 1]) - 1

\* The columns of an entry are read one after the other, in its own rows.
LEMMA UpToSteps ==
  ASSUME NEW n \in Nat, NEW N \in Nat, NEW at, Ends(at, n, N), NEW b, InParts(b, at, n, N),
         NEW e \in 1..N, NEW l \in Nat, at[e] = at[e - 1] + l
  PROVE  Filling(at, b, e, n, l)
<1> DEFINE x == at[e - 1]
           y == at[e]
<1>1. x \in 0..n /\ y \in 0..n /\ x < y /\ y = x + l
  <2>1. e - 1 \in 0..N /\ e \in 0..N
    OBVIOUS
  <2> QED  BY Zenon, <2>1 DEF Ends
<1>2. \A p \in 1..n : b[p] # e => p <= x \/ y <= p - 1
  BY Zenon, OtherPart
<1>3. \A p \in 1..n : b[p] = e => x < p /\ p <= y
  <2>1. \A p \in 1..n : b[p] \in 1..N /\ at[b[p] - 1] < p /\ p <= at[b[p]]
    BY Zenon DEF InParts
  <2> QED  BY Zenon, <2>1
<1> DEFINE u(p) == IF p <= x THEN 0 ELSE IF y <= p THEN l ELSE p - x
<1>4. \A p : TakenUpTo(at, e, p, l) = u(p)
  BY Zenon DEF TakenUpTo
<1> HIDE DEF x, y
<1>5. u(0) = 0 /\ u(n) = l
  BY ONLY <1>1, SMT
<1>6. ASSUME NEW p \in 0..n PROVE u(p) \in 0..l
  BY ONLY <1>1, SMT
<1>7. ASSUME NEW p \in 1..n, b[p] # e PROVE u(p) = u(p - 1)
  <2>1. p <= x \/ y <= p - 1
    BY Zenon, <1>2, <1>7
  <2> QED  BY ONLY <1>1, <2>1, SMT
<1>8. ASSUME NEW p \in 1..n, b[p] = e PROVE p - x \in 1..l /\ u(p) = p - x /\ u(p - 1) = (p - x) - 1
  <2>1. x < p /\ p <= y
    BY Zenon, <1>3, <1>8
  <2> QED  BY ONLY <1>1, <2>1, SMT
<1> HIDE DEF u
<1> QED  BY Zenon, <1>4, <1>5, <1>6, <1>7, <1>8 DEF Filling, x

\* The columns of the rows of entry e are its columns.
Tells(h, rows, b, e, E, cs) == Gathers(h, rows, Len(rows), b, e, E) /\ h[Len(rows)] = cs

\* The columns of the rows of an entry are its columns.
LEMMA ColumnsGather ==
  ASSUME NEW D, NEW W, NEW E, FieldsFit(D, W, E), NEW xs \in Seq(RowsWith(D, W, E)),
         NEW rows, Len(rows) \in Nat, NEW at, NEW b, RowsLaid(xs, rows, at, b), NEW e \in 1..Len(xs)
  PROVE  \E h : Tells(h, rows, b, e, E, xs[e].columns)
<1> DEFINE n == Len(rows)
           N == Len(xs)
           x == xs[e]
           cs == x.columns
           l == Len(cs)
           u(p) == TakenUpTo(at, e, p, l)
           h == [p \in 0..n |-> SubSeq(cs, 1, u(p))]
<1>1. x \in RowsWith(D, W, E) /\ N \in Nat
  <2> DEFINE R == RowsWith(D, W, E)
  <2> HIDE DEF R
  <2>1. xs \in Seq(R)
    BY DEF R
  <2>2. xs[e] \in R /\ Len(xs) \in Nat
    BY <2>1
  <2> QED  BY Zenon, <2>2 DEF R
<1>2. cs \in Seq(E)
  BY Zenon, <1>1 DEF RowsWith
<1>3. Ends(at, n, N) /\ InParts(b, at, n, N) /\ at[e] = at[e - 1] + l
  BY Zenon DEF RowsLaid
<1>4. \A p \in 1..n : b[p] = e => rows[p] = With(x, <<cs[p - at[e - 1]]>>)
  BY Zenon DEF RowsLaid
<1> HIDE DEF cs, x
<1>5. l \in Nat /\ \A c \in 1..l : <<cs[c]>> \in Seq(E)
  BY ONLY <1>2
<1> HIDE DEF l, n, N
<1>6. n \in Nat /\ e \in 1..N
  BY DEF n, N
<1>7. /\ u(0) = 0 /\ u(n) = l
      /\ \A p \in 0..n : u(p) \in 0..l
      /\ \A p \in 1..n : b[p] # e => u(p) = u(p - 1)
      /\ \A p \in 1..n : b[p] = e =>
           p - at[e - 1] \in 1..l /\ u(p) = p - at[e - 1] /\ u(p - 1) = (p - at[e - 1]) - 1
  <2>1. Filling(at, b, e, n, l)
    BY Zenon, <1>1, <1>3, <1>5, <1>6, UpToSteps
  <2> QED  BY Zenon, <2>1 DEF Filling
<1> HIDE DEF u
<1>8. /\ SubSeq(cs, 1, 0) = <<>> /\ SubSeq(cs, 1, l) = cs
      /\ \A c \in 0..l : SubSeq(cs, 1, c) \in Seq(E)
      /\ \A c \in 1..l : SubSeq(cs, 1, c) = SubSeq(cs, 1, c - 1) \o <<cs[c]>>
  BY Zenon, <1>2, OneMore DEF l
<1>9. 0 \in 0..n /\ n \in 0..n /\ \A p \in 1..n : p \in 0..n /\ p - 1 \in 0..n
  BY <1>6
<1>10. h \in [0..n -> Seq(E)] /\ h[0] = <<>> /\ h[n] = cs
  <2>1. \A p \in 0..n : SubSeq(cs, 1, u(p)) \in Seq(E)
    BY Zenon, <1>7, <1>8
  <2>2. h \in [0..n -> Seq(E)]
    BY Zenon, <2>1
  <2>3. h[0] = SubSeq(cs, 1, u(0)) /\ h[n] = SubSeq(cs, 1, u(n))
    BY Zenon, <1>9
  <2> QED  BY Zenon, <1>7, <1>8, <2>2, <2>3
<1>11. ASSUME NEW p \in 1..n PROVE h[p] = IF b[p] = e THEN h[p - 1] \o rows[p].columns ELSE h[p - 1]
  <2>1. h[p] = SubSeq(cs, 1, u(p)) /\ h[p - 1] = SubSeq(cs, 1, u(p - 1))
    BY Zenon, <1>9
  <2> HIDE DEF h
  <2>2. CASE b[p] # e
    BY Zenon, <1>7, <2>1, <2>2
  <2>3. CASE b[p] = e
    <3> DEFINE c == p - at[e - 1]
    <3>1. c \in 1..l /\ u(p) = c /\ u(p - 1) = c - 1 /\ rows[p] = With(x, <<cs[c]>>)
      BY Zenon, <1>4, <1>7, <2>3
    <3> HIDE DEF c
    <3>2. rows[p].columns = <<cs[c]>>
      <4>1. <<cs[c]>> \in Seq(E)
        BY Zenon, <1>5, <3>1
      <4>2. Changes(x, <<cs[c]>>, D, RowsWith(D, W, E))
        BY Zenon, <1>1, <4>1, OtherColumns
      <4> QED  BY Zenon, <3>1, <4>2 DEF Changes
    <3> QED  BY Zenon, <1>8, <2>1, <2>3, <3>1, <3>2
  <2> QED  BY Zenon, <2>2, <2>3
<1> HIDE DEF h
<1>12. Gathers(h, rows, n, b, e, E)
  BY Zenon, <1>10, <1>11 DEF Gathers
<1> QED  BY Zenon, <1>10, <1>12 DEF Tells, n, cs, x

\* Entries told by their columns, row by row, are joined to what they were.
LEMMA EntriesComeBack ==
  ASSUME NEW D, NEW W, NEW E, FieldsFit(D, W, E), NEW xs \in Seq(RowsWith(D, W, E)),
         \A k \in 1..Len(xs) : xs[k].columns # <<>>,
         \A j, k \in 1..Len(xs) : xs[j].name = xs[k].name => j = k
  PROVE  Joined(RowsOfColumns(xs)) = xs
<1> DEFINE R == RowsWith(D, W, E)
           rows == RowsOfColumns(xs)
           n == Len(rows)
           N == Len(xs)
           z == Joined(rows)
<1>1. rows \in Seq(RowsWith(D, W, E)) /\ \E at, b : RowsLaid(xs, rows, at, b)
  BY Zenon, RowsAreLaid
<1>2. PICK at, b : RowsLaid(xs, rows, at, b)
  BY Zenon, <1>1
<1> HIDE DEF rows
<1>3. n \in Nat /\ N \in Nat /\ \A p \in 1..n : rows[p] \in R
  <2> HIDE DEF R
  <2>1. rows \in Seq(R) /\ xs \in Seq(R)
    BY <1>1 DEF R
  <2> QED  BY <2>1
<1>4. Blocks(rows, n, N, b)
  <2>1. \A p \in 1..Len(rows) : rows[p].name = rows[p].name
    OBVIOUS
  <2> QED  BY Zenon, <1>2, <2>1, NamesMakeBlocks
<1> DEFINE H == [e \in 1..N |-> CHOOSE h : Tells(h, rows, b, e, E, xs[e].columns)]
<1>5. \A e \in 1..N : Gathers(H[e], rows, n, b, e, E) /\ H[e][n] = xs[e].columns
  <2> TAKE e \in 1..N
  <2>1. \E h : Tells(h, rows, b, e, E, xs[e].columns)
    BY Zenon, <1>2, <1>3, ColumnsGather
  <2>2. Tells(H[e], rows, b, e, E, xs[e].columns)
    BY Zenon, <2>1
  <2> HIDE DEF H
  <2> QED  BY Zenon, <2>2 DEF Tells
<1> HIDE DEF H
<1>6. \A e \in 1..N : Gathers(H[e], rows, Len(rows), b, e, E)
  BY Zenon, <1>5
<1>7. /\ z \in Seq(RowsWith(D, W, E)) /\ Len(z) = N
      /\ \A e \in 1..N : IsEntry(z[e], e, n, rows, b, H)
  <2>1. InBlocks(z, n, N, rows, b, H, RowsWith(D, W, E))
    BY Zenon, <1>1, <1>3, <1>4, <1>6, BlocksJoin
  <2> QED  BY Zenon, <2>1 DEF InBlocks
<1> HIDE DEF z
<1>8. \A e \in 1..N : z[e] = xs[e]
  <2> TAKE e \in 1..N
  <2>1. PICK f : OpensBlock(f, b, e, n) /\ z[e] = With(rows[f], H[e][n])
    BY Zenon, <1>7 DEF IsEntry
  <2>2. f \in 1..n /\ b[f] = e
    BY Zenon, <2>1 DEF OpensBlock
  <2> DEFINE c == f - at[b[f] - 1]
             x == xs[e]
             d == <<x.columns[c]>>
  <2>3. rows[f] = With(x, d)
    BY Zenon, <1>2, <2>2 DEF RowsLaid
  <2>4. x \in RowsWith(D, W, E)
    <3> HIDE DEF R
    <3>1. xs \in Seq(R)
      BY DEF R
    <3>2. xs[e] \in R
      BY <3>1
    <3> QED  BY Zenon, <3>2 DEF R
  <2> HIDE DEF x, c, d
  <2>5. x.columns \in Seq(E)
    BY Zenon, <2>4 DEF RowsWith
  <2>6. Changes(x, x.columns, D, RowsWith(D, W, E))
    BY Zenon, <2>4, <2>5, OtherColumns
  <2>7. With(With(x, d), x.columns) = x
    BY Zenon, <2>6 DEF Changes
  <2> QED  BY Zenon, <1>5, <2>1, <2>3, <2>7 DEF x
<1>9. z = xs
  <2> HIDE DEF R
  <2>1. z \in Seq(R) /\ xs \in Seq(R) /\ Len(z) = Len(xs)
    BY <1>7 DEF R
  <2>2. \A e \in 1..Len(xs) : z[e] = xs[e]
    BY Zenon, <1>8
  <2> QED  BY ONLY <2>1, <2>2
<1> QED  BY Zenon, <1>9 DEF z, rows

\* The columns of some entries.
Cols(s) == [k \in DOMAIN s |-> s[k].columns]
ColsFit(c, s, E) ==
  /\ c \in Seq(Seq(E)) /\ Len(c) = Len(s) /\ Len(s) \in Nat
  /\ \A e \in 1..Len(s) : c[e] = s[e].columns /\ c[e] \in Seq(E)

\* The columns of rows are lists.
LEMMA ColsAre ==
  ASSUME NEW D, NEW W, NEW E, NEW s \in Seq(RowsWith(D, W, E))
  PROVE  ColsFit(Cols(s), s, E)
<1> DEFINE R == RowsWith(D, W, E)
           S == Seq(E)
           n == Len(s)
           c(k) == s[k].columns
<1>0. n \in Nat /\ DOMAIN s = 1..n /\ \A k \in 1..n : s[k] \in R
  <2> HIDE DEF R
  <2>1. s \in Seq(R)
    BY DEF R
  <2> QED  BY <2>1
<1>1. \A k \in 1..n : c(k) \in S
  BY Zenon, <1>0 DEF RowsWith
<1>2. Cols(s) = [k \in 1..n |-> c(k)]
  BY Zenon, <1>0 DEF Cols
<1> HIDE DEF c, n, S, R
<1>3. [k \in 1..n |-> c(k)] \in Seq(S) /\ Len([k \in 1..n |-> c(k)]) = n
  BY ONLY <1>0, <1>1
<1>4. \A k \in 1..n : [j \in 1..n |-> c(j)][k] = c(k)
  BY Zenon
<1> QED  BY Zenon, <1>0, <1>1, <1>2, <1>3, <1>4 DEF ColsFit, S, n, c

\* A list with a longer last part.
LEMMA FlattenGrows ==
  ASSUME NEW E, NEW P \in Seq(Seq(E)), NEW Q \in Seq(Seq(E)), NEW m \in Nat, m > 0, Len(P) = m, Len(Q) = m,
         \A e \in 1..(m - 1) : P[e] = Q[e], NEW x \in Seq(E), P[m] = Q[m] \o x
  PROVE  FlattenSeq(P) = FlattenSeq(Q) \o x
<1> DEFINE S == Seq(E)
           l == m - 1
           F == SubSeq(Q, 1, l)
<1>1. l \in Nat /\ l <= m /\ m = l + 1
  OBVIOUS
<1> HIDE DEF l
<1>2. F \in Seq(S) /\ Len(F) = l /\ \A e \in 1..l : F[e] = Q[e]
  <2>1. Q \in Seq(S)
    OBVIOUS
  <2> HIDE DEF S
  <2> QED  BY ONLY <1>1, <2>1, Len(Q) = m, SMT
<1>3. Q[m] \in Seq(E)
  <2>1. Q \in Seq(S) /\ m \in 1..Len(Q)
    OBVIOUS
  <2> HIDE DEF S
  <2>2. Q[m] \in S
    BY ONLY <2>1
  <2> QED  BY Zenon, <2>2 DEF S
<1> HIDE DEF F
<1>4. \A e \in 1..Len(F) : P[e] = F[e] /\ Q[e] = F[e]
  BY <1>1, <1>2 DEF l
<1>5. FlattenSeq(P) = FlattenSeq(F) \o P[Len(P)]
  <2>1. Len(P) = Len(F) + 1 /\ \A e \in 1..Len(F) : P[e] = F[e]
    BY <1>1, <1>2, <1>4
  <2>2. F \in Seq(Seq(E))
    BY Zenon, <1>2
  <2> QED  BY Zenon, <2>1, <2>2, FlattenLast
<1>6. FlattenSeq(Q) = FlattenSeq(F) \o Q[Len(Q)]
  <2>1. Len(Q) = Len(F) + 1 /\ \A e \in 1..Len(F) : Q[e] = F[e]
    BY <1>1, <1>2, <1>4
  <2>2. F \in Seq(Seq(E))
    BY Zenon, <1>2
  <2> QED  BY Zenon, <2>1, <2>2, FlattenLast
<1>7. FlattenSeq(F) \in Seq(E)
  <2>1. F \in Seq(Seq(E))
    BY Zenon, <1>2
  <2> QED  BY Zenon, <2>1, FlattenPlaces
<1>8. (FlattenSeq(F) \o Q[m]) \o x = FlattenSeq(F) \o (Q[m] \o x)
  <2> DEFINE a == FlattenSeq(F)
             c == Q[m]
  <2>1. a \in Seq(E) /\ c \in Seq(E)
    BY Zenon, <1>3, <1>7
  <2> HIDE DEF a, c
  <2>2. (a \o c) \o x = a \o (c \o x)
    <3>1. Laws(Seq(E), E)
      BY LawsHold
    <3>2. Three(a, c, x)
      BY Zenon, <2>1, <3>1 DEF Laws
    <3> QED  BY Zenon, <3>2 DEF Three
  <2> QED  BY Zenon, <2>2 DEF a, c
<1> QED  BY Zenon, <1>5, <1>6, <1>8

\* Joining loses, repeats and reorders no column.
LEMMA ColumnsStay ==
  ASSUME NEW D, NEW W, NEW E, FieldsFit(D, W, E), NEW rows \in Seq(RowsWith(D, W, E))
  PROVE  FlattenSeq(Cols(Joined(rows))) = FlattenSeq(Cols(rows))
<1> DEFINE R == RowsWith(D, W, E)
           n == Len(rows)
           P == Cols(rows)
<1>0. n \in Nat /\ 0 \in 0..n /\ n \in 0..n /\ \A p \in 1..n : rows[p] \in R
  <2> HIDE DEF R
  <2>1. rows \in Seq(R)
    BY DEF R
  <2> QED  BY <2>1
<1>1. \A a \in Seq(R), r \in R : JoinRow(a, r) \in Seq(R)
  <2> TAKE a \in Seq(R), r \in R
  <2>1. NextRow(a, r, JoinRow(a, r), RowsWith(D, W, E))
    BY Zenon, JoinRowIs
  <2> QED  BY Zenon, <2>1 DEF NextRow
<1>2. PICK g \in [0..n -> Seq(R)] :
        /\ g[0] = <<>> /\ Joined(rows) = g[n]
        /\ \A i \in 1..n : g[i] = JoinRow(g[i - 1], rows[i])
  <2> HIDE DEF R
  <2>1. rows \in Seq(R)
    BY DEF R
  <2> QED  BY <1>1, <2>1, JoinedIs
<1>3. ColsFit(P, rows, E)
  BY Zenon, ColsAre
<1>4. PICK h : StartsOf(P, E, h)
  <2>1. P \in Seq(Seq(E))
    BY Zenon, <1>3 DEF ColsFit
  <2> QED  BY Zenon, <2>1, StartsExist
<1>5. /\ h[0] = <<>> /\ FlattenSeq(P) = h[n]
      /\ \A i \in 1..n : h[i] = h[i - 1] \o rows[i].columns
  <2>1. Len(P) = n /\ \A i \in 1..n : P[i] = rows[i].columns
    BY Zenon, <1>3 DEF ColsFit
  <2> QED  BY Zenon, <1>4, <2>1 DEF StartsOf
<1> HIDE DEF P
<1> DEFINE T == {i \in 0..n : FlattenSeq(Cols(g[i])) = h[i]}
<1>6. 0 \in T
  <2> DEFINE e == <<>>
             c == Cols(e)
  <2>1. g[0] = e /\ e \in Seq(R) /\ Len(e) = 0
    BY Zenon, <1>0, <1>2
  <2> HIDE DEF e
  <2>2. ColsFit(c, e, E)
    BY Zenon, <2>1, ColsAre
  <2>3. c \in Seq(Seq(E)) /\ Len(c) = 0
    BY Zenon, <2>1, <2>2 DEF ColsFit
  <2>4. PICK k : StartsOf(c, E, k)
    BY Zenon, <2>3, StartsExist
  <2>5. FlattenSeq(c) = <<>>
    BY Zenon, <2>3, <2>4 DEF StartsOf
  <2> QED  BY Zenon, <1>0, <1>5, <2>1, <2>5
<1>7. ASSUME NEW i \in 0..(n - 1), i \in T PROVE i + 1 \in T
  <2> DEFINE a == g[i]
             r == rows[i + 1]
             z == g[i + 1]
             m == Len(a)
  <2>1. i + 1 \in 1..n /\ (i + 1) - 1 = i /\ i + 1 \in 0..n /\ i \in 0..n
    BY <1>0
  <2>2. a \in Seq(R) /\ r \in R /\ z = JoinRow(a, r) /\ z \in Seq(R)
    BY Zenon, <1>0, <1>2, <2>1
  <2>3. FlattenSeq(Cols(a)) = h[i] /\ h[i + 1] = h[i] \o r.columns
    BY Zenon, <1>5, <1>7, <2>1
  <2> HIDE DEF a, r, z
  <2>4. NextRow(a, r, z, RowsWith(D, W, E))
    BY Zenon, <2>2, JoinRowIs
  <2>5. ColsFit(Cols(a), a, E) /\ ColsFit(Cols(z), z, E) /\ r.columns \in Seq(E)
    BY Zenon, <2>2, ColsAre DEF RowsWith
  <2> DEFINE p == Cols(z)
             q == Cols(a)
  <2> HIDE DEF m
  <2>6. p \in Seq(Seq(E)) /\ q \in Seq(Seq(E)) /\ m \in Nat /\ Len(q) = m /\ Len(p) = Len(z)
    BY Zenon, <2>5 DEF ColsFit, m
  <2>7. (\A e \in 1..m : q[e] = a[e].columns /\ q[e] \in Seq(E)) /\ (\A e \in 1..Len(z) : p[e] = z[e].columns)
    BY Zenon, <2>5 DEF ColsFit, m
  <2> HIDE DEF p, q
  <2>8. FlattenSeq(p) = FlattenSeq(q) \o r.columns
    <3>1. CASE GoesOn(a, r)
      <4>1. m > 0 /\ Len(z) = m /\ (\A e \in 1..(m - 1) : z[e] = a[e]) /\ z[m] = With(a[m], a[m].columns \o r.columns)
        BY Zenon, <2>4, <3>1 DEF NextRow, GoesOn, m
      <4>2. m \in 1..m /\ \A e \in 1..(m - 1) : e \in 1..m
        BY ONLY <2>6, <4>1, SMT
      <4>3. z[m].columns = a[m].columns \o r.columns
        <5> DEFINE y == a[m]
                   c == a[m].columns \o r.columns
        <5>1. y \in RowsWith(D, W, E)
          <6> HIDE DEF R
          <6>1. a[m] \in R
            BY <2>2, <4>1 DEF m
          <6> QED  BY Zenon, <6>1 DEF R
        <5>2. c \in Seq(E)
          <6>1. a[m].columns \in Seq(E)
            BY Zenon, <5>1 DEF RowsWith
          <6> QED  BY Zenon, <2>5, <6>1, Joins
        <5> HIDE DEF y, c
        <5>3. Changes(y, c, D, RowsWith(D, W, E))
          BY Zenon, <5>1, <5>2, OtherColumns
        <5>4. With(y, c).columns = c
          BY Zenon, <5>3 DEF Changes
        <5> QED  BY Zenon, <4>1, <5>4 DEF y, c
      <4>4. Len(p) = m /\ Len(q) = m /\ (\A e \in 1..(m - 1) : p[e] = q[e]) /\ p[m] = q[m] \o r.columns
        BY Zenon, <2>6, <2>7, <4>1, <4>2, <4>3
      <4> QED  BY Zenon, <2>5, <2>6, <4>1, <4>4, FlattenGrows
    <3>2. CASE ~GoesOn(a, r)
      <4>1. Len(z) = m + 1 /\ (\A e \in 1..m : z[e] = a[e]) /\ z[m + 1] = r
        BY Zenon, <2>4, <3>2 DEF NextRow, m
      <4>2. m + 1 \in 1..(m + 1) /\ \A e \in 1..m : e \in 1..(m + 1)
        BY ONLY <2>6, SMT
      <4>3. Len(p) = Len(q) + 1 /\ (\A e \in 1..Len(q) : p[e] = q[e]) /\ p[Len(p)] = r.columns
        BY Zenon, <2>6, <2>7, <4>1, <4>2
      <4>4. FlattenSeq(p) = FlattenSeq(q) \o p[Len(p)]
        BY Zenon, <2>6, <4>3, FlattenLast
      <4> QED  BY Zenon, <4>3, <4>4
    <3> QED  BY Zenon, <3>1, <3>2
  <2>9. FlattenSeq(Cols(z)) = h[i + 1]
    BY Zenon, <2>3, <2>8 DEF p, q
  <2> QED  BY Zenon, <2>1, <2>9 DEF z
<1>8. 0..n \subseteq T
  <2> HIDE DEF T
  <2> QED  BY <1>0, <1>6, <1>7, InductionUpTo
<1>9. FlattenSeq(Cols(g[n])) = h[n]
  BY Zenon, <1>0, <1>8
<1> QED  BY Zenon, <1>2, <1>5, <1>9 DEF P

\* The columns of the rows ks, joined.
PartOf(rows, ks) == FlattenSeq([k \in DOMAIN rows |-> IF k \in ks THEN rows[k].columns ELSE <<>>])

\* They are gathered row by row.
LEMMA PartGathers ==
  ASSUME NEW D, NEW W, NEW E, NEW rows \in Seq(RowsWith(D, W, E)), NEW b, NEW e, NEW ks,
         \A p \in 1..Len(rows) : p \in ks <=> b[p] = e
  PROVE  \E h : Tells(h, rows, b, e, E, PartOf(rows, ks))
<1> DEFINE R == RowsWith(D, W, E)
           S == Seq(E)
           n == Len(rows)
           part(k) == IF k \in ks THEN rows[k].columns ELSE <<>>
           P == [k \in 1..n |-> part(k)]
<1>0. n \in Nat /\ DOMAIN rows = 1..n /\ \A k \in 1..n : rows[k] \in R
  <2> HIDE DEF R
  <2>1. rows \in Seq(R)
    BY DEF R
  <2> QED  BY <2>1
<1>1. \A k \in 1..n : rows[k].columns \in S
  BY Zenon, <1>0 DEF RowsWith
<1>2. <<>> \in S
  OBVIOUS
<1>3. \A k \in 1..n : part(k) \in S
  BY Zenon, <1>1, <1>2
<1>4. PartOf(rows, ks) = FlattenSeq(P)
  BY Zenon, <1>0 DEF PartOf
<1>5. \A p \in 1..n : part(p) = IF b[p] = e THEN rows[p].columns ELSE <<>>
  BY Zenon
<1> HIDE DEF S, n, part
<1>6. P \in Seq(S) /\ Len(P) = n
  BY ONLY <1>0, <1>3
<1>7. \A p \in 1..n : P[p] = part(p)
  BY Zenon
<1> HIDE DEF P
<1>8. PICK h : StartsOf(P, E, h)
  BY Zenon, <1>6, StartsExist DEF S
<1>9. h \in [0..n -> Seq(E)] /\ h[0] = <<>> /\ FlattenSeq(P) = h[n] /\ \A i \in 1..n : h[i] = h[i - 1] \o P[i]
  BY Zenon, <1>6, <1>8 DEF StartsOf
<1>10. ASSUME NEW p \in 1..n PROVE h[p] = IF b[p] = e THEN h[p - 1] \o rows[p].columns ELSE h[p - 1]
  <2>1. h[p] = h[p - 1] \o P[p]
    BY Zenon, <1>9
  <2>2. CASE b[p] = e
    <3>1. P[p] = rows[p].columns
      BY Zenon, <1>5, <1>7, <2>2
    <3> QED  BY Zenon, <2>1, <2>2, <3>1
  <2>3. CASE b[p] # e
    <3>1. P[p] = <<>>
      BY Zenon, <1>5, <1>7, <2>3
    <3>2. h[p - 1] \in Seq(E)
      <4>1. p - 1 \in 0..n
        BY <1>0
      <4> QED  BY Zenon, <1>9, <4>1
    <3>3. h[p - 1] \o <<>> = h[p - 1]
      <4> DEFINE x == h[p - 1]
      <4> HIDE DEF x
      <4>1. x \in Seq(E)
        BY Zenon, <3>2 DEF x
      <4>2. x \o <<>> = x
        BY Zenon, <4>1, EmptyJoins
      <4> QED  BY Zenon, <4>2 DEF x
    <3> QED  BY Zenon, <2>1, <2>3, <3>1, <3>3
  <2> QED  BY Zenon, <2>2, <2>3
<1>11. Gathers(h, rows, n, b, e, E)
  BY Zenon, <1>9, <1>10 DEF Gathers
<1> QED  BY Zenon, <1>4, <1>9, <1>11 DEF Tells, n

\* Rows that may have lost columns, but no name, are joined to one entry for each
\* name: its first row, with the columns of all of them.
NamedIn(of, name) == {p \in DOMAIN of : of[p].name = name}
Sums(x, of, rows) ==
  \E f \in NamedIn(of, x.name) :
    /\ \A p \in NamedIn(of, x.name) : f <= p
    /\ x = With(rows[f], PartOf(rows, NamedIn(of, x.name)))
NamesOf(z) == {z[k].name : k \in DOMAIN z}
OnePerName(z, of, rows) ==
  /\ NamesOf(z) = NamesOf(of)
  /\ \A k \in DOMAIN z : Sums(z[k], of, rows)

\* Two lists name the same if each name of one is in the other.
LEMMA SameNames ==
  ASSUME NEW z, NEW of, \A k \in DOMAIN z : \E f \in DOMAIN of : z[k].name = of[f].name,
         \A f \in DOMAIN of : \E k \in DOMAIN z : z[k].name = of[f].name
  PROVE  NamesOf(z) = NamesOf(of)
<1> DEFINE A == {z[k].name : k \in DOMAIN z}
           B == {of[k].name : k \in DOMAIN of}
<1>1. ASSUME NEW a \in A PROVE a \in B
  <2> PICK k \in DOMAIN z : a = z[k].name
    OBVIOUS
  <2> PICK f \in DOMAIN of : z[k].name = of[f].name
    OBVIOUS
  <2> QED  OBVIOUS
<1>2. ASSUME NEW a \in B PROVE a \in A
  <2> PICK f \in DOMAIN of : a = of[f].name
    OBVIOUS
  <2> PICK k \in DOMAIN z : z[k].name = of[f].name
    OBVIOUS
  <2> QED  OBVIOUS
<1>3. A = B
  BY Zenon, <1>1, <1>2
<1> QED  BY Zenon, <1>3 DEF NamesOf

\* Every entry that the rows are joined to sums up the rows of its name.
LEMMA NamesAreJoined ==
  ASSUME NEW C, NEW D, NEW W, NEW E, FieldsFit(C, W, E), FieldsFit(D, W, E),
         NEW xs \in Seq(RowsWith(C, W, E)), \A j, k \in 1..Len(xs) : xs[j].name = xs[k].name => j = k,
         NEW of, NEW at, NEW b, RowsLaid(xs, of, at, b),
         NEW rows \in Seq(RowsWith(D, W, E)), DOMAIN of = 1..Len(of), Len(rows) = Len(of),
         \A p \in 1..Len(of) : rows[p].name = of[p].name
  PROVE  OnePerName(Joined(rows), of, rows)
<1> DEFINE R == RowsWith(D, W, E)
           n == Len(rows)
           N == Len(xs)
           z == Joined(rows)
           block(e) == {p \in 1..n : b[p] = e}
           H == [e \in 1..N |-> CHOOSE h : Tells(h, rows, b, e, E, PartOf(rows, block(e)))]
<1>1. N \in Nat /\ n \in Nat /\ \A p \in 1..n : rows[p] \in R
  <2> DEFINE S == RowsWith(C, W, E)
  <2> HIDE DEF R, S
  <2>1. xs \in Seq(S) /\ rows \in Seq(R)
    BY DEF R, S
  <2> QED  BY <2>1
<1>2. Blocks(rows, n, N, b)
  BY Zenon, NamesMakeBlocks
<1>3. \A e \in 1..N : Gathers(H[e], rows, n, b, e, E) /\ H[e][n] = PartOf(rows, block(e))
  <2> TAKE e \in 1..N
  <2> DEFINE ks == block(e)
  <2>1. \A p \in 1..Len(rows) : p \in ks <=> b[p] = e
    OBVIOUS
  <2> HIDE DEF ks
  <2>2. \E h : Tells(h, rows, b, e, E, PartOf(rows, ks))
    BY Zenon, <2>1, PartGathers
  <2>3. Tells(H[e], rows, b, e, E, PartOf(rows, ks))
    BY Zenon, <2>2 DEF ks
  <2> HIDE DEF H
  <2> QED  BY Zenon, <2>3 DEF Tells, ks
<1> HIDE DEF H, block
<1>4. InBlocks(z, n, N, rows, b, H, RowsWith(D, W, E))
  <2>1. \A e \in 1..N : Gathers(H[e], rows, Len(rows), b, e, E)
    BY Zenon, <1>3
  <2> QED  BY Zenon, <1>1, <1>2, <2>1, BlocksJoin
<1>5. z \in Seq(R) /\ Len(z) = N /\ \A e \in 1..N : IsEntry(z[e], e, n, rows, b, H)
  BY Zenon, <1>4 DEF InBlocks
<1> HIDE DEF z
<1>6. DOMAIN z = 1..N
  <2> HIDE DEF R
  <2> QED  BY <1>5
<1>7. ASSUME NEW e \in 1..N, NEW f, OpensBlock(f, b, e, n), z[e] = With(rows[f], H[e][n])
      PROVE  /\ f \in 1..n /\ b[f] = e /\ z[e].name = of[f].name
             /\ NamedIn(of, z[e].name) = block(e)
             /\ Sums(z[e], of, rows)
  <2>1. f \in 1..n /\ b[f] = e /\ \A p \in 1..n : b[p] = e => f <= p
    BY Zenon, <1>7 DEF OpensBlock
  <2>2. z[e] = With(rows[f], PartOf(rows, block(e)))
    BY Zenon, <1>3, <1>7
  <2>3. rows[f] \in RowsWith(D, W, E) /\ H[e][n] \in Seq(E)
    <3>1. n \in 0..n
      BY <1>1
    <3> QED  BY Zenon, <1>1, <1>3, <2>1, <3>1 DEF Gathers
  <2>4. z[e].name = rows[f].name
    <3> DEFINE q == rows[f]
               c == H[e][n]
    <3>1. q \in RowsWith(D, W, E) /\ c \in Seq(E)
      BY Zenon, <2>3
    <3> HIDE DEF q, c
    <3>2. Changes(q, c, D, RowsWith(D, W, E))
      BY Zenon, <3>1, OtherColumns
    <3>3. "name" \in D /\ "name" # "columns"
      BY Zenon DEF FieldsFit
    <3>4. With(q, c).name = q.name
      BY Zenon, <3>2, <3>3 DEF Changes
    <3> QED  BY Zenon, <1>7, <3>4 DEF q, c
  <2>5. \A p \in 1..n : rows[p].name = of[p].name
    OBVIOUS
  <2>6. z[e].name = of[f].name
    BY Zenon, <2>1, <2>4, <2>5
  <2>7. \A p, q \in 1..n : rows[p].name = rows[q].name <=> b[p] = b[q]
    BY Zenon, <1>2 DEF Blocks
  <2>8. \A p \in 1..n : of[p].name = z[e].name <=> b[p] = e
    <3> TAKE p \in 1..n
    <3>1. rows[p].name = of[p].name
      BY Zenon, <2>5
    <3>2. rows[p].name = rows[f].name <=> b[p] = b[f]
      BY Zenon, <2>1, <2>7
    <3>3. b[f] = e /\ z[e].name = rows[f].name
      BY Zenon, <2>1, <2>4
    <3> QED  BY Zenon, <3>1, <3>2, <3>3
  <2>9. NamedIn(of, z[e].name) = {p \in 1..n : of[p].name = z[e].name}
    BY Zenon DEF NamedIn
  <2>10. NamedIn(of, z[e].name) = block(e)
    BY Zenon, <2>8, <2>9 DEF block
  <2>11. Sums(z[e], of, rows)
    <3>1. f \in block(e) /\ \A p \in block(e) : f <= p
      BY Zenon, <2>1 DEF block
    <3> QED  BY Zenon, <2>2, <2>10, <3>1 DEF Sums
  <2> QED  BY Zenon, <2>1, <2>6, <2>10, <2>11
<1>8. \A e \in 1..N : Sums(z[e], of, rows) /\ \E f \in 1..n : z[e].name = of[f].name
  BY Zenon, <1>5, <1>7 DEF IsEntry
<1>9. \A f \in 1..n : \E e \in 1..N : z[e].name = of[f].name
  <2> TAKE f \in 1..n
  <2>1. b[f] \in 1..N
    <3>1. b[f] \in 0..N /\ b[f] # 0
      <4>1. f \in 0..n
        OBVIOUS
      <4> QED  BY Zenon, <1>2, <4>1 DEF Blocks
    <3> QED  BY <3>1
  <2> DEFINE e == b[f]
  <2>2. PICK g : OpensBlock(g, b, e, n) /\ z[e] = With(rows[g], H[e][n])
    BY Zenon, <1>5, <2>1 DEF IsEntry
  <2>3. NamedIn(of, z[e].name) = block(e)
    BY Zenon, <1>7, <2>1, <2>2
  <2>4. f \in block(e)
    BY Zenon DEF block
  <2> HIDE DEF e
  <2>5. of[f].name = z[e].name
    BY Zenon, <2>3, <2>4 DEF NamedIn
  <2>6. e \in 1..N
    BY Zenon, <2>1 DEF e
  <2> QED  BY Zenon, <2>5, <2>6
<1>10. NamesOf(z) = NamesOf(of)
  <2>1. DOMAIN of = 1..n
    BY Zenon
  <2>2. \A k \in DOMAIN z : \E f \in DOMAIN of : z[k].name = of[f].name
    BY Zenon, <1>6, <1>8, <2>1
  <2>3. \A f \in DOMAIN of : \E k \in DOMAIN z : z[k].name = of[f].name
    BY Zenon, <1>6, <1>9, <2>1
  <2>4. DOMAIN z = 1..N /\ DOMAIN of = 1..n
    BY Zenon, <1>6, <2>1
  <2> HIDE DEF N, n
  <2> QED  BY ONLY <2>2, <2>3, SameNames, Zenon
<1> QED  BY Zenon, <1>6, <1>8, <1>10 DEF OnePerName, z

\* The fields of an index as MySQL tells of it and as it is shown, and their values.
Texts == Seq(STRING)
ToldFields == {"name", "columns", "unique", "include", "predicate", "method", "options", "operators", "table"}
ShownFields == {"name", "columns", "unique", "include", "predicate", "method"}
FieldValues == {""} \cup STRING \cup BOOLEAN \cup Texts \cup Seq(Texts)
ToldRows == RowsWith(ToldFields, FieldValues, Texts)
ShownRows == RowsWith(ShownFields, FieldValues, Texts)

\* Columns and names are among the fields.
LEMMA IndexFieldsFit == FieldsFit(ToldFields, FieldValues, Texts) /\ FieldsFit(ShownFields, FieldValues, Texts)
BY DEF FieldsFit, ToldFields, ShownFields, FieldValues

ToldByServer(xs) ==
  /\ xs \in Seq(ToldRows)
  /\ \A k \in 1..Len(xs) : xs[k].columns # <<>>
  /\ \A j, k \in 1..Len(xs) : xs[j].name = xs[k].name => j = k

\* The indexes of MySQL are such rows.
LEMMA IndexesAreTold == ToldByServer(Indexes["mysql"])
<1> DEFINE R == [name : STRING, columns : Seq(Texts), unique : BOOLEAN,
                 include : Texts, predicate : Texts, method : Texts,
                 options : Texts, operators : Seq(Texts), table : Texts]
           xs == Indexes["mysql"]
<1>1. xs \in Seq(R)
  BY Zenon, RecordsAssumption DEF Texts
<1>2. R \subseteq ToldRows
  <2> DEFINE T == Texts
             TT == Seq(T)
             Z == {""}
  <2> HIDE DEF T, TT, Z
  <2>1. ASSUME NEW r \in [name : STRING, columns : TT, unique : BOOLEAN, include : T, predicate : T,
                          method : T, options : T, operators : TT, table : T]
        PROVE  r \in [ToldFields -> Z \cup STRING \cup BOOLEAN \cup T \cup TT] /\ r.columns \in TT
    <3>1. r.columns \in TT
      BY ONLY <2>1
    <3>2. r \in [{"name", "columns", "unique", "include", "predicate", "method", "options", "operators", "table"}
                   -> Z \cup STRING \cup BOOLEAN \cup T \cup TT]
      BY ONLY <2>1
    <3> QED  BY Zenon, <3>1, <3>2 DEF ToldFields
  <2> QED  BY Zenon, <2>1 DEF ToldRows, RowsWith, FieldValues, T, TT, Z
<1> HIDE DEF R
<1>3. xs \in Seq(ToldRows) /\ DOMAIN xs = 1..Len(xs)
  BY <1>1, <1>2
<1>4. \A k \in DOMAIN xs : xs[k].columns # <<>>
  BY Zenon, ReadAssumption
<1>5. \A j, k \in DOMAIN xs : xs[j].name = xs[k].name => j = k
  BY Zenon, ReadAssumption
<1> QED  BY Zenon, <1>3, <1>4, <1>5 DEF ToldByServer

\* What a row of MySQL is read as.
LEMMA EntryIsShown ==
  ASSUME NEW x \in ToldRows, NEW s
  PROVE  MySqlEntry(x, s) \in ShownRows
<1> DEFINE T == Texts
           TT == Seq(T)
           V == FieldValues
           y == MySqlEntry(x, s)
<1>1. x \in [ToldFields -> V] /\ x.columns \in TT
  BY Zenon DEF ToldRows, RowsWith
<1>2. "" \in V /\ <<>> \in V /\ <<>> \in TT /\ BOOLEAN \subseteq V /\ TT \subseteq V
  <2>1. <<>> \in T
    BY DEF Texts
  <2>2. <<>> \in TT
    OBVIOUS
  <2> HIDE DEF T, TT
  <2> QED  BY Zenon, <2>1, <2>2 DEF FieldValues, T, TT
<1>3. "name" \in ToldFields /\ "unique" \in ToldFields /\ "method" \in ToldFields
  BY Zenon DEF ToldFields
<1> HIDE DEF T, TT, V
<1>4. x["name"] \in V /\ x["method"] \in V
  BY Zenon, <1>1, <1>3
<1> DEFINE n == IF IndexName \in s THEN "" ELSE x.name
           c == IF "index_column" \in s THEN <<>> ELSE x.columns
           u == x.unique /\ "non_unique_flag" \notin s
           m == IF "index_type" \in s THEN <<>> ELSE x.method
<1>5. n \in V /\ c \in TT /\ u \in BOOLEAN /\ m \in V
  <2>1. x.name \in V /\ x.method \in V
    BY Zenon, <1>4
  <2>2. n \in V
    BY Zenon, <1>2, <2>1
  <2>3. c \in TT
    BY Zenon, <1>1, <1>2
  <2>4. u \in BOOLEAN
    OBVIOUS
  <2>5. m \in V
    BY Zenon, <1>2, <2>1
  <2> QED  BY Zenon, <2>2, <2>3, <2>4, <2>5
<1>6. y = [name |-> n, columns |-> c, unique |-> u, include |-> <<>>, predicate |-> <<>>, method |-> m]
  BY Zenon DEF MySqlEntry
<1> HIDE DEF n, c, u, m, y
<1>7. y \in [{"name", "columns", "unique", "include", "predicate", "method"} -> V] /\ y.columns = c
  <2>1. c \in V /\ u \in V
    BY Zenon, <1>2, <1>5
  <2> DEFINE w == <<>>
  <2>2. n \in V /\ c \in V /\ u \in V /\ w \in V /\ m \in V
    BY Zenon, <1>2, <1>5, <2>1
  <2>3. y = [name |-> n, columns |-> c, unique |-> u, include |-> w, predicate |-> w, method |-> m]
    BY Zenon, <1>6
  <2> HIDE DEF w
  <2> QED  BY ONLY <2>2, <2>3
<1> QED  BY Zenon, <1>5, <1>7 DEF ShownRows, RowsWith, ShownFields, y, V, TT, T

\* What is shown of a row, as far as the properties ask.
ShownOf(y, x, s) ==
  /\ y \in ShownRows
  /\ y.columns = IF "index_column" \in s THEN <<>> ELSE x.columns
  /\ IndexName \notin s => y.name = x.name
  /\ y.unique <=> x.unique /\ "non_unique_flag" \notin s

\* MySqlEntry gives just that.
LEMMA EntryShows ==
  ASSUME NEW x \in ToldRows, NEW s
  PROVE  ShownOf(MySqlEntry(x, s), x, s)
<1> DEFINE n == IF IndexName \in s THEN "" ELSE x.name
           c == IF "index_column" \in s THEN <<>> ELSE x.columns
           u == x.unique /\ "non_unique_flag" \notin s
           m == IF "index_type" \in s THEN <<>> ELSE x.method
           y == MySqlEntry(x, s)
<1>1. y = [name |-> n, columns |-> c, unique |-> u, include |-> <<>>, predicate |-> <<>>, method |-> m]
  BY Zenon DEF MySqlEntry
<1>2. y \in ShownRows
  BY Zenon, EntryIsShown
<1> HIDE DEF n, c, u, m, y
<1>3. y.columns = c /\ y.name = n /\ y.unique = u
  BY ONLY <1>1
<1> QED  BY Zenon, <1>2, <1>3 DEF ShownOf, n, c, u, y

\* The rows of an answer of MySQL.
RowsShown(d, new) ==
  /\ d \in Seq(ShownRows) /\ Len(d) = Len(IndexRows) /\ Len(d) \in Nat
  /\ DOMAIN d = 1..Len(d) /\ DOMAIN IndexRows = 1..Len(IndexRows)
  /\ \A k \in 1..Len(IndexRows) : ShownOf(d[k], IndexRows[k], LostAt(k, new))

\* So does every row of an answer.
LEMMA DecodedIs ==
  ASSUME client = "mysql", NEW new
  PROVE  RowsShown(Decoded(new), new)
<1> DEFINE rows == RowsOfColumns(Indexes["mysql"])
           n == Len(rows)
           d == Decoded(new)
           y(k) == MySqlEntry(rows[k], LostAt(k, new))
<1>1. rows \in Seq(ToldRows)
  BY Zenon, IndexesAreTold, IndexFieldsFit, RowsAreLaid DEF ToldByServer, ToldRows
<1>2. IndexRows = rows
  <2> HIDE DEF rows
  <2>1. RowsFor["mysql"] = rows
    BY DEF RowsFor, rows
  <2> QED  BY Zenon, <2>1 DEF IndexRows
<1> HIDE DEF rows
<1>3. DOMAIN rows = 1..n /\ n \in Nat /\ \A k \in 1..n : rows[k] \in ToldRows
  BY <1>1
<1> HIDE DEF n
<1>4. \A k \in 1..n : y(k) \in ShownRows
  BY Zenon, <1>3, EntryIsShown
<1>5. d = [k \in 1..n |-> y(k)]
  BY Zenon, <1>2, <1>3 DEF Decoded
<1> HIDE DEF y, d
<1>6. d \in Seq(ShownRows) /\ Len(d) = n /\ DOMAIN d = 1..n
  BY ONLY <1>3, <1>4, <1>5
<1>7. \A k \in 1..n : ShownOf(d[k], rows[k], LostAt(k, new))
  <2> TAKE k \in 1..n
  <2>1. d[k] = y(k)
    BY Zenon, <1>5
  <2> QED  BY Zenon, <1>3, <2>1, EntryShows DEF y
<1> QED  BY Zenon, <1>2, <1>3, <1>6, <1>7 DEF RowsShown, d, n

\* The answer new tells what the query of the table lost.
LostIn(q, t, new) == \A vs, k : k \in LostRows(q, t, vs) <=> \E v \in vs : v \in LostAt(k, new)

\* The columns of some of the rows are a list.
LEMMA PartIsList ==
  ASSUME NEW D, NEW W, NEW E, NEW rows \in Seq(RowsWith(D, W, E)), NEW ks
  PROVE  PartOf(rows, ks) \in Seq(E)
<1> DEFINE R == RowsWith(D, W, E)
           n == Len(rows)
           b == [p \in 1..n |-> IF p \in ks THEN 1 ELSE 0]
<1>1. n \in Nat
  <2> HIDE DEF R
  <2>1. rows \in Seq(R)
    BY DEF R
  <2> QED  BY <2>1
<1>2. \A p \in 1..Len(rows) : p \in ks <=> b[p] = 1
  OBVIOUS
<1> HIDE DEF b
<1>3. PICK h : Tells(h, rows, b, 1, E, PartOf(rows, ks))
  BY Zenon, <1>2, PartGathers
<1>4. h \in [0..n -> Seq(E)] /\ h[n] = PartOf(rows, ks)
  BY Zenon, <1>3 DEF Tells, Gathers
<1>5. n \in 0..n
  BY <1>1
<1> QED  BY Zenon, <1>4, <1>5

\* The indexes of MySQL are joined from their rows.
LEMMA IndexesJoin ==
  ASSUME client = "mysql", NEW t, NEW new, indexes[t] = Joined(Decoded(new)), LostIn("indexes", t, new)
  PROVE  IndexesAreJoined(t)
<1> DEFINE row(k) == IF k \in LostRows("indexes", t, {"index_column"}) THEN <<>> ELSE IndexRows[k].columns
           joined(ks) == FlattenSeq([k \in DOMAIN IndexRows |-> IF k \in ks THEN row(k) ELSE <<>>])
           rowsOf(name) == {k \in DOMAIN IndexRows : IndexRows[k].name = name}
           d == Decoded(new)
           z == indexes[t]
           n == Len(d)
           xs == Indexes["mysql"]
<1>1. RowsShown(d, new)
  BY Zenon, DecodedIs
<1> HIDE DEF d
<1>2. /\ d \in Seq(ShownRows) /\ Len(IndexRows) = n /\ n \in Nat
      /\ DOMAIN d = 1..n /\ DOMAIN IndexRows = 1..n
      /\ \A k \in 1..n : ShownOf(d[k], IndexRows[k], LostAt(k, new))
  BY Zenon, <1>1 DEF RowsShown
<1>3. \A v, k : k \in LostRows("indexes", t, {v}) <=> v \in LostAt(k, new)
  <2> TAKE v, k
  <2> DEFINE vs == {v}
             at == LostAt(k, new)
  <2>1. v \in vs /\ \A w \in vs : w = v
    BY Zenon
  <2>2. LostIn("indexes", t, new)
    BY Zenon
  <2> HIDE DEF vs
  <2>3. k \in LostRows("indexes", t, vs) <=> \E w \in vs : w \in at
    BY Zenon, <2>2 DEF LostIn
  <2> HIDE DEF at
  <2>4. k \in LostRows("indexes", t, vs) <=> v \in at
    BY Zenon, <2>1, <2>3
  <2> QED  BY Zenon, <2>4 DEF vs, at
<1>4. \A k \in 1..n : d[k].columns = row(k)
  BY Zenon, <1>2, <1>3 DEF ShownOf
<1>5. FlattenSeq(Cols(z)) = FlattenSeq(Cols(d))
  <2>1. z = Joined(d)
    BY Zenon DEF d
  <2> QED  BY Zenon, <1>2, <2>1, ColumnsStay, IndexFieldsFit DEF ShownRows
<1>6. \A ks : PartOf(d, ks) = joined(ks)
  <2> TAKE ks
  <2>1. [k \in DOMAIN d |-> IF k \in ks THEN d[k].columns ELSE <<>>]
          = [k \in DOMAIN IndexRows |-> IF k \in ks THEN row(k) ELSE <<>>]
    <3> HIDE DEF row
    <3> QED  BY Zenon, <1>2, <1>4
  <2> QED  BY Zenon, <2>1 DEF PartOf
<1>7. FlattenSeq(Cols(d)) = joined(DOMAIN IndexRows)
  <2>1. Cols(d) = [k \in DOMAIN IndexRows |-> IF k \in DOMAIN IndexRows THEN row(k) ELSE <<>>]
    <3> HIDE DEF row
    <3> QED  BY Zenon, <1>2, <1>4 DEF Cols
  <2> QED  BY Zenon, <2>1
<1> HIDE DEF joined, row, z
<1>8. ASSUME LostRows("indexes", t, {IndexName}) = {}
      PROVE  /\ NamesOf(z) = NamesOf(IndexRows)
             /\ \A k \in DOMAIN z : Sums(z[k], IndexRows, d)
  <2>1. \A p \in 1..n : d[p].name = IndexRows[p].name
    <3> TAKE p \in 1..n
    <3>1. IndexName \notin LostAt(p, new)
      BY Zenon, <1>3, <1>8
    <3> QED  BY Zenon, <1>2, <3>1 DEF ShownOf
  <2>2. IndexRows = RowsOfColumns(xs)
    <3> DEFINE r == RowsOfColumns(xs)
    <3>1. RowsFor = [mysql |-> r, postgres |-> Indexes["postgres"]]
      BY Zenon DEF RowsFor
    <3> HIDE DEF r
    <3>2. RowsFor["mysql"] = r
      BY <3>1
    <3> QED  BY Zenon, <3>2 DEF IndexRows, r
  <2>3. ToldByServer(xs)
    BY Zenon, IndexesAreTold
  <2>4. PICK at, b : RowsLaid(xs, IndexRows, at, b)
    <3>1. \E at, b : RowsLaid(xs, RowsOfColumns(xs), at, b)
      BY Zenon, <2>3, IndexFieldsFit, RowsAreLaid DEF ToldByServer, ToldRows
    <3> QED  BY Zenon, <2>2, <3>1
  <2> HIDE DEF xs
  <2>5. OnePerName(Joined(d), IndexRows, d)
    BY Zenon, <1>2, <2>1, <2>3, <2>4, IndexFieldsFit, NamesAreJoined DEF ToldByServer, ToldRows, ShownRows
  <2>6. z = Joined(d)
    BY Zenon DEF d, z
  <2> QED  BY Zenon, <2>5, <2>6 DEF OnePerName
<1>9. ASSUME NEW x, Sums(x, IndexRows, d)
      PROVE  /\ x.columns = joined(rowsOf(x.name))
             /\ x.unique <=> \E r \in rowsOf(x.name) \ LostRows("indexes", t, {"non_unique_flag"}) :
                                IndexRows[r].unique /\ r = Min(rowsOf(x.name))
  <2> DEFINE ks == rowsOf(x.name)
  <2>1. ks = NamedIn(IndexRows, x.name)
    BY Zenon DEF NamedIn
  <2> HIDE DEF ks
  <2>2. PICK f \in ks : (\A p \in ks : f <= p) /\ x = With(d[f], PartOf(d, ks))
    BY Zenon, <1>9, <2>1 DEF Sums
  <2>3. f \in 1..n /\ ks \subseteq 1..n
    BY Zenon, <1>2 DEF ks
  <2>4. Changes(d[f], PartOf(d, ks), ShownFields, ShownRows)
    <3>1. d[f] \in ShownRows
      BY <1>2, <2>3
    <3>2. PartOf(d, ks) \in Seq(Texts)
      BY Zenon, <1>2, PartIsList DEF ShownRows
    <3> QED  BY Zenon, <3>1, <3>2, IndexFieldsFit, OtherColumns DEF ShownRows
  <2>5. x.columns = PartOf(d, ks) /\ x["unique"] = d[f]["unique"]
    <3>1. "unique" \in ShownFields /\ "unique" # "columns"
      BY Zenon DEF ShownFields
    <3> QED  BY Zenon, <2>2, <2>4, <3>1 DEF Changes
  <2>6. x.unique <=> IndexRows[f].unique /\ f \notin LostRows("indexes", t, {"non_unique_flag"})
    <3>1. x.unique = d[f].unique
      BY Zenon, <2>5
    <3>2. ShownOf(d[f], IndexRows[f], LostAt(f, new))
      BY Zenon, <1>2, <2>3
    <3> QED  BY Zenon, <1>3, <3>1, <3>2 DEF ShownOf
  <2>7. Min(ks) = f
    <3>1. f \in ks /\ \A p \in ks : f <= p
      BY Zenon, <2>2
    <3>2. \A p \in ks : p \in Nat
      BY <1>2, <2>3
    <3> HIDE DEF d
    <3>3. \A y \in ks : (\A p \in ks : y <= p) => y = f
      <4> TAKE y \in ks
      <4> HAVE \A p \in ks : y <= p
      <4>1. y <= f /\ f <= y
        BY Zenon, <3>1
      <4>2. y \in Nat /\ f \in Nat
        BY Zenon, <3>1, <3>2
      <4> QED  BY ONLY <4>1, <4>2
    <3> QED  BY Zenon, <3>1, <3>3 DEF Min
  <2>8. x.unique <=> \E r \in ks \ LostRows("indexes", t, {"non_unique_flag"}) : IndexRows[r].unique /\ r = Min(ks)
    BY Zenon, <2>2, <2>6, <2>7
  <2>9. x.columns = joined(ks)
    BY Zenon, <1>6, <2>5
  <2> QED  BY Zenon, <2>8, <2>9 DEF ks
<1>10. FlattenSeq([k \in DOMAIN indexes[t] |-> indexes[t][k].columns]) = joined(DOMAIN IndexRows)
  BY Zenon, <1>5, <1>7 DEF Cols, z
<1>11. ASSUME LostRows("indexes", t, {IndexName}) = {}
       PROVE  {indexes[t][k].name : k \in DOMAIN indexes[t]} = {IndexRows[k].name : k \in DOMAIN IndexRows}
  BY Zenon, <1>8, <1>11 DEF NamesOf, z
<1>12. ASSUME LostRows("indexes", t, {IndexName}) = {}, NEW k \in DOMAIN indexes[t]
       PROVE  /\ indexes[t][k].columns = joined(rowsOf(indexes[t][k].name))
              /\ indexes[t][k].unique <=>
                   \E r \in rowsOf(indexes[t][k].name) \ LostRows("indexes", t, {"non_unique_flag"}) :
                      IndexRows[r].unique /\ r = Min(rowsOf(indexes[t][k].name))
  <2>1. Sums(indexes[t][k], IndexRows, d)
    BY Zenon, <1>8, <1>12 DEF z
  <2> HIDE DEF rowsOf
  <2> QED  BY Zenon, <1>9, <2>1
<1> HIDE DEF rowsOf
<1> QED  BY Zenon, <1>10, <1>11, <1>12 DEF IndexesAreJoined, joined, row, rowsOf

\* The foreign keys.
Pairs == [of : Texts, to : Texts]
KeyFields == {"name", "columns", "schema", "table"}
KeyValues == Texts \cup Seq(Pairs)

\* They have columns, and names of their own.
LEMMA KeysAreTold ==
  /\ FieldsFit(KeyFields, KeyValues, Pairs)
  /\ Keys \in Seq(RowsWith(KeyFields, KeyValues, Pairs))
  /\ \A k \in 1..Len(Keys) : Keys[k].columns # <<>>
  /\ \A j, k \in 1..Len(Keys) : Keys[j].name = Keys[k].name => j = k
<1> DEFINE K == [name : Texts, columns : Seq(Pairs) \ {<<>>}, schema : Texts, table : Texts]
           R == RowsWith(KeyFields, KeyValues, Pairs)
<1>1. Keys \in Seq(K)
  BY Zenon, RecordsAssumption DEF Texts, Pairs
<1>2. \A r \in K : r \in R /\ r.columns # <<>>
  <2> DEFINE T == Texts
             P == Seq(Pairs)
             Q == P \ {<<>>}
  <2>1. Q \subseteq P /\ <<>> \notin Q
    OBVIOUS
  <2> HIDE DEF T, P, Q
  <2>2. ASSUME NEW r \in [name : T, columns : Q, schema : T, table : T]
        PROVE  r \in [KeyFields -> T \cup P] /\ r.columns \in Q /\ r.columns \in P
    <3>1. r.columns \in Q /\ r.columns \in P
      BY ONLY <2>1, <2>2
    <3>2. r \in [{"name", "columns", "schema", "table"} -> T \cup P]
      BY ONLY <2>1, <2>2
    <3> QED  BY Zenon, <3>1, <3>2 DEF KeyFields
  <2>3. \A r \in K : r \in [KeyFields -> T \cup P] /\ r.columns \in Q /\ r.columns \in P
    BY Zenon, <2>2 DEF T, P, Q
  <2> QED  BY Zenon, <2>1, <2>3 DEF RowsWith, KeyValues, T, P
<1> HIDE DEF K, R
<1>3. Keys \in Seq(R) /\ DOMAIN Keys = 1..Len(Keys) /\ \A k \in 1..Len(Keys) : Keys[k].columns # <<>>
  BY <1>1, <1>2
<1>4. \A j, k \in DOMAIN Keys : Keys[j].name = Keys[k].name => j = k
  BY Zenon, ReadAssumption
<1>5. FieldsFit(KeyFields, KeyValues, Pairs)
  BY DEF FieldsFit, KeyFields, KeyValues
<1> QED  BY Zenon, <1>3, <1>4, <1>5 DEF R

\* If no name is lost, they are what they were, for either client.
LEMMA KeysJoin ==
  ASSUME client \in {"mysql", "postgres"}, NEW new, \A k \in DOMAIN ConstraintRows : LostAt(k, new) = {}
  PROVE  IndexList(DecodedKeys(new)) = Keys
<1> DEFINE R == RowsWith(KeyFields, KeyValues, Pairs)
           rows == RowsOfColumns(Keys)
           own == Keys
<1>1. rows \in Seq(R) /\ Keys \in Seq(R) /\ Joined(rows) = Keys
  BY Zenon, KeysAreTold, RowsAreLaid, EntriesComeBack
<1>2. (client = "mysql" => ConstraintRows = rows) /\ (client = "postgres" => ConstraintRows = own)
  <2> HIDE DEF rows, own
  <2>1. KeyRowsFor = [mysql |-> rows, postgres |-> own]
    BY Zenon DEF KeyRowsFor, rows, own
  <2>2. KeyRowsFor["mysql"] = rows /\ KeyRowsFor["postgres"] = own
    BY <2>1
  <2> QED  BY Zenon, <2>2 DEF ConstraintRows
<1> HIDE DEF rows, R
<1>3. DecodedKeys(new) = [k \in DOMAIN ConstraintRows |-> ConstraintRows[k]]
  BY Zenon DEF DecodedKeys
<1>4. DecodedKeys(new) = ConstraintRows
  <2>1. rows = [k \in DOMAIN rows |-> rows[k]] /\ own = [k \in DOMAIN own |-> own[k]]
    BY <1>1
  <2> QED  BY Zenon, <1>2, <1>3, <2>1
<1> QED  BY Zenon, <1>1, <1>2, <1>4 DEF IndexList

\* A column is strengthened by one row after the other.
Strengthens(g, rows, base, A) ==
  /\ g \in [0..Len(rows) -> A] /\ g[0] = base /\ FoldLeft(Strengthen, base, rows) = g[Len(rows)]
  /\ \A i \in 1..Len(rows) : g[i] = Strengthen(g[i - 1], rows[i])

\* FoldLeft strengthens by the rows in turn.
LEMMA StrengthenedIs ==
  ASSUME NEW A, NEW R, NEW rows \in Seq(R), NEW base \in A, \A a \in A, r \in R : Strengthen(a, r) \in A
  PROVE  \E g : Strengthens(g, rows, base, A)
<1> DEFINE n == Len(rows)
           found == FoldLeft(Strengthen, base, rows)
           Is(f) == f = [s \in SUBSET (1..n) |->
                           IF s = {} THEN base ELSE Strengthen(f[s \ {Max(s)}], rows[Max(s)])]
           step == [p \in A \X (1..n) |-> Strengthen(p[1], rows[p[2]])]
<1>0. n \in Nat /\ DOMAIN rows = 1..n /\ base \in A /\ \A i \in 1..n : rows[i] \in R
  OBVIOUS
<1> HIDE DEF Strengthens, n
<1>1. \A a \in A, i \in 1..n : step[<<a, i>>] = Strengthen(a, rows[i]) /\ Strengthen(a, rows[i]) \in A
  <2> TAKE a \in A, i \in 1..n
  <2> DEFINE p == <<a, i>>
  <2>1. p \in A \X (1..n) /\ p[1] = a /\ p[2] = i
    OBVIOUS
  <2> HIDE DEF p
  <2>2. step[p] = Strengthen(p[1], rows[p[2]])
    BY Zenon, <2>1
  <2>3. Strengthen(a, rows[i]) \in A
    BY Zenon, <1>0
  <2> QED  BY Zenon, <2>1, <2>2, <2>3 DEF p
<1>2. step \in [A \X (1..n) -> A]
  <2>1. \A p \in A \X (1..n) : Strengthen(p[1], rows[p[2]]) \in A
    <3> TAKE p \in A \X (1..n)
    <3>1. p[1] \in A /\ p[2] \in 1..n
      OBVIOUS
    <3> QED  BY Zenon, <1>0, <3>1
  <2> QED  BY Zenon, <2>1
<1> HIDE DEF step
<1>3. PICK f \in [SUBSET (1..n) -> A] : Folding(f, n, base, step)
  BY Zenon, <1>0, <1>2, FoldExists
<1>4. Is(f)
  <2> DEFINE a(s) == IF s = {} THEN base ELSE step[<<f[s \ {Max(s)}], Max(s)>>]
             b(s) == IF s = {} THEN base ELSE Strengthen(f[s \ {Max(s)}], rows[Max(s)])
  <2>1. f = [s \in SUBSET (1..n) |-> a(s)]
    BY Zenon, <1>3 DEF Folding
  <2>2. \A s \in SUBSET (1..n) : a(s) = b(s)
    <3> TAKE s \in SUBSET (1..n)
    <3>1. CASE s # {}
      <4>1. Max(s) \in 1..n
        BY Zenon, <1>0, <3>1, GreatestOf
      <4>2. s \ {Max(s)} \in SUBSET (1..n)
        BY Zenon
      <4>3. f[s \ {Max(s)}] \in A
        BY Zenon, <4>2
      <4> QED  BY Zenon, <1>1, <3>1, <4>1, <4>3
    <3> QED  BY Zenon, <3>1
  <2>3. f = [s \in SUBSET (1..n) |-> b(s)]
    <3> HIDE DEF a, b
    <3> QED  BY Zenon, <2>1, <2>2
  <2> QED  BY Zenon, <2>3
<1> DEFINE iter == CHOOSE h : Is(h)
<1>5. found = iter[1..n]
  BY Zenon, <1>0 DEF FoldLeft, MapThenFoldSet
<1>6. Is(iter)
  <2> HIDE DEF Is
  <2> QED  BY Zenon, <1>4
<1> HIDE DEF iter
<1>7. \A s \in SUBSET (1..n) : iter[s] = IF s = {} THEN base ELSE Strengthen(iter[s \ {Max(s)}], rows[Max(s)])
  BY Zenon, <1>6
<1> HIDE DEF Is
<1>8. iter[{}] = base
  BY Zenon, <1>7
<1>9. \A s \in SUBSET (1..n) :
        s # {} /\ iter[s \ {Max(s)}] \in A => iter[s] = step[<<iter[s \ {Max(s)}], Max(s)>>]
  <2> TAKE s \in SUBSET (1..n)
  <2> HAVE s # {} /\ iter[s \ {Max(s)}] \in A
  <2>1. Max(s) \in 1..n
    BY Zenon, <1>0, GreatestOf
  <2> QED  BY Zenon, <1>1, <1>7, <2>1
<1>10. Iterates(iter, n, base, step, A)
  BY Zenon, <1>8, <1>9 DEF Iterates
<1>11. PICK g \in [0..n -> A] : Steps(g, n, base, step, iter[1..n])
  BY Zenon, <1>0, <1>2, <1>10, FoldsOn
<1>12. \A i \in 1..n : g[i] = Strengthen(g[i - 1], rows[i])
  <2> TAKE i \in 1..n
  <2>1. i - 1 \in 0..n
    BY <1>0
  <2> QED  BY Zenon, <1>1, <1>11, <2>1 DEF Steps
<1>13. g[0] = base /\ g[n] = iter[1..n]
  BY Zenon, <1>11 DEF Steps
<1> QED  BY Zenon, <1>5, <1>11, <1>12, <1>13 DEF Strengthens, n

KeyRecords == [column : Texts, primary : BOOLEAN, unique : BOOLEAN, count : Nat, position : Nat \ {0}]
Strength(r) == IF r.primary THEN 3 ELSE IF r.position > 1 THEN 0 ELSE IF r.unique /\ r.count = 1 THEN 2 ELSE 1

\* The rows rs make f of the columns C: each has the greatest strength of its rows.
Reached(f, C, rs) ==
  /\ f \in [C -> 0..3]
  /\ \A c \in C, s \in 1..3 : f[c] >= s <=> \E r \in rs : r.column = c /\ Strength(r) >= s

\* One row gives its column the greater of both strengths, and no other any.
LEMMA StrengthenIs ==
  ASSUME NEW C, NEW f \in [C -> 0..3], NEW r \in KeyRecords, r.column \in C
  PROVE  /\ Strengthen(f, r) \in [C -> 0..3]
         /\ \A c \in C, s \in 1..3 :
              Strengthen(f, r)[c] >= s <=> f[c] >= s \/ (r.column = c /\ Strength(r) >= s)
<1> DEFINE k == r.column
           x == f[k]
           y == Strength(r)
           m == Max({x, y})
           z == Strengthen(f, r)
<1>1. k \in C /\ x \in 0..3 /\ y \in 0..3
  BY DEF Strength
<1>2. z = [f EXCEPT ![k] = m]
  BY Zenon DEF Strengthen, Strength
<1> HIDE DEF k, x, y
<1>3. m \in {x, y} /\ m >= x /\ m >= y
  <2>1. \E w \in {x, y} : \A v \in {x, y} : w >= v
    BY <1>1
  <2> QED  BY Zenon, <2>1 DEF Max
<1> HIDE DEF m, z
<1>4. z \in [C -> 0..3] /\ z[k] = m /\ \A c \in C : c # k => z[c] = f[c]
  <2>1. m \in 0..3
    BY <1>1, <1>3
  <2> QED  BY <1>1, <1>2, <2>1
<1>5. \A s \in 1..3 : m >= s <=> x >= s \/ y >= s
  BY ONLY <1>1, <1>3
<1>6. ASSUME NEW c \in C, NEW s \in 1..3
      PROVE  z[c] >= s <=> f[c] >= s \/ (k = c /\ y >= s)
  <2>1. CASE c = k
    <3>1. z[c] = m /\ f[c] = x
      BY Zenon, <1>4, <2>1 DEF x
    <3> QED  BY Zenon, <1>5, <2>1, <3>1
  <2>2. CASE c # k
    <3>1. z[c] = f[c]
      BY Zenon, <1>4, <2>2
    <3> QED  BY Zenon, <2>2, <3>1
  <2> QED  BY Zenon, <2>1, <2>2
<1> QED  BY Zenon, <1>4, <1>6 DEF z, k, y

\* So all rows together give every column the greatest.
LEMMA StrengthIsReached ==
  ASSUME NEW C, NEW rows, rows \in Seq({r \in KeyRecords : r.column \in C})
  PROVE  Reached(FoldLeft(Strengthen, [c \in C |-> 0], rows), C, {rows[j] : j \in DOMAIN rows})
<1> DEFINE R == {r \in KeyRecords : r.column \in C}
           A == [C -> 0..3]
           base == [c \in C |-> 0]
           n == Len(rows)
           taken(i) == {rows[j] : j \in 1..i}
<1>1. n \in Nat /\ DOMAIN rows = 1..n /\ \A i \in 1..n : rows[i] \in R
  <2> HIDE DEF R
  <2>1. rows \in Seq(R)
    BY DEF R
  <2> QED  BY <2>1
<1>2. base \in A /\ \A c \in C : base[c] = 0
  OBVIOUS
<1>3. \A a \in A, r \in R : Strengthen(a, r) \in A
  BY Zenon, StrengthenIs
<1> HIDE DEF base, A, R
<1>4. rows \in Seq(R)
  BY Zenon DEF R
<1>5. PICK g : Strengthens(g, rows, base, A)
  BY Zenon, <1>2, <1>3, <1>4, StrengthenedIs
<1>6. /\ g \in [0..n -> A] /\ g[0] = base /\ FoldLeft(Strengthen, base, rows) = g[n]
      /\ \A i \in 1..n : g[i] = Strengthen(g[i - 1], rows[i])
  BY Zenon, <1>5 DEF Strengthens
<1> DEFINE T == {i \in 0..n : Reached(g[i], C, taken(i))}
<1>7. 0 \in T
  <2>1. taken(0) = {} /\ 0 \in 0..n
    BY <1>1
  <2>2. \A c \in C, s \in 1..3 : ~(base[c] >= s)
    BY <1>2
  <2> HIDE DEF taken
  <2>3. Reached(g[0], C, taken(0))
    BY Zenon, <1>2, <1>6, <2>1, <2>2 DEF Reached, A
  <2> QED  BY Zenon, <2>1, <2>3
<1>8. ASSUME NEW i \in T, i < n PROVE i + 1 \in T
  <2>1. i \in 0..n /\ i + 1 \in 1..n /\ (i + 1) - 1 = i /\ i + 1 \in 0..n /\ Reached(g[i], C, taken(i))
    BY <1>1, <1>8
  <2>2. taken(i + 1) = taken(i) \cup {rows[i + 1]}
    <3>1. 1..(i + 1) = (1..i) \cup {i + 1}
      BY <2>1
    <3> QED  BY Zenon, <3>1
  <2> DEFINE f == g[i]
             r == rows[i + 1]
             z == g[i + 1]
  <2> HIDE DEF T, taken
  <2>3. f \in [C -> 0..3] /\ r \in KeyRecords /\ r.column \in C
    BY Zenon, <1>1, <1>6, <2>1 DEF A, R
  <2>4. z = Strengthen(f, r)
    <3>1. g[i + 1] = Strengthen(g[(i + 1) - 1], rows[i + 1])
      BY Zenon, <1>6, <2>1
    <3> QED  BY Zenon, <2>1, <3>1
  <2> DEFINE rs == taken(i)
             us == taken(i + 1)
  <2>5. Reached(f, C, rs) /\ us = rs \cup {r}
    BY Zenon, <2>1, <2>2
  <2> HIDE DEF f, r, z, rs, us
  <2>6. z \in [C -> 0..3] /\ \A c \in C, s \in 1..3 : z[c] >= s <=> f[c] >= s \/ (r.column = c /\ Strength(r) >= s)
    BY Zenon, <2>3, <2>4, StrengthenIs
  <2>7. ASSUME NEW c \in C, NEW s \in 1..3
        PROVE  z[c] >= s <=> \E q \in us : q.column = c /\ Strength(q) >= s
    <3>1. f[c] >= s <=> \E q \in rs : q.column = c /\ Strength(q) >= s
      BY Zenon, <2>5 DEF Reached
    <3>2. z[c] >= s <=> f[c] >= s \/ (r.column = c /\ Strength(r) >= s)
      BY Zenon, <2>6
    <3> QED  BY Zenon, <2>5, <3>1, <3>2
  <2>8. Reached(z, C, us)
    BY Zenon, <2>6, <2>7 DEF Reached
  <2> QED  BY Zenon, <2>1, <2>8 DEF T, z, us
<1> HIDE DEF T
<1>9. n \in T
  <2>1. \A i \in 0..(n - 1) : i \in T => i + 1 \in T
    BY <1>1, <1>8
  <2>2. n \in 0..n
    BY <1>1
  <2> QED  BY Zenon, <1>1, <1>7, <2>1, <2>2, InductionUpTo
<1>10. Reached(g[n], C, taken(n))
  BY Zenon, <1>9 DEF T
<1> QED  BY Zenon, <1>1, <1>6, <1>10 DEF base

\* Whatever the order of the rows, each column is given its greatest strength.
LEMMA FoundIs ==
  ASSUME NEW found \in KeysFound
  PROVE  Reached(found, {r.column : r \in Range(KeyRows)}, Range(KeyRows))
<1> DEFINE C == {r.column : r \in Range(KeyRows)}
           n == Len(KeyRows)
           S == 1..n
           R == {r \in KeyRecords : r.column \in C}
<1>1. KeyRows \in Seq(KeyRecords)
  BY Zenon, RecordsAssumption DEF KeyRecords, Texts
<1>2. n \in Nat /\ DOMAIN KeyRows = S /\ \A k \in S : KeyRows[k] \in KeyRecords
  <2> DEFINE K == KeyRecords
  <2> HIDE DEF K
  <2>1. KeyRows \in Seq(K)
    BY Zenon, <1>1 DEF K
  <2>2. Len(KeyRows) \in Nat /\ DOMAIN KeyRows = 1..Len(KeyRows) /\ \A k \in 1..Len(KeyRows) : KeyRows[k] \in K
    BY ONLY <2>1
  <2> QED  BY Zenon, <2>2 DEF K
<1>3. PICK p \in Bijection(S, S) : found = FoldLeft(Strengthen, [c \in C |-> 0], [k \in S |-> KeyRows[p[k]]])
  BY Zenon, <1>2 DEF KeysFound
<1> DEFINE order == [k \in S |-> KeyRows[p[k]]]
<1>4. p \in [S -> S] /\ \A w \in S : \E v \in S : p[v] = w
  BY Zenon DEF Bijection, Surjection, Injection, IsInjective
<1>5. Range(KeyRows) = {KeyRows[k] : k \in S}
  BY Zenon, <1>2 DEF Range
<1>6. \A k \in S : KeyRows[k] \in R
  BY Zenon, <1>2, <1>5
<1>7. \A k \in S : order[k] = KeyRows[p[k]] /\ order[k] \in R
  BY Zenon, <1>4, <1>6
<1>8. DOMAIN order = S
  BY Zenon
<1>9. {order[j] : j \in DOMAIN order} = Range(KeyRows)
  <2> HIDE DEF order, S
  <2> DEFINE A == {order[j] : j \in S}
             B == {KeyRows[k] : k \in S}
  <2>1. ASSUME NEW x \in A PROVE x \in B
    <3> PICK j \in S : x = order[j]
      OBVIOUS
    <3> QED  BY <1>4, <1>7
  <2>2. ASSUME NEW x \in B PROVE x \in A
    <3> PICK k \in S : x = KeyRows[k]
      OBVIOUS
    <3> PICK v \in S : p[v] = k
      BY <1>4
    <3> QED  BY <1>7
  <2> QED  BY Zenon, <1>5, <1>8, <2>1, <2>2
<1>10. order \in Seq(R)
  <2> HIDE DEF order, R
  <2>1. \A k \in 1..n : order[k] \in R
    BY Zenon, <1>7
  <2>2. order = [k \in 1..n |-> order[k]]
    BY Zenon DEF order
  <2> HIDE DEF S, n
  <2> QED  BY ONLY <1>2, <2>1, <2>2
<1> HIDE DEF order, C
<1>11. Reached(FoldLeft(Strengthen, [c \in C |-> 0], order), C, {order[j] : j \in DOMAIN order})
  BY Zenon, <1>10, StrengthIsReached
<1> QED  BY Zenon, <1>3, <1>9, <1>11 DEF order, C

\* The word of a column of PostgreSQL.
Word(found, c) == IF c \notin DOMAIN found \/ found[c] = 0 THEN <<>> ELSE KeyWords[found[c]]

\* It is the strongest role that an index gives.
LEMMA WordIsRole ==
  ASSUME NEW found \in KeysFound, NEW k \in DOMAIN Fields
  PROVE  Word(found, Fields[k].name) = Roles[Fields[k].name]
<1> DEFINE name == Fields[k].name
           C == {r.column : r \in Range(KeyRows)}
           all == Range(KeyRows)
           rows == {r \in all : r.column = name}
           first == {r \in rows : r.position = 1}
           x == found[name]
           W == Word(found, name)
<1>1. Roles[name] = IF \E r \in rows : r.primary THEN <<"PRI">>
                    ELSE IF \E r \in first : r.unique /\ r.count = 1 THEN <<"UNI">>
                    ELSE IF first # {} THEN <<"MUL">> ELSE <<>>
  BY Zenon DEF Roles
<1>2. Reached(found, C, all)
  BY Zenon, FoundIs
<1>3. all \subseteq KeyRecords
  <2> DEFINE K == KeyRecords
  <2>1. KeyRows \in Seq(K)
    BY Zenon, RecordsAssumption DEF KeyRecords, Texts
  <2> HIDE DEF K
  <2>2. \A i \in DOMAIN KeyRows : KeyRows[i] \in K
    BY <2>1
  <2> QED  BY Zenon, <2>2 DEF Range, K
<1>4. \A r \in rows :
        /\ Strength(r) >= 3 <=> r.primary
        /\ Strength(r) >= 2 <=> r.primary \/ (r.position = 1 /\ r.unique /\ r.count = 1)
        /\ Strength(r) >= 1 <=> r.primary \/ r.position = 1
  <2> TAKE r \in rows
  <2>1. r \in KeyRecords
    BY Zenon, <1>3
  <2>2. r.position \in Nat \ {0} /\ r.primary \in BOOLEAN /\ r.unique \in BOOLEAN
    BY <2>1 DEF KeyRecords
  <2> QED  BY <2>2 DEF Strength
<1> HIDE DEF name
<1>5. found \in [C -> 0..3] /\ \A c \in C, s \in 1..3 : found[c] >= s <=> \E r \in all : r.column = c /\ Strength(r) >= s
  BY Zenon, <1>2 DEF Reached
<1>6. KeyWords[1] = <<"MUL">> /\ KeyWords[2] = <<"UNI">> /\ KeyWords[3] = <<"PRI">>
  BY DEF KeyWords
<1>7. CASE name \in C
  <2>1. \A s \in 1..3 : x >= s <=> \E r \in rows : Strength(r) >= s
    BY Zenon, <1>5, <1>7
  <2>2. x \in 0..3 /\ DOMAIN found = C
    BY <1>5, <1>7
  <2>3. W = IF x = 0 THEN <<>> ELSE KeyWords[x]
    BY Zenon, <1>7, <2>2 DEF Word
  <2> HIDE DEF x, W, rows
  <2>4. /\ x >= 3 <=> \E r \in rows : r.primary
        /\ x >= 2 <=> \E r \in rows : r.primary \/ (r.position = 1 /\ r.unique /\ r.count = 1)
        /\ x >= 1 <=> \E r \in rows : r.primary \/ r.position = 1
    <3>1. 1 \in 1..3 /\ 2 \in 1..3 /\ 3 \in 1..3
      OBVIOUS
    <3> QED  BY Zenon, <1>4, <2>1, <3>1
  <2> DEFINE p == \E r \in rows : r.primary
             u == \E r \in first : r.unique /\ r.count = 1
             f == first # {}
  <2>5. (x >= 3 <=> p) /\ (x >= 2 <=> p \/ u) /\ (x >= 1 <=> p \/ f)
    BY Zenon, <2>4
  <2> HIDE DEF p, u, f
  <2>6. /\ p => x = 3
        /\ ~p /\ u => x = 2
        /\ ~p /\ ~u /\ f => x = 1
        /\ ~p /\ ~u /\ ~f => x = 0
    BY ONLY <2>2, <2>5
  <2>7. x = 0 <=> ~p /\ ~u /\ ~f
    BY ONLY <2>2, <2>5
  <2>8. Roles[name] = IF p THEN <<"PRI">> ELSE IF u THEN <<"UNI">> ELSE IF f THEN <<"MUL">> ELSE <<>>
    BY Zenon, <1>1 DEF p, u, f
  <2>9. W = Roles[name]
    BY Zenon, <1>6, <2>3, <2>6, <2>7, <2>8
  <2> QED  BY Zenon, <2>9 DEF W, name
<1>8. CASE name \notin C
  <2>1. rows = {} /\ first = {}
    BY Zenon, <1>8
  <2>2. Roles[name] = <<>>
    <3> HIDE DEF rows, first
    <3> QED  BY Zenon, <1>1, <2>1
  <2>3. W = <<>>
    <3>1. DOMAIN found = C
      BY Zenon, <1>5
    <3> QED  BY Zenon, <1>8, <3>1 DEF Word
  <2> QED  BY Zenon, <2>2, <2>3 DEF name
<1> QED  BY Zenon, <1>7, <1>8

\* The roles of the columns of PostgreSQL.
LEMMA RolesJoin ==
  ASSUME client = "postgres", NEW t, NEW new, \A k : LostAt(k, new) \subseteq ColumnValues,
         NEW found \in KeysFound, columns[t] = ColumnsOf(new, found), LostIn("columns", t, new)
  PROVE  RolesAreStrongest(t)
<1> SUFFICES ASSUME NEW k \in DOMAIN Fields \ LostRows("columns", t, {"column_name"})
             PROVE  columns[t][k].key = Roles[Fields[k].name]
  BY Zenon DEF RolesAreStrongest
<1> DEFINE s == LostAt(k, new)
           d == Fields[k]
           c == ColumnsRead["postgres"][k][s]
           w == KeyWords[found[c.name]]
<1>1. "column_name" \notin s
  <2> DEFINE vs == {"column_name"}
  <2>1. "column_name" \in vs
    BY Zenon
  <2>2. LostIn("columns", t, new)
    BY Zenon
  <2> HIDE DEF vs
  <2>3. k \in LostRows("columns", t, vs) <=> \E v \in vs : v \in s
    BY Zenon, <2>2 DEF LostIn
  <2> QED  BY Zenon, <2>1, <2>3 DEF vs
<1>2. c = PgColumn(d, s)
  <2> DEFINE A == {"column_default", "column_type", "extra", "column_name", "is_nullable"}
             read == [e \in {"mysql", "postgres"} |-> [j \in DOMAIN Fields |-> [u \in SUBSET A |->
                        IF e = "mysql" THEN MySqlColumn(Fields[j], u) ELSE PgColumn(Fields[j], u)]]]
  <2>1. ColumnValues = {"column_name", "is_nullable"}
    BY DEF ColumnValues
  <2>2. s \in SUBSET A
    <3>1. s \subseteq ColumnValues
      BY Zenon
    <3> HIDE DEF s
    <3> QED  BY Zenon, <2>1, <3>1
  <2>3. "postgres" \in {"mysql", "postgres"} /\ "postgres" # "mysql"
    OBVIOUS
  <2>4. ColumnsRead = read
    BY Zenon DEF ColumnsRead
  <2> HIDE DEF A, s
  <2> QED  BY Zenon, <2>2, <2>3, <2>4
<1>3. c.name = d.name /\ c.key = <<>>
  <2> DEFINE n == IF "column_name" \in s THEN <<>> ELSE d.name
             y == PgColumn(d, s)
  <2>1. y = [name |-> n, type |-> <<d.type>>,
             nullable |-> IF "is_nullable" \in s THEN <<>> ELSE d.nullable,
             default |-> PgDefault(d), computed |-> d.computed,
             key |-> <<>>, extra |-> <<>>, comment |-> d.comment]
    BY Zenon DEF PgColumn
  <2> HIDE DEF n, y, d, s
  <2>2. y.name = n /\ y.key = <<>>
    BY ONLY <2>1
  <2>3. n = d.name
    BY Zenon, <1>1 DEF n
  <2> QED  BY Zenon, <1>2, <2>2, <2>3 DEF y
<1>4. "key" \in DOMAIN c /\ [c EXCEPT !.key = w].key = w
  <2>1. DOMAIN c = {"name", "type", "nullable", "default", "computed", "key", "extra", "comment"}
    <3> HIDE DEF d, s, c
    <3> QED  BY <1>2 DEF PgColumn
  <2> HIDE DEF c, w
  <2> QED  BY ONLY <2>1
<1>5. columns[t][k] = IF c.name \notin DOMAIN found \/ found[c.name] = 0 THEN c ELSE [c EXCEPT !.key = w]
  <2>1. client # "mysql" /\ ColumnsRead[client] = ColumnsRead["postgres"]
    OBVIOUS
  <2>2. ColumnsOf(new, found)[k] =
          IF client = "mysql" \/ c.name \notin DOMAIN found \/ found[c.name] = 0 THEN c ELSE [c EXCEPT !.key = w]
    BY Zenon, <2>1 DEF ColumnsOf
  <2> HIDE DEF c, w
  <2> QED  BY Zenon, <2>1, <2>2
<1> HIDE DEF c
<1>6. columns[t][k].key = Word(found, d.name)
  BY Zenon, <1>3, <1>4, <1>5 DEF Word
<1> QED  BY Zenon, <1>6, WordIsRole

\* Every answer ends.
LEMMA RowsEnd ==
  \A c \in {"mysql", "postgres"} : IsFiniteSet(DOMAIN RowsFor[c]) /\ IsFiniteSet(DOMAIN KeyRowsFor[c])
<1>1. ASSUME NEW S, NEW x \in Seq(S) PROVE IsFiniteSet(DOMAIN x)
  <2>1. DOMAIN x = 1..Len(x) /\ 1 \in Int /\ Len(x) \in Int
    OBVIOUS
  <2> QED  BY <2>1, FS_Interval
<1> DEFINE a == RowsOfColumns(Indexes["mysql"])
           b == Indexes["postgres"]
           d == RowsOfColumns(Keys)
           e == Keys
<1>2. IsFiniteSet(DOMAIN a) /\ IsFiniteSet(DOMAIN b) /\ IsFiniteSet(DOMAIN d) /\ IsFiniteSet(DOMAIN e)
  <2>1. a \in Seq(ToldRows)
    BY Zenon, IndexesAreTold, IndexFieldsFit, RowsAreLaid DEF ToldByServer, ToldRows
  <2>2. \E S : b \in Seq(S)
    BY Zenon, RecordsAssumption
  <2>3. \E S : d \in Seq(S) /\ e \in Seq(S)
    BY Zenon, KeysAreTold, RowsAreLaid
  <2> HIDE DEF a, b, d, e
  <2> QED  BY Zenon, <1>1, <2>1, <2>2, <2>3
<1>3. RowsFor = [mysql |-> a, postgres |-> b] /\ KeyRowsFor = [mysql |-> d, postgres |-> e]
  BY Zenon DEF RowsFor, KeyRowsFor
<1> HIDE DEF a, b, d, e
<1>4. RowsFor["mysql"] = a /\ RowsFor["postgres"] = b /\ KeyRowsFor["mysql"] = d /\ KeyRowsFor["postgres"] = e
  BY <1>3
<1> QED  BY Zenon, <1>2, <1>4

------------------------------------------------------------------------------
\* What is lost and what is warned of

\* What may be left of the queries of a table.
Rests(k) ==
  CASE k = "table" -> {<<"columns", "indexes", "constraints">>, <<"indexes", "constraints">>,
                       <<"constraints">>, <<>>}
    [] k = "view" -> {<<"view">>, <<>>}
    [] OTHER -> {<<>>}

Queries == {"tables", "columns", "indexes", "constraints", "view"}

(***************************************************************************)
(* The inductive invariant.  The keys of the warnings are those in LOGGED,  *)
(* each of them once, and every value that is lost has its key there or is  *)
(* one of those that are lost in silence.                                  *)
(***************************************************************************)
Shape ==
  /\ client \in {"mysql", "postgres"}
  /\ kind \in [Tables -> {"unlisted", "table", "view", "other"}]
  /\ DOMAIN todo = Tables /\ \A t \in Tables : todo[t] \in Rests(kind[t])

LostAreReads ==
  /\ IsFiniteSet(lost) /\ Cardinality(lost) <= MaxLost
  /\ \A l \in lost : /\ l.query \in Queries /\ l.table \in Tables
                      /\ l.row \in RowsOf(l.query) /\ l.value \in Values[l.query]

KeysAreLogged ==
  /\ events \in Seq({Event(l) : l \in lost})
  /\ logged = {Key(events[k]) : k \in DOMAIN events}
  /\ \A j, k \in DOMAIN events : Key(events[j]) = Key(events[k]) => j = k
  /\ IsFiniteSet(logged) /\ Cardinality(logged) = Len(events)

LostAreTold == \A l \in lost : Silent(l.query) \/ Key(Event(l)) \in logged

IInv == Shape /\ LostAreReads /\ KeysAreLogged /\ LostAreTold

------------------------------------------------------------------------------
\* Lemmas about sets

\* A set of three at most is finite.
LEMMA ThreeAreFinite ==
  ASSUME NEW a, NEW b, NEW c
  PROVE  IsFiniteSet({a, b, c})
<1>1. IsFiniteSet({a}) /\ IsFiniteSet({b}) /\ IsFiniteSet({c})
  BY FS_Singleton
<1>2. IsFiniteSet({a} \cup {b})
  BY <1>1, FS_Union
<1>3. IsFiniteSet(({a} \cup {b}) \cup {c})
  BY <1>1, <1>2, FS_Union
<1>4. {a, b, c} = ({a} \cup {b}) \cup {c}
  OBVIOUS
<1> QED  BY <1>3, <1>4

\* SetToSeq lists a finite set: all of it, nothing twice.
LEMMA SetToSeqLists ==
  ASSUME NEW S, IsFiniteSet(S)
  PROVE  /\ Cardinality(S) \in Nat
         /\ SetToSeq(S) \in [1..Cardinality(S) -> S]
         /\ \A i, j \in 1..Cardinality(S) : SetToSeq(S)[i] = SetToSeq(S)[j] => i = j
         /\ \A x \in S : \E i \in 1..Cardinality(S) : SetToSeq(S)[i] = x
<1>0. Cardinality(S) \in Nat /\ ExistsBijection(1..Cardinality(S), S)
  BY FS_CardinalityType
<1>1. \E f : f \in Bijection(1..Cardinality(S), S)
  BY <1>0 DEF ExistsBijection
<1>2. PICK f : f \in [1..Cardinality(S) -> S] /\ IsInjective(f)
  BY <1>1 DEF Bijection, Injection
<1>3. SetToSeq(S) \in [1..Cardinality(S) -> S] /\ IsInjective(SetToSeq(S))
  BY <1>2 DEF SetToSeq
<1>4. DOMAIN SetToSeq(S) = 1..Cardinality(S)
  BY <1>3
<1>5. \A i, j \in 1..Cardinality(S) : SetToSeq(S)[i] = SetToSeq(S)[j] => i = j
  BY <1>3, <1>4 DEF IsInjective
<1>6. SetToSeq(S) \in Injection(1..Cardinality(S), S)
  BY <1>3 DEF Injection
<1>7. IsFiniteSet(1..Cardinality(S)) /\ Cardinality(1..Cardinality(S)) = Cardinality(S)
  BY <1>0, FS_Interval
<1>8. SetToSeq(S) \in Surjection(1..Cardinality(S), S)
  BY <1>6, <1>7, FS_Injection
<1>9. \A x \in S : \E i \in 1..Cardinality(S) : SetToSeq(S)[i] = x
  BY <1>8 DEF Surjection
<1> QED  BY <1>0, <1>3, <1>5, <1>9

\* The image of a finite set under Key and Event is finite.
LEMMA KeysFinite ==
  ASSUME NEW new, IsFiniteSet(new)
  PROVE  IsFiniteSet({Key(Event(l)) : l \in new})
<1> DEFINE T == {Key(Event(l)) : l \in new}
           f == [l \in new |-> Key(Event(l))]
<1>1. f \in Surjection(new, T)
  BY DEF Surjection
<1>2. IsFiniteSet(T)
  <2> HIDE DEF f, T
  <2> QED  BY <1>1, FS_Surjection
<1> QED  BY <1>2

------------------------------------------------------------------------------
\* warn_missing_column_once keeps the events and LOGGED together.
LEMMA WarnStep ==
  ASSUME KeysAreLogged, NEW new, IsFiniteSet(new), lost' = lost \cup new, WarnOnce(new)
  PROVE  /\ KeysAreLogged'
         /\ logged \subseteq logged'
         /\ \A l \in new : Key(Event(l)) \in logged'
<1> DEFINE fresh == {Key(Event(l)) : l \in new} \ logged
           found == {Event(l) : l \in new}
           first(k) == CHOOSE e \in found : Key(e) = k
           F == {first(k) : k \in fresh}
           s == SetToSeq(F)
           n == Cardinality(F)
           E == {Event(l) : l \in lost \cup new}
<1>1. \A k \in fresh : first(k) \in found /\ Key(first(k)) = k
  BY Zenon
<1>2. IsFiniteSet(fresh)
  BY KeysFinite, FS_Difference
<1>3. IsFiniteSet(F) /\ n = Cardinality(fresh)
  <2> DEFINE f == [k \in fresh |-> first(k)]
  <2> HIDE DEF first, fresh
  <2>1. f \in Injection(fresh, F)
    <3>1. f \in [fresh -> F]
      OBVIOUS
    <3>2. IsInjective(f)
      BY <1>1 DEF IsInjective
    <3> QED  BY <3>1, <3>2 DEF Injection
  <2>2. f \in Surjection(fresh, F)
    BY <2>1 DEF Injection, Surjection
  <2>3. ExistsBijection(fresh, F)
    BY <2>1, <2>2 DEF ExistsBijection, Bijection
  <2> HIDE DEF F
  <2> QED  BY <1>2, <2>3, FS_Bijection
<1>4. /\ n \in Nat
      /\ s \in [1..n -> F]
      /\ \A i, j \in 1..n : s[i] = s[j] => i = j
      /\ \A x \in F : \E i \in 1..n : s[i] = x
  <2> HIDE DEF F
  <2> QED  BY <1>3, SetToSeqLists
<1>5. events' = events \o s /\ logged' = logged \cup fresh
  BY DEF WarnOnce
<1>6. F \subseteq E
  BY <1>1
<1>7. events \in Seq(E) /\ s \in Seq(E) /\ Len(s) = n /\ Len(events) \in Nat
  <2>1. events \in Seq({Event(l) : l \in lost})
    BY DEF KeysAreLogged
  <2>2. {Event(l) : l \in lost} \subseteq E
    OBVIOUS
  <2> HIDE DEF F, E, s, n
  <2> QED  BY <1>4, <1>6, <2>1, <2>2
<1>8. /\ events' \in Seq(E) /\ Len(events') = Len(events) + n
      /\ \A i \in 1..Len(events) : events'[i] = events[i]
      /\ \A i \in 1..n : events'[Len(events) + i] = s[i]
  <2>1. events' = events \o s
    BY <1>5
  <2>2. Len(s) = n /\ events \in Seq(E) /\ s \in Seq(E)
    BY <1>7
  <2> HIDE DEF F, E, s, n
  <2>3. /\ events \o s \in Seq(E) /\ Len(events \o s) = Len(events) + Len(s)
        /\ \A i \in 1..Len(events) : (events \o s)[i] = events[i]
        /\ \A i \in 1..Len(s) : (events \o s)[Len(events) + i] = s[i]
    <3> DEFINE a == events
    <3>1. a \in Seq(E) /\ s \in Seq(E)
      BY <2>2
    <3> HIDE DEF a
    <3>2. /\ a \o s \in Seq(E) /\ Len(a \o s) = Len(a) + Len(s)
          /\ \A i \in 1..Len(a) : (a \o s)[i] = a[i]
          /\ \A i \in 1..Len(s) : (a \o s)[Len(a) + i] = s[i]
      BY ONLY <3>1, SMT
    <3> QED  BY <3>2 DEF a
  <2>4. 1..Len(s) = 1..n
    BY <2>2
  <2> QED  BY ONLY <2>1, <2>2, <2>3, <2>4, Zenon
<1>9. /\ logged = {Key(events[k]) : k \in 1..Len(events)}
      /\ \A j, k \in 1..Len(events) : Key(events[j]) = Key(events[k]) => j = k
      /\ IsFiniteSet(logged) /\ Cardinality(logged) = Len(events)
  BY <1>7 DEF KeysAreLogged
<1>10. \A i \in 1..n : Key(s[i]) \in fresh
  <2>1. \A x \in F : Key(x) \in fresh
    BY <1>1
  <2> HIDE DEF F, fresh, s, n
  <2> QED  BY <1>4, <2>1
<1>11. \A k \in fresh : \E i \in 1..n : Key(s[i]) = k
  <2>1. \A k \in fresh : \E x \in F : Key(x) = k
    BY <1>1
  <2> HIDE DEF F, fresh, s, n
  <2> QED  BY <1>4, <2>1
<1>12. \A i, j \in 1..n : Key(s[i]) = Key(s[j]) => i = j
  <2>1. \A x, y \in F : Key(x) = Key(y) => x = y
    BY <1>1
  <2> HIDE DEF F, s, n
  <2> QED  BY <1>4, <2>1
<1>13. fresh \cap logged = {}
  OBVIOUS
<1>14. DOMAIN events' = 1..(Len(events) + n)
  <2> HIDE DEF E, n
  <2> QED  BY <1>8
<1> HIDE DEF fresh, F, s, n, E
<1>15. logged' = {Key(events'[k]) : k \in 1..(Len(events) + n)}
  <2>1. ASSUME NEW k \in logged'
        PROVE  \E i \in 1..(Len(events) + n) : Key(events'[i]) = k
    <3>1. CASE k \in logged
      BY <3>1, <1>4, <1>7, <1>8, <1>9
    <3>2. CASE k \in fresh
      <4>1. PICK i \in 1..n : Key(s[i]) = k
        BY <3>2, <1>11
      <4>2. Len(events) + i \in 1..(Len(events) + n) /\ Key(events'[Len(events) + i]) = k
        BY <4>1, <1>4, <1>7, <1>8
      <4> QED  BY <4>2
    <3> QED  BY <3>1, <3>2, <1>5
  <2>2. ASSUME NEW i \in 1..(Len(events) + n)
        PROVE  Key(events'[i]) \in logged'
    <3>1. CASE i \in 1..Len(events)
      BY <3>1, <1>5, <1>8, <1>9
    <3>2. CASE i \notin 1..Len(events)
      <4>1. i - Len(events) \in 1..n /\ i = Len(events) + (i - Len(events))
        BY <3>2, <1>4, <1>7
      <4> QED  BY <4>1, <1>5, <1>8, <1>10
    <3> QED  BY <3>1, <3>2
  <2> QED  BY <2>1, <2>2
<1>16. ASSUME NEW i \in 1..(Len(events) + n), NEW j \in 1..(Len(events) + n),
              Key(events'[i]) = Key(events'[j])
       PROVE  i = j
  <2>1. \A k \in 1..(Len(events) + n) :
          \/ k \in 1..Len(events) /\ events'[k] = events[k] /\ Key(events[k]) \in logged
          \/ k - Len(events) \in 1..n /\ events'[k] = s[k - Len(events)] /\ Key(s[k - Len(events)]) \in fresh
    <3> SUFFICES ASSUME NEW k \in 1..(Len(events) + n)
                 PROVE  \/ k \in 1..Len(events) /\ events'[k] = events[k] /\ Key(events[k]) \in logged
                        \/ /\ k - Len(events) \in 1..n /\ events'[k] = s[k - Len(events)]
                           /\ Key(s[k - Len(events)]) \in fresh
      OBVIOUS
    <3>1. CASE k \in 1..Len(events)
      BY <3>1, <1>8, <1>9
    <3>2. CASE k \notin 1..Len(events)
      <4>1. k - Len(events) \in 1..n /\ k = Len(events) + (k - Len(events))
        BY <3>2, <1>4, <1>7
      <4> QED  BY <4>1, <1>8, <1>10
    <3> QED  BY <3>1, <3>2
  <2>2. CASE i \in 1..Len(events) /\ j \in 1..Len(events)
    BY <2>2, <1>8, <1>9, <1>16
  <2>3. CASE i \notin 1..Len(events) /\ j \notin 1..Len(events)
    <3>1. i - Len(events) = j - Len(events)
      BY <2>1, <2>3, <1>12, <1>16
    <3> QED  BY <3>1, <1>4, <1>7
  <2>4. CASE i \in 1..Len(events) /\ j \notin 1..Len(events)
    BY <2>1, <2>4, <1>13, <1>16, <1>8, <1>9
  <2>5. CASE i \notin 1..Len(events) /\ j \in 1..Len(events)
    BY <2>1, <2>5, <1>13, <1>16, <1>8, <1>9
  <2> QED  BY <2>2, <2>3, <2>4, <2>5
<1>17. IsFiniteSet(logged') /\ Cardinality(logged') = Len(events')
  <2>1. Cardinality(logged \cap fresh) = 0
    BY <1>13, FS_EmptySet
  <2>2. /\ IsFiniteSet(logged \cup fresh)
        /\ Cardinality(logged \cup fresh) = Cardinality(logged) + Cardinality(fresh) - 0
    BY <1>2, <1>9, <2>1, FS_Union
  <2> QED  BY <2>2, <1>3, <1>4, <1>5, <1>7, <1>8, <1>9
<1>18. KeysAreLogged'
  BY <1>8, <1>14, <1>15, <1>16, <1>17 DEF KeysAreLogged, E
<1>19. \A l \in new : Key(Event(l)) \in logged'
  BY <1>5 DEF fresh
<1> QED  BY <1>5, <1>18, <1>19

------------------------------------------------------------------------------
\* The reads of a query

\* A query has finitely many rows and values.
LEMMA AnswersEnd ==
  ASSUME client \in {"mysql", "postgres"}, NEW q \in Queries
  PROVE  IsFiniteSet(RowsOf(q)) /\ IsFiniteSet(Values[q])
<1>1. IsFiniteSet(RowsOf(q))
  <2>1. IsFiniteSet({1})
    BY FS_Singleton
  <2>2. IsFiniteSet(DOMAIN RowsFor[client]) /\ IsFiniteSet(DOMAIN KeyRowsFor[client])
    BY Zenon, RowsEnd
  <2> HIDE DEF RowsFor, KeyRowsFor
  <2> QED  BY <2>1, <2>2 DEF RowsOf, IndexRows, ConstraintRows
<1>2. /\ IsFiniteSet(ListValues) /\ IsFiniteSet(ColumnValues)
      /\ IsFiniteSet(ConstraintValues) /\ IsFiniteSet(ViewValues)
  <2>1. IsFiniteSet({"table_type", "table_type", "table_type"}) /\ IsFiniteSet({"view_def", "view_def", "view_def"})
    BY ThreeAreFinite
  <2>2. /\ IsFiniteSet({"column_default", "column_type", "extra"})
        /\ IsFiniteSet({"column_name", "is_nullable", "is_nullable"})
    BY ThreeAreFinite
  <2>3. /\ IsFiniteSet({"constraint_name", "constraint_name", "constraint_name"})
        /\ IsFiniteSet({"conname", "conname", "conname"})
    BY ThreeAreFinite
  <2>4. IsFiniteSet({"character_set_client", "character_set_client", "character_set_client"})
    BY ThreeAreFinite
  <2>5. \A x, y : {x, x, x} = {x} /\ {x, y, y} = {x, y}
    OBVIOUS
  <2>6. /\ IsFiniteSet({"table_type"}) /\ IsFiniteSet({"view_def"}) /\ IsFiniteSet({"column_name", "is_nullable"})
        /\ IsFiniteSet({"constraint_name"}) /\ IsFiniteSet({"conname"}) /\ IsFiniteSet({"character_set_client"})
    BY <2>1, <2>2, <2>3, <2>4, <2>5
  <2> QED  BY <2>2, <2>6 DEF ListValues, ColumnValues, ConstraintValues, ViewValues
<1>3. IsFiniteSet(IndexValues)
  <2>1. IsFiniteSet({IndexName, "index_column", "index_column"})
    BY ThreeAreFinite
  <2>2. IsFiniteSet({IndexName, "indexdef", "exclusion_def"})
    BY ThreeAreFinite
  <2>3. IsFiniteSet({"non_unique_flag", "index_type", "index_type"})
    BY ThreeAreFinite
  <2>4. {"non_unique_flag", "index_type", "index_type"} = OpeningValues
    BY DEF OpeningValues
  <2>5. {IndexName, "index_column", "index_column"} = {IndexName, "index_column"}
    OBVIOUS
  <2>6. IsFiniteSet({IndexName, "index_column"} \cup OpeningValues)
    BY <2>1, <2>3, <2>4, <2>5, FS_Union
  <2> QED  BY <2>2, <2>6 DEF IndexValues
<1>4. Values[q] \in {ListValues, ColumnValues, IndexValues, ConstraintValues, ViewValues}
  BY DEF Queries, Values
<1> QED  BY <1>1, <1>2, <1>3, <1>4

\* So the reads of a query are finitely many.
LEMMA ReadsFinite ==
  ASSUME client \in {"mysql", "postgres"}, NEW q \in Queries, NEW t
  PROVE  IsFiniteSet(ReadsOf(q, t))
<1> DEFINE S == RowsOf(q) \X Values[q]
           f == [p \in S |-> [query |-> q, table |-> t, row |-> p[1], value |-> p[2]]]
<1>1. IsFiniteSet(S)
  BY AnswersEnd, FS_Product
<1>2. f \in Surjection(S, ReadsOf(q, t))
  <2>1. \A p \in S : f[p] \in ReadsOf(q, t)
    BY DEF ReadsOf
  <2>0. \A l \in ReadsOf(q, t) :
          \E r \in RowsOf(q) : \E v \in Values[q] : l = [query |-> q, table |-> t, row |-> r, value |-> v]
    BY SMT DEF ReadsOf
  <2>2. \A l \in ReadsOf(q, t) : \E p \in S : f[p] = l
    <3> SUFFICES ASSUME NEW l \in ReadsOf(q, t)
                 PROVE  \E p \in S : f[p] = l
      BY Zenon
    <3>0. PICK r \in RowsOf(q), v \in Values[q] : l = [query |-> q, table |-> t, row |-> r, value |-> v]
      BY <2>0
    <3>1. <<r, v>> \in S
      OBVIOUS
    <3>2. f[<<r, v>>] = [query |-> q, table |-> t, row |-> r, value |-> v]
      <4> DEFINE p == <<r, v>>
      <4>1. p \in S /\ p[1] = r /\ p[2] = v
        BY <3>1
      <4> HIDE DEF p
      <4>2. f[p] = [query |-> q, table |-> t, row |-> r, value |-> v]
        BY <4>1
      <4> QED  BY <4>2 DEF p
    <3> HIDE DEF f, S
    <3> QED  BY <3>0, <3>1, <3>2
  <2>3. f \in [S -> ReadsOf(q, t)]
    <3> DEFINE g(p) == [query |-> q, table |-> t, row |-> p[1], value |-> p[2]]
    <3>1. \A p \in S : g(p) \in ReadsOf(q, t)
      BY <2>1
    <3>2. f = [p \in S |-> g(p)]
      OBVIOUS
    <3> HIDE DEF f, g, S
    <3> QED  BY <3>1, <3>2
  <2> HIDE DEF f, S
  <2> QED  BY <2>1, <2>2, <2>3 DEF Surjection
<1> QED
  <2> HIDE DEF f, S
  <2> QED  BY <1>1, <1>2, FS_Surjection

------------------------------------------------------------------------------
\* What is lost more stays within the bound and is told of.
LEMMA LosingStep ==
  ASSUME LostAreReads, KeysAreLogged, LostAreTold, client \in {"mysql", "postgres"}, client' = client,
         NEW q \in Queries, NEW new, IsFiniteSet(new), Cardinality(lost \cup new) <= MaxLost,
         \A l \in new : /\ l.query = q /\ l.table \in Tables
                        /\ l.row \in RowsOf(q) /\ l.value \in Values[q],
         Losing(q, new)
  PROVE  LostAreReads' /\ KeysAreLogged' /\ LostAreTold'
<1>1. lost' = lost \cup new
  BY DEF Losing
<1>2. LostAreReads'
  <2>1. IsFiniteSet(lost \cup new)
    BY FS_Union DEF LostAreReads
  <2>2. \A x : RowsOf(x)' = RowsOf(x) /\ Values[x]' = Values[x]
    BY DEF RowsOf, IndexRows, ConstraintRows, Values, ColumnValues, IndexValues, IndexName,
           ConstraintValues, ViewValues
  <2> QED  BY <1>1, <2>1, <2>2 DEF LostAreReads
<1>3. \A x : Silent(x)' = Silent(x)
  BY DEF Silent
<1>4. CASE Silent(q)
  <2>1. logged' = logged /\ events' = events
    BY <1>4 DEF Losing
  <2>2. KeysAreLogged'
    <3>1. {Event(l) : l \in lost} \subseteq {Event(l) : l \in lost'}
      BY <1>1
    <3>2. events \in Seq({Event(l) : l \in lost'})
      BY <3>1 DEF KeysAreLogged
    <3> QED  BY <2>1, <3>2 DEF KeysAreLogged
  <2>3. LostAreTold'
    BY <1>1, <1>3, <1>4, <2>1 DEF LostAreTold
  <2> QED  BY <1>2, <2>2, <2>3
<1>5. CASE ~Silent(q)
  <2>1. WarnOnce(new)
    BY <1>5 DEF Losing
  <2>2. KeysAreLogged' /\ logged \subseteq logged' /\ \A l \in new : Key(Event(l)) \in logged'
    BY <1>1, <2>1, WarnStep
  <2>3. LostAreTold'
    BY <1>1, <1>3, <2>2 DEF LostAreTold
  <2> QED  BY <1>2, <2>2, <2>3
<1> QED  BY <1>4, <1>5

------------------------------------------------------------------------------
\* The invariant is inductive

\* At first nothing is lost and nothing warned of.
LEMMA InitIInv == Init => IInv
<1> SUFFICES ASSUME Init PROVE IInv
  OBVIOUS
<1>1. Shape
  <2>1. \A t \in Tables : kind[t] = "unlisted" /\ todo[t] = <<>> /\ todo[t] \in Rests(kind[t])
    BY DEF Init, Rests
  <2> QED  BY <2>1 DEF Init, Shape
<1>2. LostAreReads
  <2>1. IsFiniteSet({}) /\ Cardinality({}) = 0
    BY FS_EmptySet
  <2>2. lost = {}
    BY DEF Init
  <2>3. MaxLost \in Nat
    BY ONLY ReadAssumption, Zenon DEF ReadAssumption
  <2> QED  BY <2>1, <2>2, <2>3 DEF LostAreReads
<1>3. KeysAreLogged
  <2>1. IsFiniteSet({}) /\ Cardinality({}) = 0
    BY FS_EmptySet
  <2>2. events = <<>> /\ logged = {} /\ lost = {}
    BY DEF Init
  <2>3. events \in Seq({Event(l) : l \in lost}) /\ DOMAIN events = {} /\ Len(events) = 0
    BY <2>2
  <2> QED  BY <2>1, <2>2, <2>3 DEF KeysAreLogged
<1>4. LostAreTold
  BY DEF Init, LostAreTold
<1> QED  BY <1>1, <1>2, <1>3, <1>4 DEF IInv

\* The list of a schema: every table has all its queries before it.
LEMMA ListStep ==
  ASSUME IInv, NEW schema, ListTables(schema)
  PROVE  IInv'
<1> DEFINE listed == {t \in Tables : t[1] = schema}
           read(t) == [query |-> "tables", table |-> t, row |-> 1, value |-> "table_type"]
           reads == {read(t) : t \in listed}
           type(new) == [t \in Tables |->
                           IF t \notin listed THEN kind[t]
                           ELSE IF \E l \in new : l.table = t THEN "other" ELSE TypeOf[t]]
<1>1. PICK new \in SUBSET reads :
        /\ Cardinality(lost \cup new) <= MaxLost
        /\ kind' = type(new)
        /\ todo' = [t \in Tables |-> IF t \in listed THEN QueriesFor(type(new)[t]) ELSE todo[t]]
        /\ Losing("tables", new)
  BY Zenon DEF ListTables
<1>2. client' = client /\ client \in {"mysql", "postgres"}
  BY DEF ListTables, IInv, Shape
<1>3. Shape'
  <2>1. \A t \in Tables : kind'[t] \in {"unlisted", "table", "view", "other"}
    BY <1>1, ReadAssumption DEF IInv, Shape
  <2>2. \A t \in Tables : todo'[t] \in Rests(kind'[t])
    <3> SUFFICES ASSUME NEW t \in Tables PROVE todo'[t] \in Rests(kind'[t])
      OBVIOUS
    <3>1. CASE t \in listed
      <4>1. todo'[t] = QueriesFor(kind'[t]) /\ kind'[t] \in {"table", "view", "other"}
        BY <1>1, <3>1, ReadAssumption
      <4> QED  BY <4>1 DEF QueriesFor, Rests
    <3>2. CASE t \notin listed
      <4>1. todo'[t] = todo[t] /\ kind'[t] = kind[t]
        BY <1>1, <3>2
      <4> QED  BY <4>1 DEF IInv, Shape
    <3> QED  BY <3>1, <3>2
  <2> QED  BY <1>1, <1>2, <2>1, <2>2 DEF Shape
<1>4. IsFiniteSet(new)
  <2>1. IsFiniteSet(listed)
    BY ReadAssumption, FS_Subset
  <2>2. IsFiniteSet(reads)
    <3> DEFINE f == [t \in listed |-> read(t)]
    <3>1. f \in Surjection(listed, reads)
      BY DEF Surjection
    <3> HIDE DEF f, reads
    <3> QED  BY <2>1, <3>1, FS_Surjection
  <2> QED  BY <1>1, <2>2, FS_Subset
<1>5. \A l \in new : /\ l.query = "tables" /\ l.table \in Tables
                     /\ l.row \in RowsOf("tables") /\ l.value \in Values["tables"]
  BY DEF RowsOf, Values, ListValues
<1>6. LostAreReads' /\ KeysAreLogged' /\ LostAreTold'
  BY <1>1, <1>2, <1>4, <1>5, LosingStep DEF IInv, Queries
<1> QED  BY <1>3, <1>6 DEF IInv

\* The answer to a query: the next queries of the table are those that follow.
LEMMA AnswerStep ==
  ASSUME IInv, NEW t \in Tables, Answer(t)
  PROVE  IInv'
<1> DEFINE q == Head(todo[t])
<1>1. PICK new \in Undecodable(q, t) : Losing(q, new)
  BY Zenon DEF Answer
<1>2. client' = client /\ client \in {"mysql", "postgres"} /\ kind' = kind
  BY DEF Answer, IInv, Shape
<1>3. q \in Queries /\ Tail(todo[t]) \in Rests(kind[t])
  <2>1. todo[t] \in Rests(kind[t]) /\ todo[t] # <<>>
    BY DEF Answer, IInv, Shape
  <2>2. \/ /\ kind[t] = "table"
           /\ todo[t] \in {<<"columns", "indexes", "constraints">>, <<"indexes", "constraints">>,
                           <<"constraints">>}
        \/ todo[t] = <<"view">> /\ kind[t] = "view"
    BY <2>1 DEF Rests
  <2>3. CASE kind[t] = "table"
    <3>1. \/ todo[t] = <<"columns", "indexes", "constraints">>
          \/ todo[t] = <<"indexes", "constraints">>
          \/ todo[t] = <<"constraints">>
      BY <2>2, <2>3
    <3>2. /\ Head(todo[t]) \in {"columns", "indexes", "constraints"}
          /\ Tail(todo[t]) \in {<<"indexes", "constraints">>, <<"constraints">>, <<>>}
      <4>1. CASE todo[t] = <<"columns", "indexes", "constraints">>
        <5>1. Head(todo[t]) = "columns" /\ Tail(todo[t]) = <<"indexes", "constraints">>
          BY <4>1
        <5> QED  BY <5>1
      <4>2. CASE todo[t] = <<"indexes", "constraints">>
        <5>1. Head(todo[t]) = "indexes" /\ Tail(todo[t]) = <<"constraints">>
          BY <4>2
        <5> QED  BY <5>1
      <4>3. CASE todo[t] = <<"constraints">>
        <5>1. Head(todo[t]) = "constraints" /\ Tail(todo[t]) = <<>>
          BY <4>3
        <5> QED  BY <5>1
      <4> QED  BY <3>1, <4>1, <4>2, <4>3
    <3> QED  BY <2>3, <3>2 DEF Rests, Queries
  <2>4. CASE todo[t] = <<"view">> /\ kind[t] = "view"
    BY <2>4 DEF Rests, Queries
  <2> QED  BY <2>2, <2>3, <2>4
<1>4. Shape'
  <2>1. todo' = [todo EXCEPT ![t] = Tail(todo[t])] /\ DOMAIN todo = Tables
    BY DEF Answer, IInv, Shape
  <2>2. \A u \in Tables : todo'[u] \in Rests(kind[u])
    BY <1>3, <2>1 DEF IInv, Shape
  <2> QED  BY <1>2, <2>1, <2>2 DEF IInv, Shape
<1>5. new \in SUBSET ReadsOf(q, t) /\ Cardinality(new) + Cardinality(lost) <= MaxLost
  BY <1>1 DEF Undecodable
<1>6. IsFiniteSet(new)
  BY <1>2, <1>3, <1>5, ReadsFinite, FS_Subset
<1>7. Cardinality(lost \cup new) <= MaxLost
  <2>1. IsFiniteSet(lost)
    BY DEF IInv, LostAreReads
  <2>2. Cardinality(lost \cup new) = Cardinality(lost) + Cardinality(new) - Cardinality(lost \cap new)
    BY <1>6, <2>1, FS_Union
  <2>3. /\ Cardinality(lost) \in Nat /\ Cardinality(new) \in Nat /\ Cardinality(lost \cap new) \in Nat
    BY <1>6, <2>1, FS_CardinalityType, FS_Intersection
  <2>4. MaxLost \in Nat /\ Cardinality(new) + Cardinality(lost) <= MaxLost
    BY <1>5, ReadAssumption
  <2> QED  BY ONLY <2>2, <2>3, <2>4, SMT
<1>8. \A l \in new : /\ l.query = q /\ l.table \in Tables
                     /\ l.row \in RowsOf(q) /\ l.value \in Values[q]
  BY <1>5 DEF ReadsOf
<1>9. LostAreReads' /\ KeysAreLogged' /\ LostAreTold'
  <2> HIDE DEF q
  <2> QED  BY <1>1, <1>2, <1>3, <1>6, <1>7, <1>8, LosingStep DEF IInv
<1> QED  BY <1>4, <1>9 DEF IInv

\* A step that writes a file, or none, changes nothing of it.
LEMMA OtherStep ==
  ASSUME IInv, UNCHANGED <<client, kind, todo, lost, logged, events>>
  PROVE  IInv'
<1>1. \A q : RowsOf(q)' = RowsOf(q) /\ Values[q]' = Values[q] /\ Silent(q)' = Silent(q)
  BY DEF RowsOf, IndexRows, ConstraintRows, Values, ColumnValues, IndexValues, IndexName,
         ConstraintValues, ViewValues, Silent
<1>2. Shape' /\ KeysAreLogged'
  BY DEF IInv, Shape, KeysAreLogged
<1>3. LostAreReads' /\ LostAreTold'
  BY <1>1 DEF IInv, LostAreReads, LostAreTold
<1> QED  BY <1>2, <1>3 DEF IInv

LEMMA NextIInv == IInv /\ [Next]_vars => IInv'
<1> SUFFICES ASSUME IInv, [Next]_vars PROVE IInv'
  OBVIOUS
<1>1. ASSUME NEW schema, ListTables(schema) PROVE IInv'
  BY <1>1, ListStep
<1>2. ASSUME NEW schema, Write(schema) PROVE IInv'
  <2>1. UNCHANGED <<client, kind, todo, lost, logged, events>>
    BY <1>2 DEF Write
  <2> QED  BY <2>1, OtherStep
<1>3. ASSUME NEW t \in Tables, Answer(t) PROVE IInv'
  BY <1>3, AnswerStep
<1>4. CASE UNCHANGED vars
  <2>1. UNCHANGED <<client, kind, todo, lost, logged, events>>
    BY <1>4 DEF vars
  <2> QED  BY <2>1, OtherStep
<1> QED  BY <1>1, <1>2, <1>3, <1>4 DEF Next

------------------------------------------------------------------------------
\* Theorems

THEOREM Invariance == Spec => []IInv
BY InitIInv, NextIInv, PTL DEF Spec

\* The end of a list is a suffix of it.
LEMMA EndIsSuffix ==
  ASSUME NEW E, NEW u \in Seq(E), NEW s \in Seq(E), NEW t, t = u \o s
  PROVE  IsSuffix(s, t)
<1>1. t \in Seq(E) /\ Len(t) = Len(u) + Len(s) /\ \A i \in 1..Len(s) : t[Len(u) + i] = s[i]
  OBVIOUS
<1>2. \A x \in Seq(E) :
        /\ Reverse(x) \in Seq(E) /\ Len(Reverse(x)) = Len(x)
        /\ \A i \in 1..Len(x) : Reverse(x)[i] = x[Len(x) - i + 1]
  <2> SUFFICES ASSUME NEW x \in Seq(E)
               PROVE  /\ Reverse(x) \in Seq(E) /\ Len(Reverse(x)) = Len(x)
                      /\ \A i \in 1..Len(x) : Reverse(x)[i] = x[Len(x) - i + 1]
    OBVIOUS
  <2>1. \A i \in 1..Len(x) : Len(x) - i + 1 \in 1..Len(x) /\ x[Len(x) - i + 1] \in E
    OBVIOUS
  <2> QED  BY <2>1 DEF Reverse
<1>3. /\ Reverse(s) \in Seq(E) /\ Len(Reverse(s)) = Len(s)
      /\ \A i \in 1..Len(s) : Reverse(s)[i] = s[Len(s) - i + 1]
  BY Zenon, <1>2
<1>4. /\ Reverse(t) \in Seq(E) /\ Len(Reverse(t)) = Len(t)
      /\ \A i \in 1..Len(t) : Reverse(t)[i] = t[Len(t) - i + 1]
  BY Zenon, <1>1, <1>2
<1>5. \A i \in 1..Len(s) : Reverse(t)[i] = Reverse(s)[i]
  <2> SUFFICES ASSUME NEW i \in 1..Len(s) PROVE Reverse(t)[i] = Reverse(s)[i]
    OBVIOUS
  <2>1. Reverse(t)[i] = t[Len(u) + (Len(s) - i + 1)] /\ Reverse(s)[i] = s[Len(s) - i + 1]
    <3>1. i \in 1..Len(t) /\ Len(t) - i + 1 = Len(u) + (Len(s) - i + 1)
      BY <1>1
    <3> QED  BY <3>1, <1>3, <1>4
  <2>2. Len(s) - i + 1 \in 1..Len(s)
    OBVIOUS
  <2> QED  BY <1>1, <2>1, <2>2
<1>6. SubSeq(Reverse(s), 1, Len(s)) = SubSeq(Reverse(t), 1, Len(s))
  <2>1. Len(s) \in Nat /\ Len(s) <= Len(t)
    BY <1>1
  <2> QED  BY <1>5, <1>3, <1>4, <2>1
<1>7. Len(s) <= Len(t) /\ Len(Reverse(s)) = Len(s) /\ Len(Reverse(t)) = Len(t)
  BY <1>1, <1>3, <1>4
<1> QED  BY <1>6, <1>7 DEF IsSuffix, IsPrefix

LEMMA RestsAreSuffixes ==
  ASSUME NEW k \in {"unlisted", "table", "view", "other"}, NEW s \in Rests(k)
  PROVE  IsSuffix(s, QueriesFor(k))
<1>1. \A u, x \in Seq(Queries) : IsSuffix(x, u \o x)
  BY EndIsSuffix
<1>2. /\ <<>> \in Seq(Queries) /\ <<"columns">> \in Seq(Queries) /\ <<"columns", "indexes">> \in Seq(Queries)
      /\ <<"columns", "indexes", "constraints">> \in Seq(Queries) /\ <<"view">> \in Seq(Queries)
      /\ <<"indexes", "constraints">> \in Seq(Queries) /\ <<"constraints">> \in Seq(Queries)
  <2>1. <<>> \in Seq(Queries)
    OBVIOUS
  <2>2. \A x \in Queries : <<x>> \in Seq(Queries)
    OBVIOUS
  <2>3. \A x, y \in Queries : <<x, y>> \in Seq(Queries)
    OBVIOUS
  <2>4. \A x, y, z \in Queries : <<x, y, z>> \in Seq(Queries)
    OBVIOUS
  <2>5. /\ "columns" \in Queries /\ "indexes" \in Queries
        /\ "constraints" \in Queries /\ "view" \in Queries
    BY DEF Queries
  <2> QED  BY <2>1, <2>2, <2>3, <2>4, <2>5
<1>3. CASE k = "table"
  <2>1. QueriesFor(k) = <<"columns", "indexes", "constraints">>
    BY <1>3 DEF QueriesFor
  <2>2. CASE s = <<"columns", "indexes", "constraints">>
    <3>1. QueriesFor(k) = <<>> \o s
      BY <2>1, <2>2
    <3> QED  BY Zenon, <1>1, <1>2, <2>2, <3>1
  <2>3. CASE s = <<"indexes", "constraints">>
    <3>1. QueriesFor(k) = <<"columns">> \o s
      BY <2>1, <2>3
    <3> QED  BY Zenon, <1>1, <1>2, <2>3, <3>1
  <2>4. CASE s = <<"constraints">>
    <3>1. QueriesFor(k) = <<"columns", "indexes">> \o s
      BY <2>1, <2>4
    <3> QED  BY Zenon, <1>1, <1>2, <2>4, <3>1
  <2>5. CASE s = <<>>
    <3>1. QueriesFor(k) = <<"columns", "indexes", "constraints">> \o s
      BY <2>1, <2>5
    <3> QED  BY Zenon, <1>1, <1>2, <2>5, <3>1
  <2> QED  BY <1>3, <2>2, <2>3, <2>4, <2>5 DEF Rests
<1>4. CASE k = "view"
  <2>1. QueriesFor(k) = <<"view">> /\ s \in {<<"view">>, <<>>}
    BY <1>4 DEF QueriesFor, Rests
  <2>2. CASE s = <<"view">>
    <3>1. QueriesFor(k) = <<>> \o s
      BY <2>1, <2>2
    <3> QED  BY Zenon, <1>1, <1>2, <2>2, <3>1
  <2>3. CASE s = <<>>
    <3>1. QueriesFor(k) = <<"view">> \o s
      BY <2>1, <2>3
    <3> QED  BY Zenon, <1>1, <1>2, <2>3, <3>1
  <2> QED  BY <2>1, <2>2, <2>3
<1>5. CASE k \in {"unlisted", "other"}
  <2>1. QueriesFor(k) = <<>> /\ s = <<>>
    BY <1>5 DEF QueriesFor, Rests
  <2>2. QueriesFor(k) = <<>> \o s
    BY <2>1
  <2> QED  BY Zenon, <1>1, <1>2, <2>1, <2>2
<1> QED  BY <1>3, <1>4, <1>5

\* The variables have their types: a table waits for a rest of its queries, what
\* is lost was read, and what was warned of is in LOGGED.
THEOREM TypeCorrect == Spec => []TypeOK
<1>1. IInv => TypeOK
  <2> SUFFICES ASSUME IInv PROVE TypeOK
    OBVIOUS
  <2>1. \A t \in Tables : IsSuffix(todo[t], QueriesFor(kind[t]))
    BY RestsAreSuffixes DEF IInv, Shape
  <2>2. \A k \in DOMAIN events : Key(events[k]) \in logged
    BY DEF IInv, KeysAreLogged
  <2> QED  BY <2>1, <2>2 DEF IInv, Shape, LostAreReads, TypeOK
<1> QED  BY <1>1, Invariance, PTL

\* warn_missing_column_once: no warning comes twice, whatever is lost and in
\* whatever order the tables answer.
THEOREM WarnsOnce == Spec => []WarnedOnce
<1>1. IInv => WarnedOnce
  BY DEF IInv, KeysAreLogged, WarnedOnce
<1> QED  BY <1>1, Invariance, PTL

\* Schemas without a bar, the sign between the parts of a key, in their names.
WithoutBar(x) == \A i \in 1..Len(x) : x[i] # "|"
NoBars == \A t \in Tables : WithoutBar(t[1])

\* A list of some things is a list of more of them.
LEMMA SeqGrows ==
  ASSUME NEW S, NEW T, S \subseteq T
  PROVE  \A x \in Seq(S) : x \in Seq(T)
OBVIOUS

\* Then the key tells the schema, the table and the column: its first bar stands
\* behind the schema.
KeyText(a, b, v) == a \o <<"|">> \o b \o <<"|">> \o <<v>>

Places(k, a, b, v) ==
  /\ Len(k) = Len(a) + Len(b) + 3
  /\ \A i \in 1..Len(a) : k[i] = a[i]
  /\ k[Len(a) + 1] = "|"
  /\ \A i \in 1..Len(b) : k[Len(a) + 1 + i] = b[i]
  /\ k[Len(a) + Len(b) + 3] = v

LEMMA KeyPlaces ==
  ASSUME NEW E, "|" \in E, NEW a \in Seq(E), NEW b \in Seq(E), NEW v \in E
  PROVE  Places(KeyText(a, b, v), a, b, v)
<1> DEFINE bar == <<"|">>
           p == a \o bar
           q == p \o b
           r == q \o bar
           last == <<v>>
           k == r \o last
<1>1. bar \in Seq(E) /\ Len(bar) = 1 /\ bar[1] = "|" /\ last \in Seq(E) /\ Len(last) = 1 /\ last[1] = v
  OBVIOUS
<1>2. KeyText(a, b, v) = k
  BY DEF KeyText
<1>3. \A x, y \in Seq(E) :
        /\ x \o y \in Seq(E) /\ Len(x \o y) = Len(x) + Len(y)
        /\ \A i \in 1..Len(x) : (x \o y)[i] = x[i]
        /\ \A i \in 1..Len(y) : (x \o y)[Len(x) + i] = y[i]
  BY Joins
<1> HIDE DEF bar, last
<1>4. /\ p \in Seq(E) /\ Len(p) = Len(a) + Len(bar)
      /\ \A i \in 1..Len(a) : p[i] = a[i]
      /\ \A i \in 1..Len(bar) : p[Len(a) + i] = bar[i]
  BY Zenon, <1>1, <1>3
<1> HIDE DEF p
<1>5. /\ q \in Seq(E) /\ Len(q) = Len(p) + Len(b)
      /\ \A i \in 1..Len(p) : q[i] = p[i]
      /\ \A i \in 1..Len(b) : q[Len(p) + i] = b[i]
  BY Zenon, <1>3, <1>4
<1> HIDE DEF q
<1>6. r \in Seq(E) /\ Len(r) = Len(q) + Len(bar) /\ \A i \in 1..Len(q) : r[i] = q[i]
  BY Zenon, <1>1, <1>3, <1>5
<1> HIDE DEF r
<1>7. /\ Len(k) = Len(r) + Len(last)
      /\ \A i \in 1..Len(r) : k[i] = r[i]
      /\ \A i \in 1..Len(last) : k[Len(r) + i] = last[i]
  BY Zenon, <1>1, <1>3, <1>6
<1> HIDE DEF k
<1>8. /\ Len(a) \in Nat /\ Len(b) \in Nat /\ Len(p) = Len(a) + 1
      /\ Len(q) = Len(a) + Len(b) + 1 /\ Len(r) = Len(a) + Len(b) + 2 /\ Len(k) = Len(a) + Len(b) + 3
  BY <1>1, <1>4, <1>5, <1>6, <1>7
<1>9. \A i \in 1..(Len(a) + Len(b) + 1) : k[i] = q[i]
  BY <1>6, <1>7, <1>8
<1>10. \A i \in 1..(Len(a) + 1) : k[i] = p[i]
  BY <1>5, <1>8, <1>9
<1>11. \A i \in 1..Len(a) : k[i] = a[i]
  BY <1>4, <1>8, <1>10
<1>12. k[Len(a) + 1] = "|"
  BY <1>1, <1>4, <1>8, <1>10
<1>13. \A i \in 1..Len(b) : k[Len(a) + 1 + i] = b[i]
  <2> SUFFICES ASSUME NEW i \in 1..Len(b) PROVE k[Len(a) + 1 + i] = b[i]
    OBVIOUS
  <2>1. Len(a) + 1 + i \in 1..(Len(a) + Len(b) + 1)
    BY <1>8
  <2> QED  BY <2>1, <1>5, <1>8, <1>9
<1>14. k[Len(a) + Len(b) + 3] = v
  <2>1. Len(a) + Len(b) + 3 = Len(r) + 1 /\ 1 \in 1..Len(last)
    BY <1>1, <1>8
  <2> QED  BY <2>1, <1>1, <1>7
<1> QED  BY <1>2, <1>8, <1>11, <1>12, <1>13, <1>14 DEF Places

LEMMA KeyTells ==
  ASSUME NEW E, "|" \in E, NEW a \in Seq(E), NEW b \in Seq(E), NEW c \in Seq(E), NEW d \in Seq(E),
         NEW v \in E, NEW w \in E,
         WithoutBar(a), WithoutBar(c),
         KeyText(a, b, v) = KeyText(c, d, w)
  PROVE  a = c /\ b = d /\ v = w
<1> DEFINE k == KeyText(a, b, v)
<1>1. Places(k, a, b, v)
  BY KeyPlaces
<1>2. Places(k, c, d, w)
  <2>1. Places(KeyText(c, d, w), c, d, w)
    BY KeyPlaces
  <2> QED  BY Zenon, <2>1
<1> HIDE DEF k
<1>3. Len(a) \in Nat /\ Len(b) \in Nat /\ Len(c) \in Nat /\ Len(d) \in Nat
  OBVIOUS
<1>4. ~ Len(a) < Len(c)
  <2>1. Len(a) < Len(c) => Len(a) + 1 \in 1..Len(c)
    BY <1>3
  <2> QED  BY <2>1, <1>1, <1>2 DEF Places, WithoutBar
<1>5. ~ Len(c) < Len(a)
  <2>1. Len(c) < Len(a) => Len(c) + 1 \in 1..Len(a)
    BY <1>3
  <2> QED  BY <2>1, <1>1, <1>2 DEF Places, WithoutBar
<1>6. Len(a) = Len(c)
  BY <1>3, <1>4, <1>5
<1>7. Len(b) = Len(d)
  BY <1>1, <1>2, <1>3, <1>6 DEF Places
<1>8. \A i \in 1..Len(a) : a[i] = c[i]
  BY <1>1, <1>2, <1>6 DEF Places
<1>9. \A i \in 1..Len(b) : b[i] = d[i]
  BY <1>1, <1>2, <1>6, <1>7 DEF Places
<1>10. v = w
  BY <1>1, <1>2, <1>6, <1>7 DEF Places
<1>11. a = c /\ b = d
  BY <1>6, <1>7, <1>8, <1>9
<1> QED  BY <1>10, <1>11

\* A default has a warning that names its schema, table and column, unless a
\* query of the MySQL client took it in silence: if no schema has a bar in its
\* name, no two columns share a key.
THEOREM LossNamed ==
  ASSUME NoBars
  PROVE  Spec => []LossIsNamed
<1>1. IInv => LossIsNamed
  <2> SUFFICES ASSUME IInv, NEW l \in lost, ~Silent(l.query)
               PROVE  \E k \in DOMAIN events : events[k] = Event(l)
    BY DEF LossIsNamed
  <2>1. PICK k \in DOMAIN events : Key(events[k]) = Key(Event(l))
    BY DEF IInv, LostAreTold, KeysAreLogged
  <2>2. PICK m \in lost : events[k] = Event(m)
    <3>1. events \in Seq({Event(x) : x \in lost})
      BY DEF IInv, KeysAreLogged
    <3> QED  BY <2>1, <3>1
  <2> DEFINE E == STRING \cup {"|", "tables", l.value, m.value}
  <2>3. "|" \in E /\ l.value \in E /\ m.value \in E
    OBVIOUS
  <2>4. \A x \in lost : x.table[1] \in Seq(E) /\ Label(x) \in Seq(E) /\ WithoutBar(x.table[1])
    <3> SUFFICES ASSUME NEW x \in lost
                 PROVE  x.table[1] \in Seq(E) /\ Label(x) \in Seq(E) /\ WithoutBar(x.table[1])
      OBVIOUS
    <3>1. x.table \in Tables
      BY DEF IInv, LostAreReads
    <3>2. x.table \in Seq(STRING) \X Seq(STRING)
      BY <3>1, ReadAssumption
    <3>3. x.table[1] \in Seq(STRING) /\ x.table[2] \in Seq(STRING)
      BY <3>2
    <3>4. STRING \subseteq E /\ "tables" \in E
      OBVIOUS
    <3> HIDE DEF E
    <3>5. \A y \in Seq(STRING) : y \in Seq(E)
      BY Zenon, <3>4, SeqGrows
    <3>6. <<"tables">> \in Seq(E)
      BY <3>4
    <3>7. x.table[1] \in Seq(E) /\ Label(x) \in Seq(E)
      BY Zenon, <3>3, <3>5, <3>6 DEF Label
    <3> QED  BY <3>1, <3>7 DEF NoBars
  <2> HIDE DEF E
  <2>5. KeyText(m.table[1], Label(m), m.value) = KeyText(l.table[1], Label(l), l.value)
    <3>1. \A x : Event(x).schema = x.table[1] /\ Event(x).table = Label(x) /\ Event(x).value = x.value
      BY DEF Event
    <3>2. \A x : Key(Event(x)) = KeyText(x.table[1], Label(x), x.value)
      BY Zenon, <3>1 DEF Key, KeyText
    <3> QED  BY Zenon, <2>1, <2>2, <3>2
  <2>6. m.table[1] = l.table[1] /\ Label(m) = Label(l) /\ m.value = l.value
    <3>1. /\ m.table[1] \in Seq(E) /\ Label(m) \in Seq(E) /\ WithoutBar(m.table[1])
          /\ l.table[1] \in Seq(E) /\ Label(l) \in Seq(E) /\ WithoutBar(l.table[1])
      BY Zenon, <2>4
    <3> DEFINE a == m.table[1]
               b == Label(m)
               c == l.table[1]
               d == Label(l)
               v == m.value
               w == l.value
    <3>2. /\ a \in Seq(E) /\ b \in Seq(E) /\ c \in Seq(E) /\ d \in Seq(E) /\ v \in E /\ w \in E
          /\ WithoutBar(a) /\ WithoutBar(c) /\ KeyText(a, b, v) = KeyText(c, d, w) /\ "|" \in E
      BY Zenon, <2>3, <2>5, <3>1
    <3> HIDE DEF a, b, c, d, v, w
    <3>3. a = c /\ b = d /\ v = w
      BY ONLY <3>2, KeyTells
    <3> QED  BY Zenon, <3>3 DEF a, b, c, d, v, w
  <2> QED  BY <2>2, <2>6 DEF Event
<1> QED  BY <1>1, Invariance, PTL

------------------------------------------------------------------------------
\* Defaults

\* A column of MySQL of which nothing was lost has the default that it has in the
\* database.
LEMMA DefaultIsRead ==
  ASSUME client = "mysql", NEW k \in DOMAIN Fields, NEW new, LostAt(k, new) = {}, NEW found
  PROVE  StandsFor(ColumnsOf(new, found)[k].default, Fields[k])
<1> DEFINE d == Fields[k]
           none == d.kind = "none"
           expression == d.kind = "expression"
           value == Given(d).value
           given == [Given(d) EXCEPT !.null = @ \/ "column_default" \in {},
                                     !.generated = @ /\ "extra" \notin {}]
<1>1. given.null = none /\ given.generated = expression /\ given.value = value
  <2> DEFINE r == Given(d)
             a == none \/ "column_default" \in {}
             b == expression /\ "extra" \notin {}
  <2>1. \E w : r = [null |-> none, generated |-> expression, value |-> w]
    BY Zenon DEF Given
  <2>2. a = none /\ b = expression
    BY Zenon
  <2>3. given = [r EXCEPT !.null = a, !.generated = b]
    <3> HIDE DEF none, expression
    <3> QED  BY <2>1
  <2> HIDE DEF r, none, expression, a, b, given
  <2>4. given.null = a /\ given.generated = b /\ given.value = r.value
    BY <2>1, <2>3
  <2> QED  BY Zenon, <2>2, <2>4 DEF r
<1>2. IsDefault(d)
  BY Zenon, DefaultAssumption
<1>3. StandsFor(QuoteDefault(given, d.type), d)
  <2> HIDE DEF d, given
  <2> QED  BY Zenon, <1>1, <1>2, DefaultStands
<1>4. DefaultText(d, {}) = QuoteDefault(given, d.type)
  BY Zenon DEF DefaultText
<1>5. MySqlColumn(d, {}).default = DefaultText(d, {})
  <2> HIDE DEF d
  <2> QED  BY DEF MySqlColumn
<1>6. ColumnsRead["mysql"][k][{}] = MySqlColumn(d, {})
  <2> DEFINE S == SUBSET {"column_default", "column_type", "extra", "column_name", "is_nullable"}
  <2>1. {} \in S /\ "mysql" \in {"mysql", "postgres"}
    OBVIOUS
  <2> HIDE DEF S
  <2> QED  BY Zenon, <2>1 DEF ColumnsRead, S
<1>7. ColumnsOf(new, found)[k] = ColumnsRead["mysql"][k][{}]
  BY Zenon DEF ColumnsOf
<1> QED  BY Zenon, <1>3, <1>4, <1>5, <1>6, <1>7

(***************************************************************************)
(* What is kept of a table is what its queries' rows were decoded to, with  *)
(* just those values lost that are in lost.                                 *)
(***************************************************************************)
OfTables == {"columns", "indexes", "constraints"}
DoneIn(q, s) == IF q = "columns" THEN Len(s) < 3 ELSE IF q = "indexes" THEN Len(s) < 2 ELSE s = <<>>
DoneWith(q) == {t \in Tables : kind[t] = "table" /\ DoneIn(q, todo[t])}
LostOf(q, t) == {l \in lost : l.query = q /\ l.table = t}
KeyEntries(t, new) ==
  [k \in DOMAIN IndexList(DecodedKeys(new)) |-> KeyEntry(t[1], IndexList(DecodedKeys(new))[k])]
Filled(q, t, new) ==
  /\ q = "columns" => \E found \in KeysFound : columns[t] = ColumnsOf(new, found)
  /\ q = "indexes" => indexes[t] = IndexList(Decoded(new))
  /\ q = "constraints" => keys[t] = KeyEntries(t, new)

ListsAreOfTables == DOMAIN columns = Tables /\ DOMAIN indexes = Tables /\ DOMAIN keys = Tables
ListedTogether == \A t, u \in Tables : t[1] = u[1] /\ kind[t] = "unlisted" => kind[u] = "unlisted"
LostWhenAnswered == \A l \in lost : l.query \in OfTables => l.table \in DoneWith(l.query)
AsDecoded == \A q \in OfTables : \A t \in DoneWith(q) : Filled(q, t, LostOf(q, t))
DecodedIInv == ListsAreOfTables /\ ListedTogether /\ LostWhenAnswered /\ AsDecoded

\* The queries of a table are answered in their order.
LEMMA NextAnswer ==
  ASSUME NEW s \in Rests("table"), s # <<>>
  PROVE  /\ Head(s) \in OfTables /\ ~DoneIn(Head(s), s)
         /\ \A q \in OfTables : DoneIn(q, Tail(s)) <=> DoneIn(q, s) \/ q = Head(s)
<1> DEFINE h == Head(s)
           e == Tail(s)
<1>1. s \in {<<"columns", "indexes", "constraints">>, <<"indexes", "constraints">>, <<"constraints">>, <<>>}
  BY DEF Rests
<1>2. CASE s = <<"columns", "indexes", "constraints">>
  <2>1. Head(s) = "columns" /\ Tail(s) = <<"indexes", "constraints">> /\ Len(s) = 3 /\ Len(Tail(s)) = 2
    BY <1>2
  <2>2. s # <<>> /\ Tail(s) # <<>>
    BY <1>2, <2>1
  <2>3. h = Head(s) /\ e = Tail(s)
    BY Zenon
  <2> HIDE DEF h, e
  <2> QED  BY ONLY <2>1, <2>2, <2>3 DEF OfTables, DoneIn
<1>3. CASE s = <<"indexes", "constraints">>
  <2>1. Head(s) = "indexes" /\ Tail(s) = <<"constraints">> /\ Len(s) = 2 /\ Len(Tail(s)) = 1
    BY <1>3
  <2>2. s # <<>> /\ Tail(s) # <<>>
    BY <1>3, <2>1
  <2>3. h = Head(s) /\ e = Tail(s)
    BY Zenon
  <2> HIDE DEF h, e
  <2> QED  BY ONLY <2>1, <2>2, <2>3 DEF OfTables, DoneIn
<1>4. CASE s = <<"constraints">>
  <2>1. Head(s) = "constraints" /\ Tail(s) = <<>> /\ Len(s) = 1 /\ Len(Tail(s)) = 0
    BY <1>4
  <2>2. h = Head(s) /\ e = Tail(s) /\ s # <<>>
    BY Zenon
  <2> HIDE DEF h, e
  <2> QED  BY ONLY <2>1, <2>2 DEF OfTables, DoneIn
<1> QED  BY <1>1, <1>2, <1>3, <1>4

\* The tables whose queries are answered are those that the properties speak of.
LEMMA DoneIs == DoneWith("columns") = Described /\ DoneWith("indexes") = Read /\ DoneWith("constraints") = Complete
BY DEF DoneWith, DoneIn, Described, Read, Complete

\* The client does not change while it reads.
LEMMA ReadsTheSame ==
  ASSUME client' = client, NEW t, NEW new
  PROVE  /\ \A found : ColumnsOf(new, found)' = ColumnsOf(new, found)
         /\ Decoded(new)' = Decoded(new) /\ KeyEntries(t, new)' = KeyEntries(t, new)
         /\ \A rows : IndexList(rows)' = IndexList(rows)
<1>1. \A found : ColumnsOf(new, found)' = ColumnsOf(new, found)
  BY DEF ColumnsOf
<1>2. IndexRows' = IndexRows /\ ConstraintRows' = ConstraintRows /\ IndexName' = IndexName
  BY DEF IndexRows, ConstraintRows, IndexName
<1>3. Decoded(new)' = Decoded(new)
  BY <1>2 DEF Decoded, MySqlEntry, PgEntry
<1>4. \A rows : IndexList(rows)' = IndexList(rows)
  BY DEF IndexList
<1>5. DecodedKeys(new)' = DecodedKeys(new)
  BY <1>2 DEF DecodedKeys
<1>6. IndexList(DecodedKeys(new))' = IndexList(DecodedKeys(new))
  BY <1>5 DEF IndexList
<1>7. KeyEntries(t, new)' = KeyEntries(t, new)
  BY <1>6 DEF KeyEntries
<1> QED  BY <1>1, <1>3, <1>4, <1>7

\* What is filled in stays, as long as nobody writes it.
LEMMA FilledStays ==
  ASSUME client' = client, NEW q, NEW t, NEW new, Filled(q, t, new),
         q = "columns" => columns'[t] = columns[t], q = "indexes" => indexes'[t] = indexes[t],
         q = "constraints" => keys'[t] = keys[t]
  PROVE  Filled(q, t, new)'
<1>1. IndexList(Decoded(new))' = IndexList(Decoded(new))
  BY ReadsTheSame DEF IndexList
<1> QED  BY Zenon, <1>1, ReadsTheSame DEF Filled

\* So it stays what was decoded, as long as nothing else of it is lost.
LEMMA FilledIsKept ==
  ASSUME client' = client, NEW q, NEW t, Filled(q, t, LostOf(q, t)), LostOf(q, t)' = LostOf(q, t),
         q = "columns" => columns'[t] = columns[t], q = "indexes" => indexes'[t] = indexes[t],
         q = "constraints" => keys'[t] = keys[t]
  PROVE  Filled(q, t, LostOf(q, t))'
<1>1. PICK new : new = LostOf(q, t)
  OBVIOUS
<1>2. Filled(q, t, new)
  BY Zenon, <1>1
<1>3. Filled(q, t, new)'
  BY Zenon, <1>2, FilledStays
<1>4. new = LostOf(q, t)'
  BY Zenon, <1>1
<1> QED  BY Zenon, <1>3, <1>4

\* One answer after the other is kept as it was decoded.
LEMMA DecodedStep == IInv /\ DecodedIInv /\ [Next]_vars => DecodedIInv'
<1> SUFFICES ASSUME IInv, DecodedIInv, [Next]_vars PROVE DecodedIInv'
  OBVIOUS
<1>0. /\ DOMAIN columns = Tables /\ DOMAIN indexes = Tables /\ DOMAIN keys = Tables
      /\ DOMAIN todo = Tables /\ DOMAIN kind = Tables
  BY DEF DecodedIInv, ListsAreOfTables, IInv, Shape
<1>1. ASSUME NEW schema, ListTables(schema) PROVE DecodedIInv'
  <2> DEFINE listed == {t \in Tables : t[1] = schema}
             reads == {[query |-> "tables", table |-> t, row |-> 1, value |-> "table_type"] : t \in listed}
             type(new) == [t \in Tables |->
                             IF t \notin listed THEN kind[t]
                             ELSE IF \E l \in new : l.table = t THEN "other" ELSE TypeOf[t]]
  <2>1. PICK new \in SUBSET reads :
          /\ kind' = type(new)
          /\ todo' = [t \in Tables |-> IF t \in listed THEN QueriesFor(type(new)[t]) ELSE todo[t]]
          /\ Losing("tables", new)
    BY Zenon, <1>1 DEF ListTables
  <2>2. UNCHANGED <<client, columns, indexes, keys>> /\ lost' = lost \cup new
    BY <1>1, <2>1 DEF ListTables, Losing
  <2>3. \A t \in listed : kind[t] = "unlisted"
    <3>1. \E t \in listed : kind[t] = "unlisted"
      BY Zenon, <1>1 DEF ListTables
    <3> QED  BY Zenon, <3>1 DEF DecodedIInv, ListedTogether
  <2>4. \A t \in Tables \ listed : kind'[t] = kind[t] /\ todo'[t] = todo[t]
    BY Zenon, <2>1
  <2>5. \A t \in listed : kind'[t] \in {"table", "view", "other"} /\ todo'[t] = QueriesFor(kind'[t])
    <3>1. TypeOf \in [Tables -> {"table", "view"}]
      BY Zenon, ReadAssumption
    <3> QED  BY Zenon, <2>1, <3>1
  <2>6. ASSUME NEW q \in OfTables, NEW t \in listed PROVE t \notin DoneWith(q) /\ t \notin DoneWith(q)'
    <3>1. t \notin DoneWith(q)
      BY <2>3 DEF DoneWith
    <3>2. kind'[t] = "table" => ~DoneIn(q, todo'[t])
      <4> HAVE kind'[t] = "table"
      <4>1. todo'[t] = <<"columns", "indexes", "constraints">>
        BY <2>5 DEF QueriesFor
      <4>2. Len(todo'[t]) = 3 /\ todo'[t] # <<>>
        BY <4>1
      <4> QED  BY <4>2 DEF DoneIn
    <3> QED  BY <3>1, <3>2 DEF DoneWith
  <2>7. \A q \in OfTables : DoneWith(q)' = DoneWith(q)
    <3> TAKE q \in OfTables
    <3>1. \A t \in Tables \ listed : t \in DoneWith(q)' <=> t \in DoneWith(q)
      BY Zenon, <2>4 DEF DoneWith
    <3>2. DoneWith(q) \subseteq Tables /\ DoneWith(q)' \subseteq Tables
      BY DEF DoneWith
    <3> QED  BY Zenon, <2>6, <3>1, <3>2
  <2>8. \A l \in new : l.query = "tables"
    BY <2>1
  <2>9. \A q \in OfTables : \A t : LostOf(q, t)' = LostOf(q, t)
    <3> TAKE q \in OfTables
    <3> TAKE t
    <3>1. "tables" \notin OfTables
      BY DEF OfTables
    <3> QED  BY Zenon, <2>2, <2>8, <3>1 DEF LostOf
  <2>10. AsDecoded'
    <3>1. ASSUME NEW q \in OfTables, NEW t \in DoneWith(q) PROVE Filled(q, t, LostOf(q, t))'
      <4>1. Filled(q, t, LostOf(q, t))
        BY Zenon DEF DecodedIInv, AsDecoded
      <4> QED  BY Zenon, <2>2, <2>9, <4>1, FilledIsKept
    <3> QED  BY Zenon, <2>7, <3>1 DEF AsDecoded
  <2>11. LostWhenAnswered'
    <3> SUFFICES ASSUME NEW l \in lost', l.query \in OfTables PROVE l.table \in DoneWith(l.query)'
      BY DEF LostWhenAnswered
    <3>1. l \in lost
      BY <2>2, <2>8 DEF OfTables
    <3> QED  BY Zenon, <2>7, <3>1 DEF DecodedIInv, LostWhenAnswered
  <2>12. ListedTogether'
    <3> SUFFICES ASSUME NEW t \in Tables, NEW u \in Tables, t[1] = u[1], kind'[t] = "unlisted"
                 PROVE  kind'[u] = "unlisted"
      BY DEF ListedTogether
    <3>1. t \notin listed /\ u \notin listed
      BY <2>5
    <3> QED  BY Zenon, <2>4, <3>1 DEF DecodedIInv, ListedTogether
  <2> QED  BY Zenon, <1>0, <2>2, <2>10, <2>11, <2>12 DEF DecodedIInv, ListsAreOfTables
<1>2. ASSUME UNCHANGED <<client, kind, todo, lost, columns, indexes, keys>> PROVE DecodedIInv'
  <2>1. \A q : DoneWith(q)' = DoneWith(q)
    BY <1>2 DEF DoneWith
  <2>2. \A q, t : LostOf(q, t)' = LostOf(q, t)
    BY <1>2 DEF LostOf
  <2>3. UNCHANGED <<client, columns, indexes, keys, kind, lost>>
    BY Zenon, <1>2
  <2>4. AsDecoded'
    <3>1. ASSUME NEW q \in OfTables, NEW t \in DoneWith(q) PROVE Filled(q, t, LostOf(q, t))'
      <4>1. Filled(q, t, LostOf(q, t))
        BY Zenon DEF DecodedIInv, AsDecoded
      <4> QED  BY Zenon, <2>2, <2>3, <4>1, FilledIsKept
    <3> QED  BY Zenon, <2>1, <3>1 DEF AsDecoded
  <2> QED  BY Zenon, <2>1, <2>3, <2>4
             DEF DecodedIInv, ListsAreOfTables, ListedTogether, LostWhenAnswered
<1>3. ASSUME NEW u \in Tables, Answer(u) PROVE DecodedIInv'
  <2>0. PICK h : h = Head(todo[u])
    OBVIOUS
  <2> DEFINE Now(q) == IF q = h THEN {u} ELSE {}
  <2>1. PICK new \in Undecodable(h, u) : Losing(h, new) /\ Fill(h, u, new)
    BY Zenon, <1>3, <2>0 DEF Answer
  <2>2. /\ client' = client /\ kind' = kind /\ lost' = lost \cup new
        /\ todo' = [todo EXCEPT ![u] = Tail(todo[u])] /\ todo[u] # <<>>
    BY <1>3, <2>0, <2>1 DEF Answer, Losing
  <2>3. \A l \in new : l.query = h /\ l.table = u
    <3> TAKE l \in new
    <3>1. l \in ReadsOf(h, u)
      BY <2>1 DEF Undecodable
    <3> QED  BY <3>1 DEF ReadsOf
  <2>4. todo[u] \in Rests(kind[u]) /\ kind[u] \in {"unlisted", "table", "view", "other"}
    BY DEF IInv, Shape
  <2>5. kind[u] = "table" => /\ h \in OfTables /\ ~DoneIn(h, todo[u])
                             /\ \A q \in OfTables : DoneIn(q, todo'[u]) <=> DoneIn(q, todo[u]) \/ q = h
    <3> HAVE kind[u] = "table"
    <3>1. todo[u] \in Rests("table") /\ todo[u] # <<>> /\ todo'[u] = Tail(todo[u])
      BY <1>0, <2>2, <2>4
    <3> DEFINE s == todo[u]
    <3>2. s \in Rests("table") /\ s # <<>> /\ h = Head(s) /\ todo'[u] = Tail(s)
      BY Zenon, <2>0, <3>1
    <3> HIDE DEF s
    <3>3. /\ Head(s) \in OfTables /\ ~DoneIn(Head(s), s)
          /\ \A q \in OfTables : DoneIn(q, Tail(s)) <=> DoneIn(q, s) \/ q = Head(s)
      BY Zenon, <3>2, NextAnswer
    <3>4. /\ h \in OfTables /\ ~DoneIn(h, s)
          /\ \A q \in OfTables : DoneIn(q, todo'[u]) <=> DoneIn(q, s) \/ q = h
      BY Zenon, <3>2, <3>3
    <3> QED  BY Zenon, <3>4 DEF s
  <2>6. kind[u] # "table" => h \notin OfTables
    <3> HAVE kind[u] # "table"
    <3>1. todo[u] = <<"view">>
      BY <2>2, <2>4 DEF Rests
    <3>2. h = "view"
      BY <2>0, <3>1
    <3> QED  BY <3>2 DEF OfTables
  <2>7. \A t \in Tables \ {u} : todo'[t] = todo[t]
    BY <1>0, <2>2
  <2>8. \A q \in OfTables : DoneWith(q)' = DoneWith(q) \cup Now(q)
    <3> TAKE q \in OfTables
    <3>1. DoneWith(q) \cup Now(q) \subseteq Tables /\ DoneWith(q)' \subseteq Tables
      BY DEF DoneWith
    <3>2. \A t \in Tables \ {u} : t \in DoneWith(q)' <=> t \in DoneWith(q)
      BY Zenon, <2>2, <2>7 DEF DoneWith
    <3>3. u \in DoneWith(q)' <=> u \in DoneWith(q) \/ q = h
      <4>1. kind'[u] = kind[u]
        BY Zenon, <2>2
      <4> QED  BY Zenon, <2>5, <2>6, <4>1 DEF DoneWith
    <3> QED  BY Zenon, <3>1, <3>2, <3>3
  <2>9. h \in OfTables => LostOf(h, u) = {}
    <3> HAVE h \in OfTables
    <3>1. u \notin DoneWith(h)
      BY Zenon, <2>5 DEF DoneWith
    <3> QED  BY Zenon, <3>1 DEF LostOf, DecodedIInv, LostWhenAnswered
  <2>10. \A q, t : ~(q = h /\ t = u) => LostOf(q, t)' = LostOf(q, t)
    BY Zenon, <2>2, <2>3 DEF LostOf
  <2>11. h \in OfTables => LostOf(h, u)' = new
    <3> HAVE h \in OfTables
    <3>1. \A l \in lost : ~(l.query = h /\ l.table = u)
      BY Zenon, <2>9 DEF LostOf
    <3>2. \A l \in lost' : l.query = h /\ l.table = u <=> l \in new
      BY Zenon, <2>2, <2>3, <3>1
    <3>3. new \subseteq lost'
      BY Zenon, <2>2
    <3> QED  BY Zenon, <3>2, <3>3 DEF LostOf
  <2>12. Filled(h, u, new)'
    <3>1. h = "columns" => \E found \in KeysFound : columns'[u] = ColumnsOf(new, found)
      BY <1>0, <2>1 DEF Fill
    <3>2. h = "indexes" => indexes'[u] = IndexList(Decoded(new))
      BY <1>0, <2>1 DEF Fill
    <3>3. h = "constraints" => keys'[u] = KeyEntries(u, new)
      <4> HAVE h = "constraints"
      <4>1. keys' = [keys EXCEPT ![u] = KeyEntries(u, new)]
        BY Zenon, <2>1 DEF Fill, KeyEntries
      <4> QED  BY <1>0, <4>1
    <3>4. IndexList(Decoded(new))' = IndexList(Decoded(new))
      BY <2>2, ReadsTheSame DEF IndexList
    <3> QED  BY Zenon, <2>2, <3>1, <3>2, <3>3, <3>4, ReadsTheSame DEF Filled
  <2>13. /\ DOMAIN columns' = Tables /\ \A t \in Tables : t # u \/ h # "columns" => columns'[t] = columns[t]
         /\ DOMAIN indexes' = Tables /\ \A t \in Tables : t # u \/ h # "indexes" => indexes'[t] = indexes[t]
         /\ DOMAIN keys' = Tables /\ \A t \in Tables : t # u \/ h # "constraints" => keys'[t] = keys[t]
    <3>1. \A f, x : DOMAIN f = Tables => /\ DOMAIN [f EXCEPT ![u] = x] = Tables
                                       /\ \A t \in Tables : t # u => [f EXCEPT ![u] = x][t] = f[t]
      OBVIOUS
    <3>2. /\ columns' = columns \/ (h = "columns" /\ \E x : columns' = [columns EXCEPT ![u] = x])
          /\ indexes' = indexes \/ (h = "indexes" /\ \E x : indexes' = [indexes EXCEPT ![u] = x])
          /\ keys' = keys \/ (h = "constraints" /\ \E x : keys' = [keys EXCEPT ![u] = x])
      <4>1. columns' = columns \/ (h = "columns" /\ \E x : columns' = [columns EXCEPT ![u] = x])
        BY Zenon, <2>1 DEF Fill
      <4>2. indexes' = indexes \/ (h = "indexes" /\ \E x : indexes' = [indexes EXCEPT ![u] = x])
        BY Zenon, <2>1 DEF Fill
      <4>3. keys' = keys \/ (h = "constraints" /\ \E x : keys' = [keys EXCEPT ![u] = x])
        BY Zenon, <2>1 DEF Fill
      <4> QED  BY Zenon, <4>1, <4>2, <4>3
    <3> QED  BY Zenon, <1>0, <3>1, <3>2
  <2>14. AsDecoded'
    <3>1. ASSUME NEW q \in OfTables, NEW t \in DoneWith(q)' PROVE Filled(q, t, LostOf(q, t))'
      <4>1. CASE q = h /\ t = u
        <5>1. Filled(q, t, new)' /\ new = LostOf(q, t)'
          BY Zenon, <2>11, <2>12, <4>1
        <5> QED  BY Zenon, <5>1
      <4>2. CASE ~(q = h /\ t = u)
        <5>1. t \in DoneWith(q) /\ t \in Tables
          BY Zenon, <2>8, <4>2 DEF DoneWith
        <5>2. Filled(q, t, LostOf(q, t)) /\ LostOf(q, t)' = LostOf(q, t)
          BY Zenon, <2>10, <4>2, <5>1 DEF DecodedIInv, AsDecoded
        <5>3. /\ q = "columns" => columns'[t] = columns[t]
              /\ q = "indexes" => indexes'[t] = indexes[t]
              /\ q = "constraints" => keys'[t] = keys[t]
          <6>1. t # u \/ h # q
            BY Zenon, <4>2
          <6>2. q = "columns" => columns'[t] = columns[t]
            BY Zenon, <2>13, <5>1, <6>1
          <6>3. q = "indexes" => indexes'[t] = indexes[t]
            BY Zenon, <2>13, <5>1, <6>1
          <6>4. q = "constraints" => keys'[t] = keys[t]
            BY Zenon, <2>13, <5>1, <6>1
          <6> QED  BY Zenon, <6>2, <6>3, <6>4
        <5> QED  BY Zenon, <2>2, <5>2, <5>3, FilledIsKept
      <4> QED  BY Zenon, <4>1, <4>2
    <3> QED  BY Zenon, <3>1 DEF AsDecoded
  <2>15. LostWhenAnswered'
    <3> SUFFICES ASSUME NEW l \in lost', l.query \in OfTables PROVE l.table \in DoneWith(l.query)'
      BY DEF LostWhenAnswered
    <3>1. CASE l \in lost
      BY Zenon, <2>8, <3>1 DEF DecodedIInv, LostWhenAnswered
    <3>2. CASE l \in new
      BY Zenon, <2>3, <2>8, <3>2
    <3> QED  BY Zenon, <2>2, <3>1, <3>2
  <2> QED  BY Zenon, <2>2, <2>13, <2>14, <2>15 DEF DecodedIInv, ListedTogether, ListsAreOfTables
<1>4. CASE UNCHANGED vars
  BY Zenon, <1>2, <1>4 DEF vars
<1>5. ASSUME NEW schema, Write(schema) PROVE DecodedIInv'
  BY Zenon, <1>2, <1>5 DEF Write
<1> QED  BY Zenon, <1>1, <1>3, <1>4, <1>5 DEF Next

\* All that is kept of the tables was decoded from their rows.
LEMMA DecodedInvariance == Spec => []DecodedIInv
<1>1. Init => DecodedIInv
  <2> SUFFICES ASSUME Init PROVE DecodedIInv
    OBVIOUS
  <2>1. ListsAreOfTables /\ lost = {} /\ \A t \in Tables : kind[t] = "unlisted"
    BY DEF Init, ListsAreOfTables
  <2>2. \A q : DoneWith(q) = {}
    BY <2>1 DEF DoneWith
  <2> QED  BY Zenon, <2>1, <2>2 DEF DecodedIInv, ListedTogether, LostWhenAnswered, AsDecoded
<1> QED  BY <1>1, DecodedStep, Invariance, PTL DEF Spec

\* What is lost of a query of a table.
LEMMA LostOfTells ==
  ASSUME NEW q \in Queries, NEW t, LostAreReads
  PROVE  LostIn(q, t, LostOf(q, t)) /\ \A k : LostAt(k, LostOf(q, t)) \subseteq Values[q]
<1>1. LostIn(q, t, LostOf(q, t))
  BY Zenon DEF LostIn, LostRows, LostAt, LostOf
<1>2. \A k : LostAt(k, LostOf(q, t)) \subseteq Values[q]
  BY Zenon DEF LostAt, LostOf, LostAreReads
<1> QED  BY Zenon, <1>1, <1>2

\* Joined and Strengthen: rows that tell of the same index, foreign key or column
\* are put together, whatever is lost in some of them and in whatever order those
\* come that have none, for any number of rows.
THEOREM RowsJoined == Spec => []RowsAreJoined
<1>1. IInv /\ DecodedIInv => RowsAreJoined
  <2> SUFFICES ASSUME IInv, DecodedIInv PROVE RowsAreJoined
    OBVIOUS
  <2>1. /\ client \in {"mysql", "postgres"} /\ LostAreReads
        /\ "columns" \in OfTables /\ "indexes" \in OfTables /\ "constraints" \in OfTables
        /\ "columns" \in Queries /\ "indexes" \in Queries /\ "constraints" \in Queries
    BY DEF IInv, Shape, OfTables, Queries
  <2>2. \A q \in OfTables : \A t \in DoneWith(q) : Filled(q, t, LostOf(q, t))
    BY Zenon DEF DecodedIInv, AsDecoded
  <2>3. ASSUME client = "mysql", NEW t \in Read PROVE IndexesAreJoined(t)
    <3>1. PICK new : new = LostOf("indexes", t)
      OBVIOUS
    <3>2. LostIn("indexes", t, new)
      BY Zenon, <2>1, <3>1, LostOfTells
    <3>3. indexes[t] = Joined(Decoded(new))
      BY Zenon, <2>1, <2>2, <2>3, <3>1, DoneIs DEF Filled, IndexList
    <3> QED  BY Zenon, <2>3, <3>2, <3>3, IndexesJoin
  <2>4. ASSUME NEW t \in Complete PROVE KeysAreJoined(t)
    <3>1. PICK new : new = LostOf("constraints", t)
      OBVIOUS
    <3>2. LostIn("constraints", t, new) /\ \A k : LostAt(k, new) \subseteq Values["constraints"]
      BY Zenon, <2>1, <3>1, LostOfTells
    <3>3. Values["constraints"] = ConstraintValues
      BY DEF Values
    <3>4. keys[t] = KeyEntries(t, new)
      BY Zenon, <2>1, <2>2, <3>1, DoneIs DEF Filled
    <3>5. ASSUME LostRows("constraints", t, ConstraintValues) = {}
          PROVE  keys[t] = [k \in DOMAIN Keys |-> KeyEntry(t[1], Keys[k])]
      <4>1. \A k : LostAt(k, new) = {}
        <5> TAKE k
        <5>1. k \notin LostRows("constraints", t, ConstraintValues)
          BY Zenon, <3>5
        <5> QED  BY Zenon, <3>2, <3>3, <5>1 DEF LostIn
      <4>2. IndexList(DecodedKeys(new)) = Keys
        BY Zenon, <2>1, <4>1, KeysJoin
      <4> QED  BY Zenon, <3>4, <4>2 DEF KeyEntries
    <3> QED  BY Zenon, <3>5 DEF KeysAreJoined
  <2>5. ASSUME client = "postgres", NEW t \in Described PROVE RolesAreStrongest(t)
    <3>1. PICK new : new = LostOf("columns", t)
      OBVIOUS
    <3>2. LostIn("columns", t, new) /\ \A k : LostAt(k, new) \subseteq Values["columns"]
      BY Zenon, <2>1, <3>1, LostOfTells
    <3>3. Values["columns"] = ColumnValues
      BY DEF Values
    <3>4. PICK found \in KeysFound : columns[t] = ColumnsOf(new, found)
      BY Zenon, <2>1, <2>2, <2>5, <3>1, DoneIs DEF Filled
    <3> QED  BY Zenon, <2>5, <3>2, <3>3, <3>4, RolesJoin
  <2> QED  BY Zenon, <2>3, <2>4, <2>5 DEF RowsAreJoined
<1> QED  BY <1>1, DecodedInvariance, Invariance, PTL

\* quote_literal_default: a default that was read means what it means in the
\* database, for defaults of any length and with any signs, of any number of
\* columns.
THEOREM DefaultsStand == Spec => []DefaultsKeepMeaning
<1>1. IInv /\ DecodedIInv => DefaultsKeepMeaning
  <2> SUFFICES ASSUME IInv, DecodedIInv, client = "mysql", NEW t \in Described,
                      NEW k \in DOMAIN Fields \ LostRows("columns", t, ColumnValues)
               PROVE  StandsFor(columns[t][k].default, Fields[k])
    BY Zenon DEF DefaultsKeepMeaning
  <2>1. LostAreReads /\ "columns" \in OfTables /\ "columns" \in Queries /\ Values["columns"] = ColumnValues
    BY DEF IInv, OfTables, Queries, Values
  <2>2. PICK new : new = LostOf("columns", t)
    OBVIOUS
  <2>3. PICK found \in KeysFound : columns[t] = ColumnsOf(new, found)
    BY Zenon, <2>1, <2>2, DoneIs DEF DecodedIInv, AsDecoded, Filled
  <2>4. LostAt(k, new) = {}
    <3>1. LostIn("columns", t, new) /\ LostAt(k, new) \subseteq ColumnValues
      BY Zenon, <2>1, <2>2, LostOfTells
    <3>2. k \notin LostRows("columns", t, ColumnValues)
      BY Zenon
    <3> QED  BY Zenon, <3>1, <3>2 DEF LostIn
  <2> QED  BY Zenon, <2>3, <2>4, DefaultIsRead
<1> QED  BY <1>1, DecodedInvariance, Invariance, PTL

------------------------------------------------------------------------------
\* The sessions of the MySQL client

Databases == {0} \cup {SchemaOf[j] : j \in Jobs}

(***************************************************************************)
(* The inductive invariant.  A definition is right because of the session  *)
(* it is read in: nobody else can have touched that session since USE, and *)
(* every open session went through after_connect.                          *)
(***************************************************************************)
DatabaseIsFunction == database \in [Open -> Databases]
OpenIsPlain == plain = Open
UsedIsKept ==
  \A j \in Jobs : phase[j] = "show" /\ KindOf[j] # "routine"
                    => database[held[j]] = SchemaOf[j]

SessionIInv ==
  /\ SessionTypeOK
  /\ DatabaseIsFunction
  /\ OpenIsPlain
  /\ OneUser
  /\ UsedIsKept
  /\ ReadsAreUnqualified
  /\ LossIsWarned

LEMMA SessionInitIInv == SessionInit => SessionIInv
<1> SUFFICES ASSUME SessionInit PROVE SessionIInv
  OBVIOUS
<1> USE DEF SessionInit
<1>1. Open = {1} /\ database[1] = 0
  BY DEF Open
<1>2. SessionTypeOK
  BY <1>1, SessionAssumption DEF SessionTypeOK, Connections
<1>3. DatabaseIsFunction
  BY <1>1 DEF DatabaseIsFunction, Databases
<1>4. OpenIsPlain
  BY <1>1 DEF OpenIsPlain
<1>5. OneUser /\ UsedIsKept /\ ReadsAreUnqualified /\ LossIsWarned
  BY DEF OneUser, UsedIsKept, ReadsAreUnqualified, LossIsWarned
<1> QED  BY <1>2, <1>3, <1>4, <1>5 DEF SessionIInv

------------------------------------------------------------------------------
\* Each action keeps the invariant

LEMMA StartIInv == ASSUME SessionIInv, NEW j \in Jobs, Start(j) PROVE SessionIInv'
<1> USE DEF SessionIInv, Start, Open
<1>1. SessionTypeOK'  BY DEF SessionTypeOK, Connections
<1>2. DatabaseIsFunction' /\ OpenIsPlain'  BY DEF DatabaseIsFunction, OpenIsPlain, Databases
<1>3. OneUser'  BY DEF OneUser, SessionTypeOK
<1>4. UsedIsKept'  BY DEF UsedIsKept, SessionTypeOK
<1>5. ReadsAreUnqualified'  BY DEF ReadsAreUnqualified
<1>6. LossIsWarned'  BY DEF LossIsWarned, SessionTypeOK
<1> QED  BY <1>1, <1>2, <1>3, <1>4, <1>5, <1>6

LEMMA TakeIdleIInv == ASSUME SessionIInv, NEW j \in Jobs, TakeIdle(j) PROVE SessionIInv'
<1> USE DEF SessionIInv, TakeIdle, Acquired, Open
<1> PICK c \in Idle : Acquired(j, c)
  BY DEF Idle
<1>0. c \in Open /\ \A i \in Jobs : held[i] # c
  BY DEF Idle
<1>1. SessionTypeOK'  BY <1>0 DEF SessionTypeOK, Connections
<1>2. DatabaseIsFunction' /\ OpenIsPlain'  BY DEF DatabaseIsFunction, OpenIsPlain, Databases
<1>3. OneUser'  BY <1>0, NoneAssumption DEF OneUser, SessionTypeOK
<1>4. UsedIsKept'  BY DEF UsedIsKept, SessionTypeOK
<1>5. ReadsAreUnqualified'  BY DEF ReadsAreUnqualified
<1>6. LossIsWarned'  BY DEF LossIsWarned, SessionTypeOK
<1> QED  BY <1>1, <1>2, <1>3, <1>4, <1>5, <1>6

LEMMA ConnectIInv == ASSUME SessionIInv, NEW j \in Jobs, Connect(j) PROVE SessionIInv'
<1> USE DEF SessionIInv, Connect, Acquired
<1> PICK c \in Connections \ Open :
       /\ Acquired(j, c)
       /\ database' = [d \in Open \cup {c} |-> IF d = c THEN 0 ELSE database[d]]
       /\ plain' = plain \cup {c}
  OBVIOUS
<1>0. /\ Open' = Open \cup {c} /\ database'[c] = 0
      /\ \A d \in Open : database'[d] = database[d]
  BY DEF Open
<1>1. SessionTypeOK'  BY <1>0 DEF SessionTypeOK, Connections
<1>2. DatabaseIsFunction' /\ OpenIsPlain'
  BY <1>0 DEF DatabaseIsFunction, OpenIsPlain, Databases
<1>3. OneUser'  BY <1>0, NoneAssumption DEF OneUser, SessionTypeOK
<1>4. UsedIsKept'  BY <1>0 DEF UsedIsKept, SessionTypeOK, OneUser
<1>5. ReadsAreUnqualified'  BY DEF ReadsAreUnqualified
<1>6. LossIsWarned'  BY DEF LossIsWarned, SessionTypeOK
<1> QED  BY <1>1, <1>2, <1>3, <1>4, <1>5, <1>6

LEMMA UseIInv == ASSUME SessionIInv, NEW j \in Jobs, Use(j) PROVE SessionIInv'
<1> USE DEF SessionIInv, Use
<1>0. /\ held[j] \in Open /\ Open' = Open /\ database'[held[j]] = SchemaOf[j]
      /\ \A d \in Open \ {held[j]} : database'[d] = database[d]
  BY DEF OneUser, Open, DatabaseIsFunction
<1>1. SessionTypeOK'  BY <1>0 DEF SessionTypeOK, Connections
<1>2. DatabaseIsFunction' /\ OpenIsPlain'
  BY <1>0 DEF DatabaseIsFunction, OpenIsPlain, Databases
<1>3. OneUser'  BY <1>0 DEF OneUser, SessionTypeOK
<1>4. UsedIsKept'  BY <1>0 DEF UsedIsKept, SessionTypeOK, OneUser
<1>5. ReadsAreUnqualified'  BY DEF ReadsAreUnqualified
<1>6. LossIsWarned'  BY DEF LossIsWarned, SessionTypeOK
<1> QED  BY <1>1, <1>2, <1>3, <1>4, <1>5, <1>6

LEMMA ShowIInv == ASSUME SessionIInv, NEW j \in Jobs, Show(j) PROVE SessionIInv'
<1> USE DEF SessionIInv
<1> DEFINE answer(keeps, head) ==
       [qualified |-> KindOf[j] = "view" /\ database[held[j]] # SchemaOf[j],
        ansi |-> held[j] \notin plain,
        definer |-> keeps,
        head |-> head]
<1>0. Policy(j) \in Heads /\ <<>> \in Heads
  BY DEF Policy, Heads
<1>1. PICK keeps \in BOOLEAN, head \in Heads :
        /\ result' = [result EXCEPT ![j] = answer(keeps, head)]
        /\ warned' = IF keeps /\ SkipDefiner THEN warned \cup {j} ELSE warned
  BY <1>0, SessionAssumption DEF Show
<1>2. /\ phase[j] = "show" /\ phase' = [phase EXCEPT ![j] = "done"]
      /\ held' = [held EXCEPT ![j] = None]
      /\ UNCHANGED <<database, plain, breaks>> /\ Open' = Open
  BY DEF Show, Open
<1>3. /\ answer(keeps, head) \in Definitions /\ answer(keeps, head) # None
      /\ answer(keeps, head).definer = keeps
  <2>1. /\ (KindOf[j] = "view" /\ database[held[j]] # SchemaOf[j]) \in BOOLEAN
        /\ (held[j] \notin plain) \in BOOLEAN /\ keeps \in BOOLEAN
    OBVIOUS
  <2>2. answer(keeps, head) \in Definitions
    BY <2>1, Zenon DEF Definitions
  <2>3. answer(keeps, head).definer = keeps
    OBVIOUS
  <2> HIDE DEF answer
  <2> QED  BY <2>2, <2>3, NoneAssumption
<1>4. ~answer(keeps, head).qualified /\ ~answer(keeps, head).ansi
  <2>1. held[j] \in plain
    BY <1>2 DEF OneUser, OpenIsPlain
  <2>2. KindOf[j] = "view" => database[held[j]] = SchemaOf[j]
    BY <1>2 DEF UsedIsKept
  <2> QED  BY <2>1, <2>2
<1> HIDE DEF answer
<1>5. SessionTypeOK'  BY <1>1, <1>2, <1>3 DEF SessionTypeOK
<1>6. DatabaseIsFunction' /\ OpenIsPlain'  BY <1>2 DEF DatabaseIsFunction, OpenIsPlain, Databases
<1>7. OneUser'  BY <1>2 DEF OneUser, SessionTypeOK
<1>8. UsedIsKept'  BY <1>2 DEF UsedIsKept, SessionTypeOK
<1>9. ReadsAreUnqualified'  BY <1>1, <1>4 DEF ReadsAreUnqualified, SessionTypeOK
<1>10. LossIsWarned'  BY <1>1, <1>2, <1>3 DEF LossIsWarned, SessionTypeOK
<1> QED  BY <1>5, <1>6, <1>7, <1>8, <1>9, <1>10

\* A job that ends with a warning and gives its connection back.
LEMMA GiveUpIInv ==
  ASSUME SessionIInv, NEW j \in Jobs, GiveUp(j), UNCHANGED <<database, plain, result, breaks>>
  PROVE  SessionIInv'
<1> USE DEF SessionIInv, GiveUp, Open
<1>1. SessionTypeOK'  BY DEF SessionTypeOK, Connections
<1>2. DatabaseIsFunction' /\ OpenIsPlain'  BY DEF DatabaseIsFunction, OpenIsPlain, Databases
<1>3. OneUser'  BY DEF OneUser, SessionTypeOK
<1>4. UsedIsKept'  BY DEF UsedIsKept, SessionTypeOK
<1>5. ReadsAreUnqualified'  BY DEF ReadsAreUnqualified
<1>6. LossIsWarned'  BY DEF LossIsWarned, SessionTypeOK
<1> QED  BY <1>1, <1>2, <1>3, <1>4, <1>5, <1>6

\* What closing a connection leaves of the others.
LEMMA CloseRest ==
  ASSUME SessionIInv, NEW c \in Open, Close(c)
  PROVE  /\ Open' = Open \ {c} /\ \A d \in Open' : database'[d] = database[d]
         /\ DatabaseIsFunction' /\ OpenIsPlain'
         /\ Open' \subseteq Connections /\ plain' \subseteq Open' /\ breaks' \in 0..MaxBreaks
<1>1. Open' = Open \ {c} /\ \A d \in Open' : database'[d] = database[d]
  BY DEF Close, Open
<1>2. DatabaseIsFunction' /\ OpenIsPlain'
  BY <1>1 DEF SessionIInv, Close, DatabaseIsFunction, OpenIsPlain, Databases
<1>3. breaks' \in 0..MaxBreaks
  BY SessionAssumption DEF SessionIInv, Close, SessionTypeOK
<1> QED  BY <1>1, <1>2, <1>3 DEF SessionIInv, OpenIsPlain, SessionTypeOK

LEMMA BrokenIInv == ASSUME SessionIInv, NEW j \in Jobs, Broken(j) PROVE SessionIInv'
<1> USE DEF SessionIInv, Broken
<1>0. held[j] \in Open /\ Close(held[j]) /\ GiveUp(j)
  BY DEF OneUser
<1>1. /\ Open' = Open \ {held[j]} /\ \A d \in Open' : database'[d] = database[d]
      /\ DatabaseIsFunction' /\ OpenIsPlain'
      /\ Open' \subseteq Connections /\ plain' \subseteq Open' /\ breaks' \in 0..MaxBreaks
  BY <1>0, CloseRest
<1>2. SessionTypeOK'  BY <1>0, <1>1 DEF SessionTypeOK, GiveUp, Connections
<1>3. OneUser'  BY <1>0, <1>1 DEF OneUser, SessionTypeOK, GiveUp
<1>4. UsedIsKept'  BY <1>0, <1>1, <1>3 DEF UsedIsKept, SessionTypeOK, GiveUp, OneUser
<1>5. ReadsAreUnqualified'  BY DEF ReadsAreUnqualified
<1>6. LossIsWarned'  BY <1>0 DEF LossIsWarned, SessionTypeOK, GiveUp
<1> QED  BY <1>1, <1>2, <1>3, <1>4, <1>5, <1>6

LEMMA IdleBrokenIInv == ASSUME SessionIInv, NEW c \in Connections, IdleBroken(c) PROVE SessionIInv'
<1> USE DEF SessionIInv, IdleBroken
<1>0. c \in Open /\ Close(c) /\ \A j \in Jobs : held[j] # c
  BY DEF Idle
<1>1. /\ Open' = Open \ {c} /\ \A d \in Open' : database'[d] = database[d]
      /\ DatabaseIsFunction' /\ OpenIsPlain'
      /\ Open' \subseteq Connections /\ plain' \subseteq Open' /\ breaks' \in 0..MaxBreaks
  BY <1>0, CloseRest
<1>2. SessionTypeOK'  BY <1>1 DEF SessionTypeOK, Connections
<1>3. OneUser'  BY <1>0, <1>1 DEF OneUser
<1>4. UsedIsKept'  BY <1>0, <1>1, <1>3 DEF UsedIsKept, OneUser
<1>5. ReadsAreUnqualified'  BY DEF ReadsAreUnqualified
<1>6. LossIsWarned'  BY DEF LossIsWarned
<1> QED  BY <1>1, <1>2, <1>3, <1>4, <1>5, <1>6

LEMMA SessionNextIInv == SessionIInv /\ [SessionNext]_sessionVars => SessionIInv'
<1> SUFFICES ASSUME SessionIInv, [SessionNext]_sessionVars PROVE SessionIInv'
  OBVIOUS
<1>1. ASSUME NEW j \in Jobs, ShowHidden(j) PROVE SessionIInv'
  BY <1>1, GiveUpIInv DEF ShowHidden, GiveUp
<1>2. ASSUME NEW j \in Jobs, Refused(j) PROVE SessionIInv'
  BY <1>2, GiveUpIInv DEF Refused
<1>5. ASSUME NEW j \in Jobs, AcquireFails(j) PROVE SessionIInv'
  BY <1>5, GiveUpIInv DEF AcquireFails
<1>3. ASSUME NEW j \in Jobs, Advance(j) PROVE SessionIInv'
  BY <1>1, <1>2, <1>3, StartIInv, TakeIdleIInv, ConnectIInv, UseIInv, ShowIInv DEF Advance
<1>4. CASE UNCHANGED sessionVars
  BY <1>4 DEF sessionVars, SessionIInv, SessionTypeOK, DatabaseIsFunction, Databases, OpenIsPlain, OneUser,
              UsedIsKept, ReadsAreUnqualified, LossIsWarned, Open, Connections
<1> QED  BY <1>3, <1>4, <1>5, BrokenIInv, IdleBrokenIInv DEF SessionNext

THEOREM SessionInvariance == SessionSpec => []SessionIInv
BY SessionInitIInv, SessionNextIInv, PTL DEF SessionSpec

------------------------------------------------------------------------------

\* The state of the sessions has its shape, whatever connections are lost.
THEOREM SessionTypeCorrect == SessionSpec => []SessionTypeOK
<1>1. SessionIInv => SessionTypeOK  BY DEF SessionIInv
<1> QED  BY <1>1, SessionInvariance, PTL

\* Every definition is read with its own schema as the current database and in
\* plain quotes (show_create, after_connect in db/mysql.rs).
THEOREM Unqualified == SessionSpec => []ReadsAreUnqualified
<1>1. SessionIInv => ReadsAreUnqualified  BY DEF SessionIInv
<1> QED  BY <1>1, SessionInvariance, PTL

\* No two jobs ever have the same connection.
THEOREM Exclusive == SessionSpec => []OneUser
<1>1. SessionIInv => OneUser  BY DEF SessionIInv
<1> QED  BY <1>1, SessionInvariance, PTL

\* No definition is lost, and none keeps its DEFINER clause, without a warning.
THEOREM LossWarned == SessionSpec => []LossIsWarned
<1>1. SessionIInv => LossIsWarned  BY DEF SessionIInv
<1> QED  BY <1>1, SessionInvariance, PTL

------------------------------------------------------------------------------
\* The limit on jobs and the size of the pool

AtMost == Cardinality(Running) <= Concurrency

LEMMA RunningFinite == IsFiniteSet(Running) /\ Cardinality(Running) \in Nat
BY SessionAssumption, FS_Subset, FS_CardinalityType DEF Running

\* Only Start makes a job run.
LEMMA AtMostStep == SessionTypeOK /\ AtMost /\ [SessionNext]_sessionVars => AtMost'
<1> SUFFICES ASSUME SessionTypeOK, AtMost, [SessionNext]_sessionVars PROVE AtMost'
  OBVIOUS
<1>0. Concurrency \in Nat /\ IsFiniteSet(Running) /\ Cardinality(Running) \in Nat
  BY SessionAssumption, RunningFinite
<1>1. ASSUME NEW j \in Jobs, Start(j) PROVE AtMost'
  <2>1. Running' = Running \cup {j}
    BY <1>1 DEF Start, Running, SessionTypeOK
  <2>2. j \notin Running
    BY <1>1 DEF Start, Running
  <2>3. Cardinality(Running') = Cardinality(Running) + 1
    BY <2>1, <2>2, <1>0, FS_AddElement
  <2> QED  BY <2>3, <1>0, <1>1 DEF Start, UpTo, AtMost
<1>2. ASSUME Running' \subseteq Running PROVE AtMost'
  BY <1>0, <1>2, FS_Subset, FS_CardinalityType DEF AtMost
<1>3. ASSUME NEW j \in Jobs, Advance(j), ~Start(j) PROVE Running' \subseteq Running
  BY <1>3 DEF Advance, TakeIdle, Connect, Acquired, Use, Show, ShowHidden, Refused, GiveUp,
              Running, SessionTypeOK
<1>4. ASSUME NEW j \in Jobs, AcquireFails(j) \/ Broken(j) PROVE Running' \subseteq Running
  BY <1>4 DEF AcquireFails, Broken, GiveUp, Running, SessionTypeOK
<1>5. ASSUME NEW c \in Connections, IdleBroken(c) PROVE Running' \subseteq Running
  BY <1>5 DEF IdleBroken, Running
<1>6. CASE UNCHANGED sessionVars
  BY <1>6, <1>2 DEF sessionVars, Running
<1> QED  BY <1>1, <1>2, <1>3, <1>4, <1>5, <1>6 DEF SessionNext

\* If every open connection is in use, the jobs that use them and the one that
\* waits are more than the open connections.
LEMMA FewJobsFewConnections ==
  ASSUME SessionIInv, NEW j \in Jobs, phase[j] = "acquire", Idle = {}
  PROVE  Cardinality(Open) \in Nat /\ Cardinality(Open) < Cardinality(Running)
<1> DEFINE user == [c \in Open |-> CHOOSE i \in Jobs : held[i] = c]
<1>1. \A c \in Open : user[c] \in Jobs /\ held[user[c]] = c
  BY DEF Idle
<1>2. \A c \in Open : held[user[c]] # None
  BY <1>1, NoneAssumption DEF SessionIInv, SessionTypeOK
<1>3. \A c \in Open : user[c] \in Running \ {j}
  BY <1>1, <1>2 DEF SessionIInv, OneUser, Running
<1>4. user \in Injection(Open, Running \ {j})
  <2>1. user \in [Open -> Running \ {j}]
    BY <1>3
  <2>2. \A c, d \in Open : user[c] = user[d] => c = d
    BY <1>1
  <2> HIDE DEF user
  <2> QED  BY <2>1, <2>2 DEF Injection, IsInjective
<1>5. j \in Running
  BY DEF Running
<1>6. /\ IsFiniteSet(Running \ {j})
      /\ Cardinality(Running \ {j}) = Cardinality(Running) - 1
      /\ Cardinality(Running) \in Nat
  BY <1>5, RunningFinite, FS_RemoveElement
<1>7. IsFiniteSet(Open) /\ Cardinality(Open) <= Cardinality(Running \ {j})
  BY <1>4, <1>6, FS_Injection
<1> QED  BY <1>6, <1>7, FS_CardinalityType

\* With no more futures than connections, whoever wants a connection finds one
\* (METADATA_CONCURRENCY in run.rs against max_connections in db/mysql.rs).
THEOREM NeverWaits ==
  ASSUME Concurrency <= MaxConnections
  PROVE  SessionSpec => []AcquireNeverWaits
<1>1. SessionInit => AtMost
  <2> SUFFICES ASSUME SessionInit PROVE AtMost
    OBVIOUS
  <2>1. Running = {}
    BY DEF SessionInit, Running
  <2> QED  BY <2>1, FS_EmptySet, SessionAssumption DEF AtMost
<1>2. SessionIInv => SessionTypeOK
  BY DEF SessionIInv
<1>3. SessionIInv /\ AtMost => AcquireNeverWaits
  <2> SUFFICES ASSUME SessionIInv, AtMost, NEW j \in Jobs, phase[j] = "acquire", Idle = {}
               PROVE  Cardinality(Open) < MaxConnections
    BY DEF AcquireNeverWaits
  <2>1. Cardinality(Open) \in Nat /\ Cardinality(Open) < Cardinality(Running)
    BY FewJobsFewConnections
  <2> QED  BY <2>1, RunningFinite, SessionAssumption DEF AtMost
<1> QED  BY <1>1, <1>2, <1>3, AtMostStep, SessionInvariance, PTL DEF SessionSpec

------------------------------------------------------------------------------
\* The DEFINER clause

(***************************************************************************)
(* What a job has is what the policy made of the head that the server      *)
(* told.  What the policy makes of it is a matter of texts: see DefinerCut. *)
(***************************************************************************)
AsTold ==
  \A j \in Jobs : result[j] # None /\ KindOf[j] # "table" =>
     /\ result[j].head = Policy(j)
     /\ result[j].definer = (SkipDefiner => CutText[j] = <<>>)

LEMMA AsToldStep == SessionTypeOK /\ AsTold /\ [SessionNext]_sessionVars => AsTold'
<1> SUFFICES ASSUME SessionTypeOK, AsTold, [SessionNext]_sessionVars PROVE AsTold'
  OBVIOUS
<1>1. ASSUME NEW j \in Jobs, Show(j) PROVE AsTold'
  <2> DEFINE keeps == KindOf[j] # "table" /\ (SkipDefiner => CutText[j] = <<>>)
             answer == [qualified |-> KindOf[j] = "view" /\ database[held[j]] # SchemaOf[j],
                        ansi |-> held[j] \notin plain,
                        definer |-> keeps,
                        head |-> IF KindOf[j] = "table" THEN <<>> ELSE Policy(j)]
  <2>1. result' = [result EXCEPT ![j] = answer]
    BY <1>1, Zenon DEF Show
  <2>2. answer.definer = keeps /\ answer.head = IF KindOf[j] = "table" THEN <<>> ELSE Policy(j)
    BY Zenon
  <2> HIDE DEF answer
  <2>3. \A i \in Jobs : result'[i] = IF i = j THEN answer ELSE result[i]
    BY <2>1 DEF SessionTypeOK
  <2>4. ASSUME NEW i \in Jobs, result'[i] # None, KindOf[i] # "table"
        PROVE  /\ result'[i].head = Policy(i)
               /\ result'[i].definer = (SkipDefiner => CutText[i] = <<>>)
    <3>1. CASE i = j
      <4>1. keeps = (SkipDefiner => CutText[i] = <<>>)
        BY <2>4, <3>1, Zenon
      <4> HIDE DEF keeps
      <4> QED  BY <2>2, <2>3, <2>4, <3>1, <4>1, Zenon
    <3>2. CASE i # j
      BY <2>3, <2>4, <3>2, Zenon DEF AsTold
    <3> QED  BY <3>1, <3>2
  <2> QED  BY <2>4, Zenon DEF AsTold, Policy
<1>2. CASE UNCHANGED result
  BY <1>2 DEF AsTold, Policy
<1>3. ASSUME NEW j \in Jobs, Advance(j) \/ AcquireFails(j) \/ Broken(j) PROVE AsTold'
  BY <1>1, <1>2, <1>3 DEF Advance, Start, TakeIdle, Connect, Use, ShowHidden, Refused, AcquireFails, Broken
<1>4. ASSUME NEW c \in Connections, IdleBroken(c) PROVE AsTold'
  BY <1>2, <1>4 DEF IdleBroken
<1> QED  BY <1>2, <1>3, <1>4 DEF SessionNext, sessionVars

\* --skip-definer takes the clause out of every definition and nothing else,
\* whatever signs the names of the account hold; a head without a host stays and is
\* warned of (definer_policy and without_definer in db/mysql.rs).
THEOREM DefinerCutOut == SessionSpec => []DefinerIsCut
<1>1. SessionInit => AsTold
  BY DEF SessionInit, AsTold
<1>2. SessionIInv /\ AsTold => DefinerIsCut
  <2> SUFFICES ASSUME SessionIInv, AsTold, NEW j \in Jobs, result[j] # None, KindOf[j] # "table", SkipDefiner
               PROVE  IF HeadOf[j].host = <<"none">>
                      THEN result[j].head = HeadText[j] /\ j \in warned
                      ELSE result[j].head = BareText[j] /\ ~result[j].definer
    BY Zenon DEF DefinerIsCut
  <2>1. /\ CutText[j] = IF HeadOf[j].host = <<"none">> THEN <<>> ELSE BareText[j]
        /\ BareText[j] # <<>>
    BY HeadAssumption, DefinerCut, Zenon DEF CutText, HeadText, BareText
  <2>2. result[j].head = Policy(j) /\ result[j].definer = (SkipDefiner => CutText[j] = <<>>)
    BY Zenon DEF AsTold
  <2>3. CASE HeadOf[j].host = <<"none">>
    <3>1. CutText[j] = <<>>
      BY <2>1, <2>3, Zenon
    <3>2. result[j].head = HeadText[j] /\ result[j].definer
      BY <2>2, <3>1, Zenon DEF Policy
    <3>3. j \in warned
      BY <3>2, Zenon DEF SessionIInv, LossIsWarned
    <3> QED  BY <2>3, <3>2, <3>3, Zenon
  <2>4. CASE HeadOf[j].host # <<"none">>
    <3>1. CutText[j] = BareText[j] /\ CutText[j] # <<>>
      BY <2>1, <2>4, Zenon
    <3>2. result[j].head = BareText[j] /\ ~result[j].definer
      BY <2>2, <3>1, Zenon DEF Policy
    <3> QED  BY <2>4, <3>2, Zenon
  <2> QED  BY <2>3, <2>4
<1>3. SessionIInv => SessionTypeOK
  BY DEF SessionIInv
<1> QED  BY <1>1, <1>2, <1>3, AsToldStep, SessionInvariance, PTL DEF SessionSpec
================================================================================
