------------------------------- MODULE TextProofs -------------------------------
(***************************************************************************)
(* What the operators on texts give, for texts of any length.  Induction    *)
(* over a text is induction over a set of numbers: of those up to which the *)
(* claim holds.                                                            *)
(***************************************************************************)
EXTENDS MySqlText, FiniteSetTheorems, WellFoundedInduction, TLAPS

------------------------------------------------------------------------------
\* Induction

LEMMA Induction ==
  ASSUME NEW S, 0 \in S, \A k \in Nat : k \in S => k + 1 \in S
  PROVE  Nat \subseteq S
<1> DEFINE less == {ss \in Nat \X Nat : ss[1] < ss[2]}
           T == Nat \ S
<1> SUFFICES ASSUME T # {} PROVE FALSE
  OBVIOUS
<1>1. IsWellFoundedOn(less, Nat)
  BY NatLessThanWellFounded DEF OpToRel
<1>2. PICK n \in T : \A m \in T : ~(<<m, n>> \in less)
  <2> T \subseteq Nat
    OBVIOUS
  <2> HIDE DEF less, T
  <2> QED  BY <1>1, WFMin
<1>3. n # 0 /\ n \in Nat
  OBVIOUS
<1>4. n - 1 \in Nat /\ n - 1 < n /\ (n - 1) + 1 = n
  BY <1>3
<1>5. <<n - 1, n>> \in Nat \X Nat /\ <<n - 1, n>>[1] < <<n - 1, n>>[2]
  BY <1>3, <1>4
<1>6. <<n - 1, n>> \in less
  BY <1>5
<1>7. n - 1 \notin T
  BY <1>2, <1>6
<1> QED  BY <1>3, <1>4, <1>7

LEMMA InductionUpTo ==
  ASSUME NEW n \in Nat, NEW S, 0 \in S, \A k \in 0..(n - 1) : k \in S => k + 1 \in S
  PROVE  0..n \subseteq S
<1> DEFINE T == {k \in Nat : k <= n => k \in S}
<1>1. 0 \in T
  OBVIOUS
<1>2. \A k \in Nat : k \in T => k + 1 \in T
  OBVIOUS
<1>3. Nat \subseteq T
  <2> HIDE DEF T
  <2> QED  BY <1>1, <1>2, Induction
<1> QED  BY <1>3

------------------------------------------------------------------------------
\* Joining the parts of a text

\* What stands where when one text follows another.
LEMMA Joins ==
  ASSUME NEW E
  PROVE  \A x, y \in Seq(E) :
           /\ x \o y \in Seq(E) /\ Len(x \o y) = Len(x) + Len(y)
           /\ \A i \in 1..Len(x) : (x \o y)[i] = x[i]
           /\ \A i \in 1..Len(y) : (x \o y)[Len(x) + i] = y[i]
OBVIOUS

\* FlattenSeq joins one part after the other: g[i] is what the first i make.
LEMMA FlattenIs ==
  ASSUME NEW E, NEW parts \in Seq(Seq(E))
  PROVE  \E g \in [0..Len(parts) -> Seq(E)] :
           /\ g[0] = <<>> /\ FlattenSeq(parts) = g[Len(parts)]
           /\ \A i \in 1..Len(parts) : g[i] = g[i - 1] \o parts[i]
<1> DEFINE n == Len(parts)
           Rec(f, m) == f = [i \in 1..m |-> IF i = 1 THEN parts[i] ELSE f[i - 1] \o parts[i]]
<1>0. n \in Nat /\ \A i \in 1..n : parts[i] \in Seq(E)
  OBVIOUS
<1>1. CASE n = 0
  <2>1. parts = <<>> /\ FlattenSeq(parts) = <<>>
    BY <1>1 DEF FlattenSeq
  <2> DEFINE g == [i \in 0..0 |-> <<>>]
  <2>2. g \in [0..n -> Seq(E)] /\ g[0] = <<>> /\ FlattenSeq(parts) = g[n]
    BY <1>1, <2>1
  <2>3. \A i \in 1..n : g[i] = g[i - 1] \o parts[i]
    BY <1>1
  <2> HIDE DEF g
  <2> QED  BY <2>2, <2>3
<1>2. CASE n # 0
  <2>1. \A m \in 1..n : \E f : Rec(f, m) /\ f \in [1..m -> Seq(E)]
    <3> DEFINE S == {m \in 0..n : m = 0 \/ \E f : Rec(f, m) /\ f \in [1..m -> Seq(E)]}
    <3>1. 0 \in S
      BY <1>0
    <3>2. ASSUME NEW k \in 0..(n - 1), k \in S PROVE k + 1 \in S
      <4>0. k + 1 \in 1..n
        BY <1>0
      <4>1. CASE k = 0
        <5> DEFINE f == [i \in 1..1 |-> parts[i]]
        <5>1. Rec(f, 1) /\ f \in [1..1 -> Seq(E)]
          BY <1>0, <1>2
        <5> HIDE DEF f, Rec
        <5>2. \E ff : Rec(ff, k + 1) /\ ff \in [1..(k + 1) -> Seq(E)]
          BY <4>1, <5>1
        <5> QED  BY <4>0, <5>2
      <4>2. CASE k # 0
        <5>1. PICK f : Rec(f, k) /\ f \in [1..k -> Seq(E)]
          BY <3>2, <4>2
        <5> DEFINE h == [i \in 1..(k + 1) |-> IF i = k + 1 THEN f[k] \o parts[k + 1] ELSE f[i]]
        <5>2. h \in [1..(k + 1) -> Seq(E)]
          <6>1. k \in 1..k /\ f[k] \in Seq(E) /\ parts[k + 1] \in Seq(E)
            BY <1>0, <4>0, <4>2, <5>1
          <6>2. f[k] \o parts[k + 1] \in Seq(E)
            BY <6>1, Joins
          <6>3. \A i \in 1..(k + 1) : i # k + 1 => f[i] \in Seq(E)
            BY <5>1
          <6> QED  BY <6>2, <6>3
        <5>3. \A i \in 1..(k + 1) : h[i] = IF i = 1 THEN parts[i] ELSE h[i - 1] \o parts[i]
          <6> TAKE i \in 1..(k + 1)
          <6>1. CASE i = k + 1
            <7>1. i # 1 /\ i - 1 = k /\ k \in 1..(k + 1) /\ k # k + 1
              BY <4>2, <6>1
            <7>2. h[i - 1] = f[k] /\ h[i] = f[k] \o parts[i]
              BY <6>1, <7>1
            <7> QED  BY <7>1, <7>2
          <6>2. CASE i # k + 1
            <7>1. i \in 1..k /\ h[i] = f[i] /\ (i # 1 => i - 1 \in 1..k /\ h[i - 1] = f[i - 1])
              BY <6>2
            <7>2. f[i] = IF i = 1 THEN parts[i] ELSE f[i - 1] \o parts[i]
              BY <5>1, <7>1
            <7> QED  BY <7>1, <7>2
          <6> QED  BY <6>1, <6>2
        <5> HIDE DEF h
        <5>4. Rec(h, k + 1)
          BY <5>2, <5>3
        <5> HIDE DEF Rec
        <5>5. \E ff : Rec(ff, k + 1) /\ ff \in [1..(k + 1) -> Seq(E)]
          BY <5>2, <5>4
        <5> QED  BY <4>0, <5>5
      <4> QED  BY <4>1, <4>2
    <3>3. 0..n \subseteq S
      <4> HIDE DEF S
      <4> QED  BY <1>0, <3>1, <3>2, InductionUpTo
    <3>4. \A m \in 1..n : m \in 0..n /\ m # 0
      BY <1>0
    <3> HIDE DEF Rec
    <3> QED  BY <3>3, <3>4
  <2> DEFINE f == CHOOSE f : Rec(f, n)
  <2>2. Rec(f, n)
    <3>0. n \in 1..n
      BY <1>0, <1>2
    <3> HIDE DEF Rec
    <3>1. \E ff : Rec(ff, n)
      BY <2>1, <3>0
    <3> QED  BY <3>1
  <2>3. FlattenSeq(parts) = f[n]
    BY <1>2 DEF FlattenSeq
  <2> HIDE DEF f
  <2>4. \A i \in 1..n : f[i] = IF i = 1 THEN parts[i] ELSE f[i - 1] \o parts[i]
    BY <2>2
  <2>5. \A i \in 1..n : f[i] \in Seq(E)
    <3> DEFINE S == {m \in 0..n : m = 0 \/ f[m] \in Seq(E)}
    <3>1. 0 \in S
      BY <1>0
    <3>2. ASSUME NEW k \in 0..(n - 1), k \in S PROVE k + 1 \in S
      <4>1. k + 1 \in 1..n /\ (k + 1) - 1 = k /\ parts[k + 1] \in Seq(E)
        BY <1>0
      <4>2. f[k + 1] = IF k = 0 THEN parts[k + 1] ELSE f[k] \o parts[k + 1]
        BY <2>4, <4>1
      <4>3. k # 0 => f[k] \in Seq(E)
        BY <3>2
      <4>4. f[k + 1] \in Seq(E)
        BY <4>1, <4>2, <4>3, Joins
      <4> QED  BY <4>1, <4>4
    <3>3. 0..n \subseteq S
      <4> HIDE DEF S
      <4> QED  BY <1>0, <3>1, <3>2, InductionUpTo
    <3> QED  BY <3>3
  <2> DEFINE g == [i \in 0..n |-> IF i = 0 THEN <<>> ELSE f[i]]
  <2>6. g \in [0..n -> Seq(E)] /\ g[0] = <<>> /\ g[n] = f[n]
    BY <1>0, <1>2, <2>5
  <2>7. \A i \in 1..n : g[i] = g[i - 1] \o parts[i]
    <3> TAKE i \in 1..n
    <3>1. g[i] = f[i] /\ i - 1 \in 0..n /\ parts[i] \in Seq(E)
      BY <1>0
    <3>2. CASE i = 1
      <4>1. g[i - 1] = <<>> /\ f[i] = parts[i]
        <5>1. 0 \in 0..n /\ i - 1 = 0
          BY <1>0, <3>2
        <5>2. f[i] = parts[i]
          BY <2>4, <3>2
        <5> QED  BY <5>1, <5>2
      <4>2. parts[i] = <<>> \o parts[i]
        BY <3>1
      <4> QED  BY <3>1, <4>1, <4>2
    <3>3. CASE i # 1
      <4>1. g[i - 1] = f[i - 1] /\ f[i] = f[i - 1] \o parts[i]
        <5>1. i - 1 # 0
          BY <1>0, <3>3
        <5> QED  BY <2>4, <3>3, <3>1, <5>1
      <4> QED  BY <3>1, <4>1
    <3> QED  BY <3>2, <3>3
  <2> QED  BY <2>3, <2>6, <2>7
<1> QED  BY <1>1, <1>2

\* How far the first i parts reach in the text, and what stands where.
Laid(text, parts, at) ==
  /\ at \in [0..Len(parts) -> Nat] /\ at[0] = 0 /\ Len(text) = at[Len(parts)]
  /\ \A i \in 1..Len(parts) :
       /\ at[i] = at[i - 1] + Len(parts[i]) /\ at[i] <= Len(text)
       /\ \A k \in 1..Len(parts[i]) : text[at[i - 1] + k] = parts[i][k]
  /\ \A p \in 1..Len(text) :
       \E i \in 1..Len(parts) : \E k \in 1..Len(parts[i]) : p = at[i - 1] + k

LEMMA FlattenPlaces ==
  ASSUME NEW E, NEW parts \in Seq(Seq(E))
  PROVE  /\ FlattenSeq(parts) \in Seq(E)
         /\ \E at : Laid(FlattenSeq(parts), parts, at)
<1> DEFINE n == Len(parts)
           F == FlattenSeq(parts)
<1>0. n \in Nat /\ \A i \in 1..n : parts[i] \in Seq(E) /\ Len(parts[i]) \in Nat
  OBVIOUS
<1>1. PICK g \in [0..n -> Seq(E)] :
        /\ g[0] = <<>> /\ F = g[n]
        /\ \A i \in 1..n : g[i] = g[i - 1] \o parts[i]
  BY FlattenIs
<1> DEFINE at == [i \in 0..n |-> Len(g[i])]
<1> HIDE DEF F
<1>2. \A i \in 0..n : g[i] \in Seq(E) /\ at[i] = Len(g[i]) /\ at[i] \in Nat
  <2> TAKE i \in 0..n
  <2>1. g[i] \in Seq(E)
    BY <1>1
  <2>2. Len(g[i]) \in Nat
    BY <2>1
  <2>3. at[i] = Len(g[i])
    OBVIOUS
  <2> QED  BY <2>1, <2>2, <2>3
<1>3. \A i \in 1..n :
        /\ i - 1 \in 0..n /\ i \in 0..n /\ at[i] = at[i - 1] + Len(parts[i])
        /\ \A p \in 1..at[i - 1] : g[i][p] = g[i - 1][p]
        /\ \A k \in 1..Len(parts[i]) : g[i][at[i - 1] + k] = parts[i][k]
  <2> TAKE i \in 1..n
  <2>1. i - 1 \in 0..n /\ i \in 0..n
    BY <1>0
  <2>2. g[i - 1] \in Seq(E) /\ parts[i] \in Seq(E) /\ g[i] = g[i - 1] \o parts[i]
    BY <1>0, <1>1, <2>1
  <2>3. /\ Len(g[i]) = Len(g[i - 1]) + Len(parts[i])
        /\ \A p \in 1..Len(g[i - 1]) : g[i][p] = g[i - 1][p]
        /\ \A k \in 1..Len(parts[i]) : g[i][Len(g[i - 1]) + k] = parts[i][k]
    <3> DEFINE x == g[i - 1]
               y == parts[i]
    <3>1. x \in Seq(E) /\ y \in Seq(E) /\ g[i] = x \o y
      BY <2>2
    <3> HIDE DEF x, y
    <3>2. /\ Len(x \o y) = Len(x) + Len(y)
          /\ \A p \in 1..Len(x) : (x \o y)[p] = x[p]
          /\ \A k \in 1..Len(y) : (x \o y)[Len(x) + k] = y[k]
      BY ONLY <3>1, Joins
    <3> QED  BY Zenon, <3>1, <3>2 DEF x, y
  <2> QED  BY <1>2, <2>1, <2>3
<1> DEFINE Ahead(i, j) == at[i] <= at[j] /\ \A p \in 1..at[i] : g[j][p] = g[i][p]
           A == {j \in 0..n : \A i \in 0..j : Ahead(i, j)}
           C == {j \in 0..n : \A p \in 1..at[j] :
                   \E i \in 1..j : \E k \in 1..Len(parts[i]) : p = at[i - 1] + k}
<1> HIDE DEF at
<1>4. \A j \in 0..n : \A i \in 0..j : Ahead(i, j)
  <2>1. 0 \in A
    BY <1>0, <1>2
  <2>2. ASSUME NEW j \in 0..(n - 1), j \in A PROVE j + 1 \in A
    <3>1. j \in 0..n /\ j + 1 \in 1..n /\ j + 1 \in 0..n /\ (j + 1) - 1 = j
      BY <1>0
    <3>2. /\ at[j + 1] = at[j] + Len(parts[j + 1]) /\ Len(parts[j + 1]) \in Nat
          /\ \A p \in 1..at[j] : g[j + 1][p] = g[j][p]
      BY <1>0, <1>3, <3>1
    <3>3. at[j] \in Nat /\ at[j + 1] \in Nat
      BY <1>2, <3>1
    <3>4. ASSUME NEW i \in 0..(j + 1) PROVE Ahead(i, j + 1)
      <4>1. CASE i = j + 1
        BY <3>3, <4>1
      <4>2. CASE i # j + 1
        <5>1. i \in 0..j /\ i \in 0..n
          BY <3>1, <4>2
        <5>2. Ahead(i, j) /\ at[i] \in Nat
          BY <1>2, <2>2, <5>1
        <5> QED  BY <3>2, <3>3, <5>2
      <4> QED  BY <4>1, <4>2
    <3> QED  BY <3>1, <3>4
  <2>3. 0..n \subseteq A
    <3> HIDE DEF A
    <3> QED  BY <1>0, <2>1, <2>2, InductionUpTo
  <2> QED  BY <2>3
<1>5. \A j \in 0..n : j \in C
  <2>1. 0 \in C
    <3>1. at[0] = 0 /\ 0 \in 0..n
      BY <1>0, <1>1, <1>2
    <3> QED  BY <3>1
  <2>2. ASSUME NEW j \in 0..(n - 1), j \in C PROVE j + 1 \in C
    <3>1. j \in 0..n /\ j + 1 \in 1..n /\ j + 1 \in 0..n /\ (j + 1) - 1 = j
      BY <1>0
    <3>2. at[j + 1] = at[j] + Len(parts[j + 1]) /\ Len(parts[j + 1]) \in Nat /\ at[j] \in Nat
      BY <1>0, <1>2, <1>3, <3>1
    <3>3. ASSUME NEW p \in 1..at[j + 1]
          PROVE  \E i \in 1..(j + 1) : \E k \in 1..Len(parts[i]) : p = at[i - 1] + k
      <4>1. CASE p <= at[j]
        <5>1. p \in 1..at[j]
          BY <3>2, <4>1
        <5>2. PICK i \in 1..j : \E k \in 1..Len(parts[i]) : p = at[i - 1] + k
          BY <2>2, <5>1
        <5>3. i \in 1..(j + 1)
          OBVIOUS
        <5> QED  BY <5>2, <5>3
      <4>2. CASE ~(p <= at[j])
        <5>1. p - at[j] \in 1..Len(parts[j + 1]) /\ p = at[j] + (p - at[j])
          BY <3>2, <4>2
        <5>2. j + 1 \in 1..(j + 1)
          OBVIOUS
        <5> QED  BY <3>1, <5>1, <5>2
      <4> QED  BY <4>1, <4>2
    <3> QED  BY <3>1, <3>3
  <2>3. 0..n \subseteq C
    <3> HIDE DEF C
    <3> QED  BY <1>0, <2>1, <2>2, InductionUpTo
  <2> QED  BY <2>3
<1>6. /\ F \in Seq(E) /\ Len(F) = at[n] /\ at \in [0..n -> Nat] /\ at[0] = 0
  BY <1>0, <1>1, <1>2 DEF at
<1>7. \A i \in 1..n :
        /\ at[i] = at[i - 1] + Len(parts[i]) /\ at[i] <= Len(F)
        /\ \A k \in 1..Len(parts[i]) : F[at[i - 1] + k] = parts[i][k]
  <2> TAKE i \in 1..n
  <2>1. /\ i - 1 \in 0..n /\ i \in 0..n /\ at[i] = at[i - 1] + Len(parts[i])
        /\ \A k \in 1..Len(parts[i]) : g[i][at[i - 1] + k] = parts[i][k]
    BY <1>3
  <2>2. at[i] <= Len(F) /\ \A p \in 1..at[i] : F[p] = g[i][p]
    <3>1. n \in 0..n /\ i \in 0..n
      BY <1>0
    <3>2. Ahead(i, n)
      BY <1>4, <3>1
    <3> QED  BY <1>1, <1>6, <3>2
  <2>3. \A k \in 1..Len(parts[i]) : at[i - 1] + k \in 1..at[i]
    <3>1. at[i - 1] \in Nat /\ Len(parts[i]) \in Nat
      BY <1>0, <1>2, <2>1
    <3> QED  BY <2>1, <3>1
  <2> QED  BY <2>1, <2>2, <2>3
<1>8. \A p \in 1..Len(F) : \E i \in 1..n : \E k \in 1..Len(parts[i]) : p = at[i - 1] + k
  <2>1. n \in 0..n
    BY <1>0
  <2>2. n \in C
    BY <1>5, <2>1
  <2>3. \A p \in 1..at[n] : \E i \in 1..n : \E k \in 1..Len(parts[i]) : p = at[i - 1] + k
    BY <2>2
  <2> QED  BY <1>6, <2>3
<1> HIDE DEF A, C
<1>9. Laid(F, parts, at)
  BY <1>6, <1>7, <1>8 DEF Laid
<1> QED  BY <1>6, <1>9 DEF F

------------------------------------------------------------------------------
\* Taking texts apart

LEMMA FewTokens ==
  ASSUME NEW E
  PROVE  /\ <<>> \in Seq(E)
         /\ \A t \in E : <<t>> \in Seq(E) /\ Len(<<t>>) = 1 /\ <<t>>[1] = t
         /\ \A t, u, v \in E : <<t, u, v>> \in Seq(E)
OBVIOUS

LEMMA JoinsAgain ==
  ASSUME NEW E
  PROVE  \A x, y, z \in Seq(E) : (x \o y) \o z = x \o (y \o z)
<1> TAKE x, y, z \in Seq(E)
<1> DEFINE a == (x \o y) \o z
           b == x \o (y \o z)
<1>1. x \o y \in Seq(E) /\ y \o z \in Seq(E) /\ a \in Seq(E) /\ b \in Seq(E)
  OBVIOUS
<1>2. Len(a) = Len(b)
  OBVIOUS
<1>3. \A i \in 1..Len(a) : a[i] = b[i]
  OBVIOUS
<1> HIDE DEF a, b
<1> QED  BY <1>1, <1>2, <1>3

LEMMA EmptyJoins ==
  ASSUME NEW E
  PROVE  \A x \in Seq(E) : <<>> \o x = x /\ x \o <<>> = x
OBVIOUS

\* What is behind a part of a text, and behind one token.
LEMMA FollowingText ==
  ASSUME NEW E
  PROVE  \A x, y \in Seq(E) :
           /\ SubSeq(x \o y, 1, Len(x)) = x
           /\ SubSeq(x \o y, Len(x) + 1, Len(x \o y)) = y
<1> TAKE x, y \in Seq(E)
<1>0. x \o y \in Seq(E) /\ Len(x \o y) = Len(x) + Len(y) /\ Len(x) \in Nat /\ Len(y) \in Nat
  OBVIOUS
<1>1. SubSeq(x \o y, 1, Len(x)) = x
  <2> DEFINE a == SubSeq(x \o y, 1, Len(x))
  <2>1. a \in Seq(E) /\ Len(a) = Len(x) /\ \A i \in 1..Len(x) : a[i] = x[i]
    BY <1>0
  <2> HIDE DEF a
  <2>2. a = x
    BY <2>1
  <2> QED  BY <2>2 DEF a
<1>2. SubSeq(x \o y, Len(x) + 1, Len(x \o y)) = y
  <2> DEFINE a == SubSeq(x \o y, Len(x) + 1, Len(x \o y))
  <2>1. a \in Seq(E) /\ Len(a) = Len(y) /\ \A i \in 1..Len(y) : a[i] = y[i]
    BY <1>0
  <2> HIDE DEF a
  <2>2. a = y
    BY <2>1
  <2> QED  BY <2>2 DEF a
<1> QED  BY <1>1, <1>2

LEMMA BehindToken ==
  ASSUME NEW E, NEW t \in E, NEW x \in Seq(E)
  PROVE  /\ After(<<t>> \o x, t) = x
         /\ \A u : u # t => After(<<t>> \o x, u) = <<>>
<1> DEFINE a == <<t>>
<1>1. a \in Seq(E) /\ Len(a) = 1 /\ a[1] = t
  OBVIOUS
<1> HIDE DEF a
<1>2. a \o x \in Seq(E) /\ Len(a \o x) = 1 + Len(x) /\ (a \o x)[1] = t
  <2>1. /\ a \o x \in Seq(E) /\ Len(a \o x) = Len(a) + Len(x)
        /\ \A i \in 1..Len(a) : (a \o x)[i] = a[i]
    BY Zenon, <1>1, Joins
  <2> QED  BY <1>1, <2>1
<1>3. a \o x # <<>> /\ Head(a \o x) = t
  BY <1>2
<1>4. Tail(a \o x) = SubSeq(a \o x, Len(a) + 1, Len(a \o x))
  BY <1>1, <1>2
<1>5. Tail(a \o x) = x
  BY <1>1, <1>4, FollowingText
<1>6. After(a \o x, t) = x /\ \A u : u # t => After(a \o x, u) = <<>>
  BY <1>3, <1>5 DEF After
<1> QED  BY <1>6 DEF a

LEMMA FirstIs ==
  ASSUME NEW S, S \subseteq Nat, NEW m \in S, \A i \in S : m <= i
  PROVE  First(S) = m
<1>1. \A x \in S : (\A y \in S : x =< y) => x = m
  OBVIOUS
<1>2. Min(S) \in S /\ \A y \in S : Min(S) =< y
  BY DEF Min
<1> QED  BY <1>1, <1>2 DEF First

------------------------------------------------------------------------------
\* Rewriting the tokens of a text

\* What each token becomes.
Pieces(s, change) ==
  [i \in DOMAIN s |-> IF s[i] \in DOMAIN change THEN change[s[i]] ELSE <<s[i]>>]

LEMMA RewritePlaces ==
  ASSUME NEW E, NEW s \in Seq(E), NEW change, \A t \in DOMAIN change : change[t] \in Seq(E)
  PROVE  /\ Pieces(s, change) \in Seq(Seq(E)) /\ Len(Pieces(s, change)) = Len(s)
         /\ Rewrite(s, change) \in Seq(E)
         /\ \E at : Laid(Rewrite(s, change), Pieces(s, change), at)
<1> DEFINE parts == Pieces(s, change)
<1>1. \A i \in 1..Len(s) : <<s[i]>> \in Seq(E)
  OBVIOUS
<1>2. \A i \in 1..Len(s) : (IF s[i] \in DOMAIN change THEN change[s[i]] ELSE <<s[i]>>) \in Seq(E)
  BY <1>1
<1>3. parts \in Seq(Seq(E)) /\ Len(parts) = Len(s)
  <2> DEFINE e(i) == IF s[i] \in DOMAIN change THEN change[s[i]] ELSE <<s[i]>>
  <2>1. \A i \in 1..Len(s) : e(i) \in Seq(E)
    BY <1>2
  <2>2. parts = [i \in 1..Len(s) |-> e(i)] /\ Len(s) \in Nat
    BY DEF Pieces
  <2> HIDE DEF parts, e
  <2> QED  BY <2>1, <2>2
<1>4. Rewrite(s, change) = FlattenSeq(parts)
  BY DEF Rewrite, Pieces
<1> HIDE DEF parts
<1>5. FlattenSeq(parts) \in Seq(E) /\ \E at : Laid(FlattenSeq(parts), parts, at)
  BY <1>3, FlattenPlaces
<1> QED  BY <1>3, <1>4, <1>5 DEF parts

------------------------------------------------------------------------------
\* Names in quotes

Name(q, n) == <<q>> \o Rewrite(n, [t \in {q} |-> <<t, t>>]) \o <<q>>

\* How many times a token stands up to i, without the first.
Count(s, q, i) == Cardinality(At(s, q, 2, i))

LEMMA CountStep ==
  ASSUME NEW s, NEW q
  PROVE  /\ Count(s, q, 1) = 0
         /\ \A i \in Nat : i >= 1 =>
              /\ Count(s, q, i) \in Nat
              /\ Count(s, q, i + 1) = IF s[i + 1] = q THEN Count(s, q, i) + 1 ELSE Count(s, q, i)
<1>1. Count(s, q, 1) = 0
  <2>1. At(s, q, 2, 1) = {}
    BY DEF At
  <2> QED  BY <2>1, FS_EmptySet DEF Count
<1>2. ASSUME NEW i \in Nat, i >= 1
      PROVE  /\ Count(s, q, i) \in Nat
             /\ Count(s, q, i + 1) = IF s[i + 1] = q THEN Count(s, q, i) + 1 ELSE Count(s, q, i)
  <2> DEFINE T == At(s, q, 2, i)
             U == At(s, q, 2, i + 1)
  <2>1. IsFiniteSet(T)
    <3>1. IsFiniteSet(2..i) /\ T \subseteq 2..i
      BY FS_Interval DEF At
    <3> HIDE DEF T
    <3> QED  BY <3>1, FS_Subset
  <2>2. s[i + 1] = q => U = T \cup {i + 1} /\ i + 1 \notin T
    BY <1>2 DEF At
  <2>3. s[i + 1] # q => U = T
    BY <1>2 DEF At
  <2> HIDE DEF T, U
  <2>4. Cardinality(T) \in Nat
    BY <2>1, FS_CardinalityType
  <2>5. s[i + 1] = q => Cardinality(U) = Cardinality(T) + 1
    BY <2>1, <2>2, FS_AddElement
  <2>6. Cardinality(U) = IF s[i + 1] = q THEN Cardinality(T) + 1 ELSE Cardinality(T)
    BY <2>3, <2>5
  <2> QED  BY <2>4, <2>6 DEF T, U, Count
<1> QED  BY <1>1, <1>2

\* How a name stands at the start of a text: each of its quotes is two there.
Named(s, q, n, at) ==
  /\ at \in [0..Len(n) -> Nat] /\ at[0] = 0
  /\ Len(s) >= at[Len(n)] + 2 /\ s[1] = q /\ s[at[Len(n)] + 2] = q
  /\ \A k \in 1..Len(n) :
       IF n[k] = q THEN at[k] = at[k - 1] + 2 /\ s[at[k - 1] + 2] = q /\ s[at[k - 1] + 3] = q
       ELSE at[k] = at[k - 1] + 1 /\ s[at[k - 1] + 2] # q
  /\ \A k \in 1..Len(n) : at[k] <= at[Len(n)]
  /\ \A p \in 1..at[Len(n)] :
       \E k \in 1..Len(n) : p = at[k - 1] + 1 \/ (n[k] = q /\ p = at[k - 1] + 2)

\* The quote that ends it is found: those before are in pairs.
LEMMA ClosingFound ==
  ASSUME NEW E, NEW q \in E, NEW n \in Seq(E), NEW s \in Seq(E), NEW at, Named(s, q, n, at),
         Len(s) = at[Len(n)] + 2 \/ s[at[Len(n)] + 3] # q
  PROVE  Closing(s) = at[Len(n)] + 2
<1> DEFINE l == Len(n)
           c(i) == Count(s, q, i)
           S == {i \in At(s, q, 2, Len(s)) : (i = Len(s) \/ s[i + 1] # q) /\ c(i) % 2 = 1}
           K == {k \in 0..l : c(at[k] + 1) % 2 = 0}
<1>0. l \in Nat /\ Len(s) \in Nat /\ \A k \in 0..l : at[k] \in Nat
  <2>1. l \in Nat /\ Len(s) \in Nat
    OBVIOUS
  <2>2. at \in [0..l -> Nat]
    BY DEF Named
  <2> QED  BY <2>1, <2>2
<1>1. /\ c(1) = 0
      /\ \A i \in Nat : i >= 1 =>
           c(i) \in Nat /\ c(i + 1) = IF s[i + 1] = q THEN c(i) + 1 ELSE c(i)
  BY CountStep
<1> HIDE DEF c
<1>2. 0..l \subseteq K
  <2>1. 0 \in K
    <3>1. at[0] = 0 /\ 0 \in 0..l /\ c(1) = 0
      BY <1>0, <1>1 DEF Named
    <3> QED  BY <3>1
  <2>2. ASSUME NEW k \in 0..(l - 1), k \in K PROVE k + 1 \in K
    <3>1. k + 1 \in 1..l /\ k + 1 \in 0..l /\ (k + 1) - 1 = k /\ k \in 0..l
      BY <1>0
    <3>2. at[k] \in Nat /\ c(at[k] + 1) \in Nat /\ c(at[k] + 1) % 2 = 0
      <4>1. at[k] \in Nat /\ at[k] + 1 \in Nat /\ at[k] + 1 >= 1
        BY <1>0, <3>1
      <4> QED  BY <1>1, <2>2, <4>1
    <3>3. /\ c(at[k] + 2) = IF s[at[k] + 2] = q THEN c(at[k] + 1) + 1 ELSE c(at[k] + 1)
          /\ c(at[k] + 3) = IF s[at[k] + 3] = q THEN c(at[k] + 2) + 1 ELSE c(at[k] + 2)
      <4>1. /\ at[k] + 1 \in Nat /\ at[k] + 1 >= 1 /\ (at[k] + 1) + 1 = at[k] + 2
            /\ at[k] + 2 \in Nat /\ at[k] + 2 >= 1 /\ (at[k] + 2) + 1 = at[k] + 3
        BY <3>2
      <4> QED  BY <1>1, <4>1
    <3>4. CASE n[k + 1] = q
      <4>1. at[k + 1] = at[k] + 2 /\ s[at[k] + 2] = q /\ s[at[k] + 3] = q
        BY <3>1, <3>4 DEF Named
      <4>2. c(at[k + 1] + 1) = c(at[k] + 1) + 2
        BY <3>2, <3>3, <4>1
      <4> QED  BY <3>1, <3>2, <4>2
    <3>5. CASE n[k + 1] # q
      <4>1. at[k + 1] = at[k] + 1 /\ s[at[k] + 2] # q
        BY <3>1, <3>5 DEF Named
      <4>2. c(at[k + 1] + 1) = c(at[k] + 1)
        BY <3>2, <3>3, <4>1
      <4> QED  BY <3>1, <3>2, <4>2
    <3> QED  BY <3>4, <3>5
  <2> HIDE DEF K
  <2> QED  BY <1>0, <2>1, <2>2, InductionUpTo
<1>3. \A k \in 0..l : c(at[k] + 1) % 2 = 0
  BY <1>2
<1> DEFINE m == at[l] + 2
<1>4. m \in S
  <2>1. l \in 0..l /\ at[l] \in Nat
    BY <1>0
  <2>2. c(at[l] + 1) \in Nat /\ c(at[l] + 1) % 2 = 0 /\ c(at[l] + 2) = c(at[l] + 1) + 1
    <3>1. at[l] + 1 \in Nat /\ at[l] + 1 >= 1 /\ (at[l] + 1) + 1 = at[l] + 2
      BY <2>1
    <3>2. s[at[l] + 2] = q
      BY DEF Named
    <3> QED  BY <1>1, <1>3, <2>1, <3>1, <3>2
  <2>3. c(m) % 2 = 1
    BY <2>2
  <2>4. m \in 2..Len(s) /\ s[m] = q
    BY <1>0, <2>1 DEF Named
  <2>5. m = Len(s) \/ s[m + 1] # q
    BY <2>1
  <2> QED  BY <2>3, <2>4, <2>5 DEF At
<1>5. ASSUME NEW i \in S PROVE m <= i
  <2> SUFFICES ASSUME i < m PROVE FALSE
    BY <1>0 DEF At
  <2>1. i \in Nat /\ i >= 2 /\ s[i] = q /\ c(i) % 2 = 1 /\ (i = Len(s) \/ s[i + 1] # q)
    BY <1>0 DEF At
  <2>2. i - 1 \in 1..at[l]
    BY <1>0, <2>1
  <2>3. PICK k \in 1..l : i - 1 = at[k - 1] + 1 \/ (n[k] = q /\ i - 1 = at[k - 1] + 2)
    BY <2>2 DEF Named
  <2>4. k \in 0..l /\ k - 1 \in 0..l /\ at[k] \in Nat /\ at[k - 1] \in Nat /\ at[k] <= at[l] /\ at[l] \in Nat
    BY <1>0 DEF Named
  <2>7. Len(s) >= at[l] + 2
    BY DEF Named
  <2>5. CASE n[k] = q
    <3>1. at[k] = at[k - 1] + 2 /\ s[at[k - 1] + 2] = q /\ s[at[k - 1] + 3] = q
      BY <2>5 DEF Named
    <3>2. CASE i - 1 = at[k - 1] + 1
      <4>1. i = at[k - 1] + 2 /\ i + 1 = at[k - 1] + 3
        <5>1. at[k - 1] \in Nat /\ i \in Nat
          BY <2>1, <2>4
        <5> QED  BY ONLY <5>1, <3>2, SMT
      <4>2. i # Len(s)
        <5>1. at[k - 1] + 2 <= at[l] /\ Len(s) >= at[l] + 2
          BY <2>4, <2>7, <3>1
        <5>2. at[k - 1] \in Nat /\ at[l] \in Nat /\ Len(s) \in Nat
          BY <1>0, <2>4
        <5> QED  BY ONLY <4>1, <5>1, <5>2, SMT
      <4> QED  BY <2>1, <3>1, <4>1, <4>2
    <3>3. CASE i - 1 = at[k - 1] + 2
      <4>1. i = at[k] + 1
        <5>1. at[k - 1] \in Nat /\ i \in Nat /\ at[k] = at[k - 1] + 2
          BY <2>1, <2>4, <3>1
        <5> QED  BY ONLY <5>1, <3>3, SMT
      <4> QED  BY <1>3, <2>1, <2>4, <4>1
    <3> QED  BY <2>3, <3>2, <3>3
  <2>6. CASE n[k] # q
    <3>1. s[at[k - 1] + 2] # q
      BY <2>6 DEF Named
    <3>2. i = at[k - 1] + 2
      <4>1. i - 1 = at[k - 1] + 1 /\ at[k - 1] \in Nat /\ i \in Nat
        BY <2>1, <2>3, <2>4, <2>6
      <4> QED  BY ONLY <4>1, SMT
    <3> QED  BY <2>1, <3>1, <3>2
  <2> QED  BY <2>5, <2>6
<1>6. Closing(s) = First(S)
  <2>1. s[1] = q
    BY DEF Named
  <2> QED  BY <2>1 DEF Closing, Count, c
<1>7. S \subseteq Nat
  BY <1>0 DEF At
<1> HIDE DEF S, m
<1>8. First(S) = m
  BY <1>4, <1>5, <1>7, FirstIs
<1> QED  BY <1>6, <1>8 DEF m

\* A name in quotes stands so, whatever follows it.
LEMMA NameStands ==
  ASSUME NEW E, NEW q \in E, NEW n \in Seq(E), NEW tail \in Seq(E)
  PROVE  /\ Name(q, n) \in Seq(E)
         /\ \E at : Named(Name(q, n) \o tail, q, n, at) /\ Len(Name(q, n)) = at[Len(n)] + 2
<1> DEFINE change == [t \in {q} |-> <<t, t>>]
           parts == Pieces(n, change)
           R == Rewrite(n, change)
           a == <<q>>
           N == Name(q, n)
           s == N \o tail
           l == Len(n)
<1>0. l \in Nat /\ \A i \in 1..l : n[i] \in E
  OBVIOUS
<1>20. \A x, y \in Seq(E) :
          /\ x \o y \in Seq(E) /\ Len(x \o y) = Len(x) + Len(y)
          /\ \A i \in 1..Len(x) : (x \o y)[i] = x[i]
          /\ \A i \in 1..Len(y) : (x \o y)[Len(x) + i] = y[i]
  BY Joins
<1>1. /\ a \in Seq(E) /\ Len(a) = 1 /\ a[1] = q
      /\ <<q, q>> \in Seq(E) /\ Len(<<q, q>>) = 2 /\ <<q, q>>[1] = q /\ <<q, q>>[2] = q
  OBVIOUS
<1>2. DOMAIN change = {q} /\ change[q] = <<q, q>>
  OBVIOUS
<1>3. \A i \in 1..l : parts[i] = IF n[i] = q THEN <<q, q>> ELSE <<n[i]>>
  BY <1>2 DEF Pieces
<1>4. N = (a \o R) \o a
  BY DEF Name
<1> HIDE DEF change
<1>5. /\ Len(parts) = l /\ R \in Seq(E) /\ \E at : Laid(R, parts, at)
  <2>1. \A t \in DOMAIN change : change[t] \in Seq(E)
    BY <1>1, <1>2
  <2> QED  BY <2>1, RewritePlaces
<1> HIDE DEF parts, R, a, N
<1>6. PICK at : Laid(R, parts, at)
  BY <1>5
<1>7. /\ at \in [0..l -> Nat] /\ at[0] = 0 /\ Len(R) = at[l] /\ Len(R) \in Nat
      /\ \A i \in 1..l :
           /\ at[i] = at[i - 1] + Len(parts[i]) /\ at[i] <= Len(R)
           /\ \A k \in 1..Len(parts[i]) : R[at[i - 1] + k] = parts[i][k]
      /\ \A p \in 1..Len(R) : \E i \in 1..l : \E k \in 1..Len(parts[i]) : p = at[i - 1] + k
  <2>1. Len(R) \in Nat
    BY <1>5
  <2> HIDE DEF l
  <2> QED  BY <1>5, <1>6, <2>1 DEF Laid
<1>8. /\ N \in Seq(E) /\ Len(N) = Len(R) + 2 /\ N[1] = q /\ N[Len(R) + 2] = q
      /\ \A p \in 1..Len(R) : N[p + 1] = R[p]
  <2> DEFINE b == a \o R
  <2>1. /\ b \in Seq(E) /\ Len(b) = Len(a) + Len(R)
        /\ \A i \in 1..Len(a) : b[i] = a[i]
        /\ \A i \in 1..Len(R) : b[Len(a) + i] = R[i]
    BY Zenon, <1>1, <1>5, <1>20
  <2> HIDE DEF b
  <2>2. /\ b \o a \in Seq(E) /\ Len(b \o a) = Len(b) + Len(a)
        /\ \A i \in 1..Len(b) : (b \o a)[i] = b[i]
        /\ \A i \in 1..Len(a) : (b \o a)[Len(b) + i] = a[i]
    BY Zenon, <1>1, <2>1, <1>20
  <2>3. N = b \o a
    BY <1>4 DEF b
  <2>4. Len(R) \in Nat
    BY <1>7
  <2>5. /\ N \in Seq(E) /\ Len(N) = Len(b) + Len(a)
        /\ \A i \in 1..Len(b) : N[i] = b[i]
        /\ \A i \in 1..Len(a) : N[Len(b) + i] = a[i]
    BY Zenon, <2>2, <2>3
  <2> QED  BY ONLY <1>1, <2>1, <2>4, <2>5, SMT
<1>9. /\ Len(s) >= Len(N) /\ \A p \in 1..Len(N) : s[p] = N[p]
  <2>1. s \in Seq(E) /\ Len(s) = Len(N) + Len(tail) /\ \A p \in 1..Len(N) : s[p] = N[p]
    BY Zenon, <1>8, <1>20
  <2>2. Len(N) \in Nat /\ Len(tail) \in Nat
    BY <1>8
  <2> QED  BY <2>1, <2>2
<1> HIDE DEF s, l
<1>10. \A i \in 1..l :
         /\ i - 1 \in 0..l /\ i \in 0..l /\ at[i - 1] \in Nat /\ at[i] \in Nat
         /\ n[i] = q => Len(parts[i]) = 2 /\ parts[i][1] = q /\ parts[i][2] = q
         /\ n[i] # q => Len(parts[i]) = 1 /\ parts[i][1] # q
  <2> TAKE i \in 1..l
  <2>1. i - 1 \in 0..l /\ i \in 0..l
    BY <1>0
  <2>2. at[i - 1] \in Nat /\ at[i] \in Nat
    BY <1>7, <2>1
  <2>3. n[i] = q => Len(parts[i]) = 2 /\ parts[i][1] = q /\ parts[i][2] = q
    BY <1>1, <1>3
  <2>4. n[i] # q => Len(parts[i]) = 1 /\ parts[i][1] # q
    <3>1. Len(<<n[i]>>) = 1 /\ <<n[i]>>[1] = n[i]
      OBVIOUS
    <3> QED  BY <1>3, <3>1
  <2> QED  BY <2>1, <2>2, <2>3, <2>4
<1>11. \A i \in 1..l :
         IF n[i] = q THEN at[i] = at[i - 1] + 2 /\ s[at[i - 1] + 2] = q /\ s[at[i - 1] + 3] = q
         ELSE at[i] = at[i - 1] + 1 /\ s[at[i - 1] + 2] # q
  <2> TAKE i \in 1..l
  <2>1. \A k \in 1..Len(parts[i]) : s[at[i - 1] + k + 1] = parts[i][k]
    <3> TAKE k \in 1..Len(parts[i])
    <3>1. R[at[i - 1] + k] = parts[i][k] /\ at[i] = at[i - 1] + Len(parts[i]) /\ at[i] <= Len(R)
      BY <1>7
    <3>2. at[i - 1] \in Nat /\ Len(parts[i]) \in Nat
      BY <1>10
    <3>3. at[i - 1] + k \in 1..Len(R) /\ (at[i - 1] + k) + 1 \in 1..Len(N)
      <4>1. Len(R) \in Nat /\ Len(N) = Len(R) + 2
        BY <1>7, <1>8
      <4> DEFINE m == Len(parts[i])
                 b == at[i - 1]
      <4>2. k \in 1..m /\ m \in Nat /\ b \in Nat /\ b + m <= Len(R)
        BY <3>1, <3>2
      <4> HIDE DEF m, b
      <4>3. b + k \in 1..Len(R) /\ (b + k) + 1 \in 1..Len(N)
        BY <4>1, <4>2
      <4> QED  BY <4>3 DEF b
    <3>4. N[(at[i - 1] + k) + 1] = R[at[i - 1] + k]
      BY <1>8, <3>3
    <3>5. s[(at[i - 1] + k) + 1] = N[(at[i - 1] + k) + 1]
      BY <1>9, <3>3
    <3> QED  BY <3>1, <3>4, <3>5
  <2>2. at[i - 1] \in Nat /\ at[i - 1] + 1 + 1 = at[i - 1] + 2 /\ at[i - 1] + 2 + 1 = at[i - 1] + 3
    BY <1>10
  <2>3. at[i] = at[i - 1] + Len(parts[i])
    BY <1>7
  <2>4. CASE n[i] = q
    <3>1. Len(parts[i]) = 2 /\ parts[i][1] = q /\ parts[i][2] = q
      BY <1>10, <2>4
    <3>2. 1 \in 1..Len(parts[i]) /\ 2 \in 1..Len(parts[i])
      BY <3>1
    <3>3. s[at[i - 1] + 2] = q /\ s[at[i - 1] + 3] = q
      BY <2>1, <2>2, <3>1, <3>2
    <3> QED  BY <2>3, <2>4, <3>1, <3>3
  <2>5. CASE n[i] # q
    <3>1. Len(parts[i]) = 1 /\ parts[i][1] # q
      BY <1>10, <2>5
    <3>2. 1 \in 1..Len(parts[i])
      BY <3>1
    <3>3. s[at[i - 1] + 2] # q
      BY <2>1, <2>2, <3>1, <3>2
    <3> QED  BY <2>3, <2>5, <3>1, <3>3
  <2> QED  BY <2>4, <2>5
<1>12. \A p \in 1..at[l] :
         \E i \in 1..l : p = at[i - 1] + 1 \/ (n[i] = q /\ p = at[i - 1] + 2)
  <2> TAKE p \in 1..at[l]
  <2>1. PICK i \in 1..l : \E k \in 1..Len(parts[i]) : p = at[i - 1] + k
    BY <1>7
  <2>2. PICK k \in 1..Len(parts[i]) : p = at[i - 1] + k
    BY <2>1
  <2>3. k = 1 \/ (n[i] = q /\ k = 2)
    <3> DEFINE m == Len(parts[i])
    <3>1. (m = 1 \/ (n[i] = q /\ m = 2)) /\ k \in 1..m
      BY <1>10, <2>2
    <3> HIDE DEF m
    <3> QED  BY <3>1
  <2> QED  BY <2>2, <2>3
<1>13. s[1] = q /\ s[at[l] + 2] = q /\ Len(s) >= at[l] + 2 /\ Len(N) = at[l] + 2
  <2>1. Len(N) = at[l] + 2 /\ at[l] \in Nat
    BY <1>7, <1>8
  <2>2. 1 \in 1..Len(N) /\ at[l] + 2 \in 1..Len(N)
    BY <2>1
  <2> QED  BY <1>7, <1>8, <1>9, <2>1, <2>2
<1>14. \A k \in 1..l : at[k] <= at[l]
  BY <1>7
<1>15. Named(s, q, n, at)
  BY <1>7, <1>11, <1>12, <1>13, <1>14 DEF Named, l
<1> QED  BY <1>8, <1>13, <1>15 DEF s, l, N

\* skip_quoted_identifier skips a name, whatever signs it holds.
LEMMA NameSkipped ==
  ASSUME NEW E, NEW q \in E, q \in QuoteSigns, NEW n \in Seq(E), NEW tail \in Seq(E),
         tail = <<>> \/ tail[1] # q
  PROVE  AfterName(Name(q, n) \o tail) = tail
<1> DEFINE N == Name(q, n)
           s == N \o tail
<1>20. \A x, y \in Seq(E) :
          /\ x \o y \in Seq(E) /\ Len(x \o y) = Len(x) + Len(y)
          /\ \A i \in 1..Len(x) : (x \o y)[i] = x[i]
          /\ \A i \in 1..Len(y) : (x \o y)[Len(x) + i] = y[i]
  BY Joins
<1>1. N \in Seq(E) /\ \E at : Named(s, q, n, at) /\ Len(N) = at[Len(n)] + 2
  BY NameStands
<1>2. PICK at : Named(s, q, n, at) /\ Len(N) = at[Len(n)] + 2
  BY <1>1
<1> HIDE DEF N
<1>3. /\ s \in Seq(E) /\ Len(s) = Len(N) + Len(tail)
      /\ \A i \in 1..Len(tail) : s[Len(N) + i] = tail[i]
  BY Zenon, <1>1, <1>20
<1>4. at[Len(n)] \in Nat /\ Len(N) >= 2 /\ Len(N) \in Nat /\ Len(tail) \in Nat
  <2>1. Len(n) \in Nat /\ Len(N) \in Nat /\ Len(tail) \in Nat
    BY <1>1
  <2>2. at[Len(n)] \in Nat
    BY <1>2, <2>1 DEF Named
  <2> QED  BY <1>2, <2>1, <2>2
<1>5. Len(s) = at[Len(n)] + 2 \/ s[at[Len(n)] + 3] # q
  <2>1. CASE tail = <<>>
    BY <1>2, <1>3, <1>4, <2>1
  <2>2. CASE tail # <<>>
    <3>1. 1 \in 1..Len(tail) /\ tail[1] # q
      BY <1>4, <2>2
    <3>2. s[Len(N) + 1] # q
      BY <1>3, <3>1
    <3>3. Len(N) + 1 = at[Len(n)] + 3
      BY <1>2, <1>4
    <3> QED  BY <3>2, <3>3
  <2> QED  BY <2>1, <2>2
<1>6. Closing(s) = Len(N)
  <2> HIDE DEF s
  <2> QED  BY <1>2, <1>3, <1>5, ClosingFound
<1>7. s # <<>> /\ Head(s) = q
  <2>1. s[1] = q /\ Len(s) >= 1
    BY <1>2, <1>3, <1>4 DEF Named
  <2> HIDE DEF s
  <2> QED  BY <1>3, <2>1
<1>8. SubSeq(s, Len(N) + 1, Len(s)) = tail
  BY <1>1, FollowingText
<1> HIDE DEF s
<1>9. AfterName(s) = tail
  <2>1. Closing(s) > 0
    BY <1>4, <1>6
  <2> QED  BY Zenon, <1>6, <1>7, <1>8, <2>1 DEF AfterName, QuoteSigns
<1> QED  BY <1>9 DEF s, N

------------------------------------------------------------------------------
\* The head of a definition

Words == {"CREATE ", "ALGORITHM=", "DEFINER=", "@", " "} \cup QuoteSigns

\* The algorithm of a head is told from what follows.
LEMMA AlgorithmTold ==
  ASSUME NEW E, NEW k \in E, NEW a \in E, NEW sp \in E, k # sp, a # sp, NEW rest \in Seq(E)
  PROVE  LET body == <<k, a, sp>> \o rest
         IN  /\ After(body, k) # <<>>
             /\ SubSeq(body, 1, First(At(body, sp, 1, Len(body)))) = <<k, a, sp>>
<1> DEFINE al == <<k, a, sp>>
           body == al \o rest
           S == At(body, sp, 1, Len(body))
<1>1. al \in Seq(E) /\ Len(al) = 3 /\ al[1] = k /\ al[2] = a /\ al[3] = sp
  OBVIOUS
<1> HIDE DEF al
<1>2. /\ body \in Seq(E) /\ Len(body) = Len(al) + Len(rest) /\ \A i \in 1..Len(al) : body[i] = al[i]
  BY <1>1, Joins
<1>3. Len(body) >= 3 /\ Len(body) \in Nat
  <2>1. Len(rest) \in Nat
    OBVIOUS
  <2> QED  BY <1>1, <1>2, <2>1
<1>4. body[1] = k /\ body[2] = a /\ body[3] = sp
  BY <1>1, <1>2
<1>5. SubSeq(body, 1, Len(al)) = al
  BY <1>1, FollowingText
<1> HIDE DEF body
<1>6. After(body, k) # <<>>
  <2>1. body # <<>> /\ Head(body) = k /\ Len(Tail(body)) = Len(body) - 1
    BY <1>2, <1>3, <1>4
  <2>3. Len(Tail(body)) # 0
    BY <1>3, <2>1
  <2>2. Tail(body) # <<>>
    <3>1. Len(<<>>) = 0
      OBVIOUS
    <3> QED  BY Zenon, <2>3, <3>1
  <2> QED  BY <2>1, <2>2 DEF After
<1>7. 3 \in S /\ S \subseteq Nat /\ \A i \in S : 3 <= i
  <2>1. \A i \in 1..Len(body) : i < 3 => i = 1 \/ i = 2
    BY <1>3
  <2> QED  BY <1>3, <1>4, <2>1 DEF At
<1>8. First(S) = 3
  <2> HIDE DEF S
  <2> QED  BY <1>7, FirstIs
<1> QED  BY <1>1, <1>5, <1>6, <1>8 DEF body, al

\* The laws of texts that the rest needs, of a set S of texts over E.  Each
\* equation has a name: the provers then match it without solving equations.
Three(x, y, z) == (x \o y) \o z = x \o (y \o z)
Four(a, b, c, d) == ((a \o b) \o c) \o d = a \o (b \o (c \o d))
Five(a, b, c, d, e) == (((a \o b) \o c) \o d) \o e = a \o (b \o (c \o (d \o e)))
Seven(x1, x2, x3, x4, x5, x6, x7) ==
  (((((x1 \o x2) \o x3) \o x4) \o x5) \o x6) \o x7 = x1 \o (x2 \o (x3 \o (x4 \o (x5 \o (x6 \o x7)))))
BehindIs(x, y) == SubSeq(x \o y, Len(x) + 1, Len(x \o y)) = y
Opens(t, x) ==
  /\ After(<<t>> \o x, t) = x /\ \A u : u # t => After(<<t>> \o x, u) = <<>>
  /\ <<t>> \o x # <<>> /\ (<<t>> \o x)[1] = t
Algorithm(k, sp, body) ==
  IF After(body, k) = <<>> THEN <<>> ELSE SubSeq(body, 1, First(At(body, sp, 1, Len(body))))
Told(k, a, sp, x) == Algorithm(k, sp, <<k, a, sp>> \o x) = <<k, a, sp>>
Skipped(q, n, x) == AfterName(Name(q, n) \o x) = x
Laws(S, E) ==
  /\ <<>> \in S /\ \A t \in E : <<t>> \in S
  /\ \A t, u, v \in E : <<t, u, v>> \in S
  /\ \A x, y \in S : x \o y \in S
  /\ \A x \in S : <<>> \o x = x
  /\ \A x, y, z \in S : Three(x, y, z)
  /\ \A x, y \in S : BehindIs(x, y)
  /\ \A t \in E, x \in S : Opens(t, x)
  /\ \A k, a, sp \in E, x \in S : k # sp /\ a # sp => Told(k, a, sp, x)
  /\ \A q \in E, n \in S : Name(q, n) \in S
  /\ \A q \in E, n, x \in S : q \in QuoteSigns /\ (x = <<>> \/ x[1] # q) => Skipped(q, n, x)

LEMMA LawsHold ==
  ASSUME NEW E
  PROVE  Laws(Seq(E), E)
<1>1. /\ <<>> \in Seq(E) /\ \A t \in E : <<t>> \in Seq(E)
      /\ \A t, u, v \in E : <<t, u, v>> \in Seq(E)
  BY FewTokens
<1>2. \A x, y \in Seq(E) : x \o y \in Seq(E)
  BY Joins
<1>3. \A x \in Seq(E) : <<>> \o x = x
  BY EmptyJoins
<1>4. \A x, y, z \in Seq(E) : Three(x, y, z)
  BY JoinsAgain DEF Three
<1>5. \A x, y \in Seq(E) : BehindIs(x, y)
  BY FollowingText DEF BehindIs
<1>6. ASSUME NEW t \in E, NEW x \in Seq(E)
      PROVE  Opens(t, x)
  <2> DEFINE a == <<t>>
  <2>1. a \in Seq(E) /\ Len(a) = 1 /\ a[1] = t
    OBVIOUS
  <2>5. After(<<t>> \o x, t) = x /\ \A u : u # t => After(<<t>> \o x, u) = <<>>
    BY BehindToken
  <2> HIDE DEF a
  <2>2. /\ Len(a \o x) = Len(a) + Len(x) /\ \A i \in 1..Len(a) : (a \o x)[i] = a[i]
        /\ a \o x \in Seq(E)
    BY <2>1, Joins
  <2>3. Len(x) \in Nat
    OBVIOUS
  <2>4. a \o x # <<>> /\ (a \o x)[1] = t
    BY <2>1, <2>2, <2>3
  <2> QED  BY Zenon, <2>4, <2>5 DEF a, Opens
<1>8. ASSUME NEW k \in E, NEW a \in E, NEW sp \in E, NEW x \in Seq(E), k # sp, a # sp
      PROVE  Told(k, a, sp, x)
  <2>1. LET body == <<k, a, sp>> \o x
        IN  /\ After(body, k) # <<>>
            /\ SubSeq(body, 1, First(At(body, sp, 1, Len(body)))) = <<k, a, sp>>
    BY <1>8, AlgorithmTold
  <2> QED  BY Zenon, <2>1 DEF Told, Algorithm
<1>9. ASSUME NEW q \in E, NEW n \in Seq(E) PROVE Name(q, n) \in Seq(E)
  BY <1>1, NameStands
<1>10. ASSUME NEW q \in E, NEW n \in Seq(E), NEW x \in Seq(E), q \in QuoteSigns, x = <<>> \/ x[1] # q
       PROVE  Skipped(q, n, x)
  BY <1>10, NameSkipped DEF Skipped
<1> QED  BY Zenon, <1>1, <1>2, <1>3, <1>4, <1>5, <1>6, <1>8, <1>9, <1>10 DEF Laws

\* A text is one over more tokens too.
LEMMA MoreTokens ==
  \A A, B : Seq(A) \subseteq Seq(A \cup B)
OBVIOUS

\* Parts joined from the left are the parts joined from the right.
LEMMA FourJoin ==
  ASSUME NEW S, NEW E, Laws(S, E)
  PROVE  \A a, b, c, d \in S : Four(a, b, c, d)
<1>1. \A x, y \in S : x \o y \in S
  BY Zenon DEF Laws
<1>2. \A x, y, z \in S : Three(x, y, z)
  BY Zenon DEF Laws
<1> TAKE a, b, c, d \in S
<1>3. a \o b \in S /\ c \o d \in S
  BY Zenon, <1>1
<1>4. Three(a \o b, c, d) /\ Three(a, b, c \o d)
  BY Zenon, <1>2, <1>3
<1> QED  BY Zenon, <1>4 DEF Three, Four

LEMMA FiveJoin ==
  ASSUME NEW S, NEW E, Laws(S, E)
  PROVE  \A a, b, c, d, e \in S : Five(a, b, c, d, e)
<1>1. \A x, y \in S : x \o y \in S
  BY Zenon DEF Laws
<1>2. \A x, y, z \in S : Three(x, y, z)
  BY Zenon DEF Laws
<1>3. \A a, b, c, d \in S : Four(a, b, c, d)
  BY FourJoin
<1> TAKE a, b, c, d, e \in S
<1>4. a \o b \in S /\ d \o e \in S /\ c \o (d \o e) \in S
  BY Zenon, <1>1
<1>5. Four(a \o b, c, d, e) /\ Four(a, b, c, d \o e) /\ Three(a, b, c \o (d \o e))
  BY Zenon, <1>2, <1>3, <1>4
<1> QED  BY Zenon, <1>5 DEF Three, Four, Five

LEMMA SevenJoin ==
  ASSUME NEW S, NEW E, Laws(S, E)
  PROVE  \A x1, x2, x3, x4, x5, x6, x7 \in S : Seven(x1, x2, x3, x4, x5, x6, x7)
<1>1. \A x, y \in S : x \o y \in S
  BY Zenon DEF Laws
<1>2. \A a, b, c, d \in S : Four(a, b, c, d)
  BY FourJoin
<1>3. \A a, b, c, d, e \in S : Five(a, b, c, d, e)
  BY FiveJoin
<1> TAKE x1, x2, x3, x4, x5, x6, x7 \in S
<1> DEFINE y == (x1 \o x2) \o x3
           z == x4 \o (x5 \o (x6 \o x7))
<1>4. y \in S /\ z \in S
  BY Zenon, <1>1
<1> HIDE DEF y, z
<1>5. Five(y, x4, x5, x6, x7) /\ Four(x1, x2, x3, z)
  BY Zenon, <1>2, <1>3, <1>4
<1> QED  BY Zenon, <1>5 DEF y, z, Five, Four, Seven

\* The parts of a head: al the algorithm, u and ho the account.
AlgorithmPart(a) == IF a = "" THEN <<>> ELSE <<"ALGORITHM=", a, " ">>
Taken(al, u, ho, r) ==
  <<"CREATE ">> \o (al \o (<<"DEFINER=">> \o (u \o (ho \o (<<" ">> \o r)))))
\* What without_definer makes of the account and what follows.
Rest(t) == After(AfterName(After(AfterName(t), "@")), " ")

\* It finds the algorithm, and behind the clause what is behind the account.
LEMMA ClauseFound ==
  ASSUME NEW E, {"CREATE ", "DEFINER=", "@", " ", "ALGORITHM="} \subseteq E,
         NEW S, Laws(S, E), NEW a \in E, a # " ", NEW t \in S
  PROVE  WithoutDefiner(<<"CREATE ">> \o (AlgorithmPart(a) \o (<<"DEFINER=">> \o t))) =
           IF Rest(t) = <<>> THEN <<>> ELSE (<<"CREATE ">> \o AlgorithmPart(a)) \o Rest(t)
<1> DEFINE al == AlgorithmPart(a)
           clause == <<"DEFINER=">> \o t
           body == al \o clause
           ddl == <<"CREATE ">> \o body
<1>0. "CREATE " \in E /\ "ALGORITHM=" \in E /\ " " \in E /\ "DEFINER=" \in E
  OBVIOUS
<1>1. \A x, y \in S : x \o y \in S
  BY Zenon DEF Laws
<1>2. <<>> \in S /\ (\A v \in E : <<v>> \in S) /\ \A v, w, x \in E : <<v, w, x>> \in S
  BY Zenon DEF Laws
<1>3. al \in S
  BY Zenon, <1>0, <1>2 DEF AlgorithmPart
<1>4. clause \in S
  BY Zenon, <1>0, <1>1, <1>2
<1>5. \A v \in E, x \in S : Opens(v, x)
  BY Zenon DEF Laws
<1>6. After(clause, "DEFINER=") = t /\ After(clause, "ALGORITHM=") = <<>>
  <2>1. Opens("DEFINER=", t)
    BY Zenon, <1>0, <1>5
  <2>2. "ALGORITHM=" # "DEFINER="
    OBVIOUS
  <2> QED  BY Zenon, <2>1, <2>2 DEF Opens
<1>7. Told("ALGORITHM=", a, " ", clause)
  <2>1. "ALGORITHM=" # " "
    OBVIOUS
  <2> HIDE DEF clause
  <2> QED  BY Zenon, <1>0, <1>4, <2>1 DEF Laws
<1> HIDE DEF clause
<1>8. Algorithm("ALGORITHM=", " ", body) = al
  <2>1. CASE a = ""
    <3>1. al = <<>>
      BY Zenon, <2>1 DEF AlgorithmPart
    <3>2. <<>> \o clause = clause
      BY Zenon, <1>4 DEF Laws
    <3> HIDE DEF al
    <3> QED  BY Zenon, <1>6, <3>1, <3>2 DEF Algorithm
  <2>2. CASE a # ""
    BY Zenon, <1>7, <2>2 DEF Told, AlgorithmPart
  <2> QED  BY <2>1, <2>2
<1> HIDE DEF al
<1>9. body \in S /\ BehindIs(al, clause)
  BY Zenon, <1>1, <1>3, <1>4 DEF Laws
<1>10. SubSeq(body, Len(al) + 1, Len(body)) = clause
  BY Zenon, <1>9 DEF BehindIs
<1> HIDE DEF body
<1>11. After(ddl, "CREATE ") = body
  <2>1. Opens("CREATE ", body)
    BY Zenon, <1>0, <1>5, <1>9
  <2> QED  BY Zenon, <2>1 DEF Opens
<1> HIDE DEF ddl
<1>12. WithoutDefiner(ddl) =
         LET algorithm == Algorithm("ALGORITHM=", " ", After(ddl, "CREATE "))
             rest == Rest(After(SubSeq(After(ddl, "CREATE "), Len(algorithm) + 1,
                                       Len(After(ddl, "CREATE "))), "DEFINER="))
         IN  IF rest = <<>> THEN <<>> ELSE (<<"CREATE ">> \o algorithm) \o rest
  BY Zenon DEF WithoutDefiner, Algorithm, Rest
<1>13. WithoutDefiner(ddl) = IF Rest(t) = <<>> THEN <<>> ELSE (<<"CREATE ">> \o al) \o Rest(t)
  BY Zenon, <1>6, <1>8, <1>10, <1>11, <1>12
<1> QED  BY Zenon, <1>13 DEF ddl, body, clause, al

\* What is behind the account.
RestFound(q, user, host, r) ==
  /\ Rest(Name(q, user) \o (<<"@">> \o (Name(q, host) \o (<<" ">> \o r)))) = r
  /\ Rest(Name(q, user) \o (<<" ">> \o r)) = <<>>
LEMMA RestIs ==
  ASSUME NEW E, {"@", " "} \subseteq E, NEW S, Laws(S, E),
         NEW q \in E, q \in QuoteSigns, q # " ", q # "@"
  PROVE  \A user, host, r \in S : RestFound(q, user, host, r)
<1> TAKE user, host, r \in S
<1> DEFINE t2 == <<" ">> \o r
           w == Name(q, host) \o t2
           t1 == <<"@">> \o w
<1>0. "@" \in E /\ " " \in E /\ "@" # " "
  OBVIOUS
<1>1. \A x, y \in S : x \o y \in S
  BY Zenon DEF Laws
<1>2. (\A v \in E : <<v>> \in S) /\ \A n \in S : Name(q, n) \in S
  BY Zenon DEF Laws
<1>3. \A v \in E, x \in S : Opens(v, x)
  BY Zenon DEF Laws
<1>4. \A n, x \in S : x[1] # q => Skipped(q, n, x)
  BY Zenon DEF Laws
<1>5. t2 \in S /\ After(t2, " ") = r /\ After(t2, "@") = <<>> /\ t2[1] # q
  <2>1. Opens(" ", r)
    BY Zenon, <1>0, <1>3
  <2>2. t2 \in S
    BY Zenon, <1>0, <1>1, <1>2
  <2>3. t2[1] = " "
    BY Zenon, <2>1 DEF Opens
  <2>4. After(t2, " ") = r /\ After(t2, "@") = <<>>
    BY Zenon, <1>0, <2>1 DEF Opens
  <2> HIDE DEF t2
  <2> QED  BY Zenon, <2>2, <2>3, <2>4
<1> HIDE DEF t2
<1>6. w \in S
  BY Zenon, <1>1, <1>2, <1>5
<1>7. AfterName(w) = t2
  <2>1. Skipped(q, host, t2)
    BY Zenon, <1>4, <1>5
  <2> QED  BY Zenon, <2>1 DEF Skipped
<1> HIDE DEF w
<1>8. t1 \in S /\ After(t1, "@") = w /\ t1[1] # q
  <2>1. Opens("@", w)
    BY Zenon, <1>0, <1>3, <1>6
  <2>2. t1 \in S
    BY Zenon, <1>0, <1>1, <1>2, <1>6
  <2>3. t1[1] = "@" /\ After(t1, "@") = w
    BY Zenon, <2>1 DEF Opens
  <2> HIDE DEF t1
  <2> QED  BY Zenon, <2>2, <2>3
<1> HIDE DEF t1
<1>9. AfterName(Name(q, user) \o t1) = t1 /\ AfterName(Name(q, user) \o t2) = t2
  <2>1. Skipped(q, user, t1) /\ Skipped(q, user, t2)
    BY Zenon, <1>4, <1>5, <1>8
  <2> QED  BY Zenon, <2>1 DEF Skipped
<1>10. AfterName(<<>>) = <<>> /\ After(<<>>, " ") = <<>>
  BY Zenon DEF AfterName, After
<1>11. Rest(Name(q, user) \o t1) = r
  BY Zenon, <1>5, <1>7, <1>8, <1>9 DEF Rest
<1>12. Rest(Name(q, user) \o t2) = <<>>
  BY Zenon, <1>5, <1>9, <1>10 DEF Rest
<1> QED  BY Zenon, <1>11, <1>12 DEF t1, t2, w, RestFound

\* How the server words a head, part by part.
LEMMA WordedIs ==
  ASSUME NEW h, IsHead(h)
  PROVE  LET al == AlgorithmPart(h.algorithm)
             u == Name(h.quote, h.user)
             w == Name(h.quote, h.host)
             t == <<" ">> \o h.rest
         IN  /\ WordedWithout(h) = (<<"CREATE ">> \o al) \o h.rest
             /\ Worded(h) = <<"CREATE ">> \o (al \o (<<"DEFINER=">> \o
                              (IF h.host = <<"none">> THEN u \o t ELSE u \o (<<"@">> \o (w \o t)))))
<1> DEFINE E == STRING \cup Words
           S == Seq(E)
           c == <<"CREATE ">>
           al == AlgorithmPart(h.algorithm)
           d == <<"DEFINER=">>
           u == Name(h.quote, h.user)
           a == <<"@">>
           w == Name(h.quote, h.host)
           ho == IF h.host = <<"none">> THEN <<>> ELSE a \o w
           b == <<" ">>
           r == h.rest
<1>1. WordedWithout(h) = (c \o al) \o r
  BY Zenon DEF WordedWithout, AlgorithmPart
<1>2. Worded(h) = (((((c \o al) \o d) \o u) \o ho) \o b) \o r
  BY Zenon DEF Worded, Name, AlgorithmPart
<1>3. h.quote \in E
  BY Zenon DEF IsHead, Words
<1>4. h.user \in S /\ h.host \in S /\ r \in S /\ h.algorithm \in E
  BY Zenon, MoreTokens DEF IsHead
<1>5. "CREATE " \in E /\ "@" \in E /\ " " \in E /\ "DEFINER=" \in E /\ "ALGORITHM=" \in E
  BY Zenon DEF Words
<1>6. Laws(S, E)
  BY Zenon, LawsHold
<1> HIDE DEF E, S
<1>7. /\ <<>> \in S /\ (\A t \in E : <<t>> \in S) /\ \A t, v, x \in E : <<t, v, x>> \in S
      /\ (\A x, y \in S : x \o y \in S) /\ \A n \in S : Name(h.quote, n) \in S
  BY Zenon, <1>3, <1>6 DEF Laws
<1>8. c \in S /\ d \in S /\ a \in S /\ b \in S /\ al \in S
  BY Zenon, <1>4, <1>5, <1>7 DEF AlgorithmPart
<1>9. u \in S /\ w \in S
  BY Zenon, <1>4, <1>7
<1> HIDE DEF c, d, a, b, al, u, w, r
<1>10. ho \in S
  BY Zenon, <1>7, <1>8, <1>9
<1>11. b \o r \in S
  BY Zenon, <1>4, <1>7, <1>8
<1>12. ho \o (b \o r) = IF h.host = <<"none">> THEN b \o r ELSE a \o (w \o (b \o r))
  <2>1. <<>> \o (b \o r) = b \o r
    BY Zenon, <1>6, <1>11 DEF Laws
  <2>2. Three(a, w, b \o r)
    BY Zenon, <1>6, <1>8, <1>9, <1>11 DEF Laws
  <2> QED  BY Zenon, <2>1, <2>2 DEF Three
<1> HIDE DEF ho
<1>13. \A x1, x2, x3, x4, x5, x6, x7 \in S : Seven(x1, x2, x3, x4, x5, x6, x7)
  BY <1>6, SevenJoin
<1>14. (((((c \o al) \o d) \o u) \o ho) \o b) \o r = c \o (al \o (d \o (u \o (ho \o (b \o r)))))
  <2>1. Seven(c, al, d, u, ho, b, r)
    BY Zenon, <1>4, <1>8, <1>9, <1>10, <1>13
  <2> QED  BY Zenon, <2>1 DEF Seven
<1>15. Worded(h) = c \o (al \o (d \o (IF h.host = <<"none">> THEN u \o (b \o r)
                                     ELSE u \o (a \o (w \o (b \o r))))))
  BY Zenon, <1>2, <1>12, <1>14
<1> QED  BY Zenon, <1>1, <1>15 DEF c, d, a, b, al, u, w, r

\* --skip-definer: without_definer takes out the clause and nothing else,
\* whatever signs the names of the account hold; without a host it gives up.
LEMMA DefinerCut ==
  ASSUME NEW h, IsHead(h)
  PROVE  /\ WithoutDefiner(Worded(h)) = IF h.host = <<"none">> THEN <<>> ELSE WordedWithout(h)
         /\ WordedWithout(h) # <<>>
<1> DEFINE E == STRING \cup Words
           S == Seq(E)
           al == AlgorithmPart(h.algorithm)
           u == Name(h.quote, h.user)
           w == Name(h.quote, h.host)
           b == <<" ">> \o h.rest
           t == IF h.host = <<"none">> THEN u \o b ELSE u \o (<<"@">> \o (w \o b))
<1>1. WordedWithout(h) = (<<"CREATE ">> \o al) \o h.rest
  BY Zenon, WordedIs
<1>2. Worded(h) = <<"CREATE ">> \o (al \o (<<"DEFINER=">> \o t))
  BY Zenon, WordedIs
<1>3. h.quote \in E /\ h.quote # " " /\ h.quote # "@" /\ h.quote \in QuoteSigns
  <2>1. h.quote \in QuoteSigns
    BY Zenon DEF IsHead
  <2>2. h.quote # " " /\ h.quote # "@"
    BY Zenon, <2>1 DEF QuoteSigns
  <2> QED  BY Zenon, <2>1, <2>2 DEF Words
<1>4. h.user \in S /\ h.host \in S /\ h.rest \in S /\ h.algorithm \in E /\ h.algorithm # " " /\ h.rest # <<>>
  BY Zenon, MoreTokens DEF IsHead
<1>5. {"CREATE ", "DEFINER=", "@", " ", "ALGORITHM="} \subseteq E /\ {"@", " "} \subseteq E
      /\ "@" \in E /\ " " \in E /\ "CREATE " \in E /\ "ALGORITHM=" \in E
  BY Zenon DEF Words
<1>6. Laws(S, E)
  BY Zenon, LawsHold
<1> HIDE DEF E, S
<1>7. Rest(u \o (<<"@">> \o (w \o b))) = h.rest /\ Rest(u \o b) = <<>>
  <2>1. \A user, host, r \in S : RestFound(h.quote, user, host, r)
    BY Zenon, <1>3, <1>5, <1>6, RestIs
  <2>2. RestFound(h.quote, h.user, h.host, h.rest)
    BY Zenon, <1>4, <2>1
  <2> QED  BY Zenon, <2>2 DEF RestFound
<1>8. t \in S
  BY Zenon, <1>3, <1>4, <1>5, <1>6 DEF Laws
<1>9. Rest(t) = IF h.host = <<"none">> THEN <<>> ELSE h.rest
  BY Zenon, <1>7
<1> HIDE DEF t
<1>10. WithoutDefiner(<<"CREATE ">> \o (al \o (<<"DEFINER=">> \o t))) =
           IF Rest(t) = <<>> THEN <<>> ELSE (<<"CREATE ">> \o al) \o Rest(t)
  BY Zenon, <1>4, <1>5, <1>6, <1>8, ClauseFound
<1>11. WordedWithout(h) # <<>>
  <2>1. \A x, y \in S : x \o y \in S
    BY Zenon, <1>6 DEF Laws
  <2>2. al \in S /\ <<"CREATE ">> \in S /\ "CREATE " \in E
    BY Zenon, <1>4, <1>5, <1>6 DEF Laws, AlgorithmPart
  <2> HIDE DEF al
  <2>3. Three(<<"CREATE ">>, al, h.rest)
    BY Zenon, <1>4, <1>6, <2>2 DEF Laws
  <2>4. al \o h.rest \in S
    BY Zenon, <1>4, <2>1, <2>2
  <2>5. Opens("CREATE ", al \o h.rest)
    BY Zenon, <1>6, <2>2, <2>4 DEF Laws
  <2>6. <<"CREATE ">> \o (al \o h.rest) # <<>>
    BY Zenon, <2>5 DEF Opens
  <2> QED  BY Zenon, <1>1, <2>3, <2>6 DEF Three
<1> QED  BY Zenon, <1>1, <1>2, <1>4, <1>9, <1>10, <1>11

------------------------------------------------------------------------------
\* Texts that are escaped and read back

\* The start of a text and its next token.
LEMMA HeadGrows ==
  ASSUME NEW E, NEW v \in Seq(E)
  PROVE  \A i \in 0..(Len(v) - 1) :
           SubSeq(v, 1, i) \in Seq(E) /\ SubSeq(v, 1, i) \o <<v[i + 1]>> = SubSeq(v, 1, i + 1)
<1>8. \A x, y \in Seq(E) :
        /\ x \o y \in Seq(E) /\ Len(x \o y) = Len(x) + Len(y)
        /\ \A k \in 1..Len(x) : (x \o y)[k] = x[k]
        /\ \A k \in 1..Len(y) : (x \o y)[Len(x) + k] = y[k]
  BY Joins
<1> TAKE i \in 0..(Len(v) - 1)
<1> DEFINE a == SubSeq(v, 1, i)
           b == <<v[i + 1]>>
           c == SubSeq(v, 1, i + 1)
<1>0. i \in Nat /\ i + 1 \in 1..Len(v) /\ i + 1 \in Nat /\ i <= Len(v) /\ v[i + 1] \in E
  OBVIOUS
<1>1. a \in Seq(E) /\ Len(a) = i /\ \A k \in 1..i : a[k] = v[k]
  BY <1>0
<1>2. b \in Seq(E) /\ Len(b) = 1 /\ b[1] = v[i + 1]
  BY <1>0
<1>3. c \in Seq(E) /\ Len(c) = i + 1 /\ \A k \in 1..(i + 1) : c[k] = v[k]
  BY <1>0
<1> HIDE DEF a, b, c
<1>4. /\ a \o b \in Seq(E) /\ Len(a \o b) = Len(a) + Len(b)
      /\ \A k \in 1..Len(a) : (a \o b)[k] = a[k]
      /\ \A k \in 1..Len(b) : (a \o b)[Len(a) + k] = b[k]
  BY Zenon, <1>1, <1>2, <1>8
<1> DEFINE d == a \o b
<1>5. d \in Seq(E) /\ Len(d) = i + 1 /\ d[i + 1] = v[i + 1] /\ \A k \in 1..i : d[k] = v[k]
  BY <1>0, <1>1, <1>2, <1>4
<1> HIDE DEF d
<1>6. \A k \in 1..(i + 1) : d[k] = c[k]
  BY <1>0, <1>3, <1>5
<1>7. d = c
  BY <1>0, <1>3, <1>5, <1>6
<1> QED  BY <1>1, <1>7 DEF a, b, c, d

\* A text is read back token by token: the pieces that its parts give are empty
\* but for the last of each part, which is the token that the part stands for.
LEMMA ReadBack ==
  ASSUME NEW E, NEW v \in Seq(E), NEW Q \in Seq(Seq(E)), NEW at \in [0..Len(v) -> Nat],
         at[0] = 0, at[Len(v)] = Len(Q),
         \A i \in 1..Len(v) :
           /\ at[i] <= Len(Q) /\ Q[at[i]] = <<v[i]>>
           /\ at[i] = at[i - 1] + 1 \/ (at[i] = at[i - 1] + 2 /\ Q[at[i] - 1] = <<>>)
  PROVE  FlattenSeq(Q) = v
<1> DEFINE n == Len(v)
           m == Len(Q)
<1>0. n \in Nat /\ m \in Nat /\ \A i \in 1..n : v[i] \in E
  OBVIOUS
<1>1. PICK g \in [0..m -> Seq(E)] :
        /\ g[0] = <<>> /\ FlattenSeq(Q) = g[m]
        /\ \A p \in 1..m : g[p] = g[p - 1] \o Q[p]
  BY FlattenIs
<1> DEFINE Head1(i) == SubSeq(v, 1, i)
           S == {i \in 0..n : g[at[i]] = Head1(i)}
<1>2. Head1(0) = <<>> /\ Head1(n) = v
  BY <1>0
<1>3. \A i \in 0..(n - 1) : Head1(i) \in Seq(E) /\ Head1(i) \o <<v[i + 1]>> = Head1(i + 1)
  BY HeadGrows
<1> HIDE DEF Head1
<1>4. 0 \in S
  BY <1>0, <1>1, <1>2
<1>5. ASSUME NEW i \in 0..(n - 1), i \in S PROVE i + 1 \in S
  <2>0. i \in Nat /\ i \in 0..n /\ i + 1 \in 1..n /\ i + 1 \in 0..n /\ (i + 1) - 1 = i
    BY <1>0
  <2>1. at[i] \in Nat /\ at[i + 1] \in Nat /\ at[i + 1] <= m
    BY <2>0
  <2>2. g[at[i]] = Head1(i) /\ Head1(i) \in Seq(E)
    BY <1>3, <1>5
  <2>3. Q[at[i + 1]] = <<v[i + 1]>>
    BY <2>0
  <2>4. CASE at[i + 1] = at[i] + 1
    <3>1. at[i + 1] \in 1..m /\ at[i + 1] - 1 = at[i]
      <4> DEFINE a == at[i]
                 b == at[i + 1]
      <4>1. a \in Nat /\ b \in Nat /\ b <= m /\ b = a + 1
        BY <2>1, <2>4
      <4> HIDE DEF a, b, m
      <4>2. b \in 1..m /\ b - 1 = a
        BY <1>0, <4>1
      <4> QED  BY <4>2 DEF a, b
    <3>2. g[at[i + 1]] = g[at[i]] \o <<v[i + 1]>>
      BY <1>1, <2>3, <3>1
    <3> QED  BY <1>3, <2>0, <2>2, <3>2
  <2>5. CASE at[i + 1] = at[i] + 2 /\ Q[at[i + 1] - 1] = <<>>
    <3>1. at[i + 1] \in 1..m /\ at[i + 1] - 1 \in 1..m /\ (at[i + 1] - 1) - 1 = at[i]
      <4> DEFINE a == at[i]
                 b == at[i + 1]
      <4>1. a \in Nat /\ b \in Nat /\ b <= m /\ b = a + 2
        BY <2>1, <2>5
      <4> HIDE DEF a, b, m
      <4>2. b \in 1..m /\ b - 1 \in 1..m /\ (b - 1) - 1 = a
        BY <1>0, <4>1
      <4> QED  BY <4>2 DEF a, b
    <3>2. g[at[i + 1]] = g[at[i + 1] - 1] \o <<v[i + 1]>>
      BY <1>1, <2>3, <3>1
    <3>3. g[at[i + 1] - 1] = g[at[i]] \o <<>>
      BY <1>1, <2>5, <3>1
    <3>4. Head1(i) \o <<>> = Head1(i)
      BY <2>2, EmptyJoins
    <3>5. g[at[i + 1]] = Head1(i) \o <<v[i + 1]>>
      BY Zenon, <2>2, <3>2, <3>3, <3>4
    <3> QED  BY <1>3, <2>0, <3>5
  <2> QED  BY <2>0, <2>4, <2>5
<1>6. 0..n \subseteq S
  <2> HIDE DEF S
  <2> QED  BY <1>0, <1>4, <1>5, InductionUpTo
<1>7. g[at[n]] = Head1(n)
  BY <1>0, <1>6
<1> QED  BY <1>1, <1>2, <1>7

\* The marks of a row of signs: every other one.
LEMMA MarksExist ==
  ASSUME NEW n \in Nat, NEW S
  PROVE  \E f \in [0..n -> BOOLEAN] : \A i \in 0..n : f[i] = (i > 0 /\ i \in S /\ ~f[i - 1])
<1> DEFINE Marks(f, m) == f \in [0..m -> BOOLEAN] /\ \A i \in 0..m : f[i] = (i > 0 /\ i \in S /\ ~f[i - 1])
           T == {m \in 0..n : \E f : Marks(f, m)}
<1>1. 0 \in T
  <2> DEFINE f == [i \in 0..0 |-> FALSE]
  <2>1. f \in [0..0 -> BOOLEAN]
    BY Zenon
  <2>2. \A i \in 0..0 : ~(i > 0)
    OBVIOUS
  <2>3. \A i \in 0..0 : f[i] = (i > 0 /\ i \in S /\ ~f[i - 1])
    BY Zenon, <2>2
  <2>4. Marks(f, 0)
    BY Zenon, <2>1, <2>3
  <2> HIDE DEF Marks, f
  <2> QED  BY <2>4
<1>2. ASSUME NEW m \in 0..(n - 1), m \in T PROVE m + 1 \in T
  <2>1. PICK f : Marks(f, m)
    BY <1>2
  <2> DEFINE h == [i \in 0..(m + 1) |-> IF i = m + 1 THEN m + 1 \in S /\ ~f[m] ELSE f[i]]
  <2>2. h \in [0..(m + 1) -> BOOLEAN]
    <3> DEFINE b(i) == IF i = m + 1 THEN m + 1 \in S /\ ~f[m] ELSE f[i]
    <3>1. \A i \in 0..(m + 1) : i # m + 1 => i \in 0..m
      OBVIOUS
    <3>2. \A i \in 0..m : f[i] \in BOOLEAN
      BY Zenon, <2>1
    <3>3. \A i \in 0..(m + 1) : b(i) \in BOOLEAN
      BY Zenon, <3>1, <3>2
    <3>4. h = [i \in 0..(m + 1) |-> b(i)]
      BY Zenon
    <3> HIDE DEF b, h
    <3> QED  BY Zenon, <3>3, <3>4
  <2>3. \A i \in 0..(m + 1) : h[i] = (i > 0 /\ i \in S /\ ~h[i - 1])
    <3> TAKE i \in 0..(m + 1)
    <3>1. CASE i = m + 1
      <4>1. i > 0 /\ i - 1 = m /\ m \in 0..(m + 1) /\ m # m + 1
        BY <3>1
      <4>2. h[i - 1] = f[m] /\ h[i] = (m + 1 \in S /\ ~f[m])
        BY <3>1, <4>1
      <4> QED  BY <3>1, <4>1, <4>2
    <3>2. CASE i # m + 1
      <4>1. i \in 0..m /\ h[i] = f[i] /\ (i > 0 => i - 1 \in 0..(m + 1) /\ i - 1 # m + 1)
        BY <3>2
      <4>2. i > 0 => h[i - 1] = f[i - 1]
        BY <4>1
      <4>3. f[i] = (i > 0 /\ i \in S /\ ~f[i - 1])
        BY <2>1, <4>1
      <4> HIDE DEF h
      <4> QED  BY <4>1, <4>2, <4>3, Zenon
    <3> QED  BY <3>1, <3>2
  <2> HIDE DEF h
  <2>4. Marks(h, m + 1)
    BY <2>2, <2>3
  <2>5. m + 1 \in 0..n
    OBVIOUS
  <2> HIDE DEF Marks
  <2> QED  BY <2>4, <2>5
<1>3. 0..n \subseteq T
  <2> HIDE DEF T
  <2> QED  BY <1>1, <1>2, InductionUpTo
<1>4. n \in T
  BY <1>3
<1> QED  BY <1>4

\* A text whose tokens were rewritten, each of some signs and no other to a pair that
\* a sign opens, gives its tokens back: who reads it knows by the marks where a
\* pair opens.
Marked(T, Signs, e) ==
  /\ e \in [0..Len(T) -> BOOLEAN]
  /\ \A p \in 0..Len(T) : e[p] = (p > 0 /\ T[p] \in Signs /\ ~e[p - 1])
Undoes(E, v, change, Signs, e, Q) ==
  LET T == Rewrite(v, change)
  IN  /\ v \in Seq(E)
      /\ \A t \in DOMAIN change : change[t] \in Seq(E) /\ Len(change[t]) = 2 /\ change[t][1] \in Signs
      /\ Signs \subseteq DOMAIN change
      /\ Marked(T, Signs, e)
      /\ Q \in Seq(Seq(E)) /\ Len(Q) = Len(T)
      /\ \A p \in 1..(Len(Q) - 1) : e[p] => Q[p] = <<>>
      /\ \A p \in 1..Len(Q), t \in DOMAIN change :
            ~e[p] /\ e[p - 1] /\ T[p - 1] = change[t][1] /\ T[p] = change[t][2] => Q[p] = <<t>>
      /\ \A p \in 1..Len(Q) : ~e[p] /\ ~e[p - 1] => Q[p] = <<T[p]>>
LEMMA PairsReadBack ==
  ASSUME NEW E, NEW v, NEW change, NEW Signs, NEW e, NEW Q, Undoes(E, v, change, Signs, e, Q)
  PROVE  FlattenSeq(Q) = v
<1>0. /\ v \in Seq(E)
      /\ \A t \in DOMAIN change : change[t] \in Seq(E) /\ Len(change[t]) = 2 /\ change[t][1] \in Signs
      /\ Signs \subseteq DOMAIN change
      /\ Marked(Rewrite(v, change), Signs, e)
      /\ Q \in Seq(Seq(E)) /\ Len(Q) = Len(Rewrite(v, change))
      /\ \A p \in 1..(Len(Q) - 1) : e[p] => Q[p] = <<>>
      /\ \A p \in 1..Len(Q), t \in DOMAIN change :
            ~e[p] /\ e[p - 1] /\ Rewrite(v, change)[p - 1] = change[t][1] /\ Rewrite(v, change)[p] = change[t][2] => Q[p] = <<t>>
      /\ \A p \in 1..Len(Q) : ~e[p] /\ ~e[p - 1] => Q[p] = <<Rewrite(v, change)[p]>>
  BY Zenon DEF Undoes
<1> USE <1>0
<1> DEFINE T == Rewrite(v, change)
           parts == Pieces(v, change)
           n == Len(v)
           m == Len(T)
<1>1. PICK at : Laid(T, parts, at)
  BY RewritePlaces
<1>2. Len(parts) = n /\ n \in Nat /\ m \in Nat /\ T \in Seq(E)
  <2>1. Len(parts) = n /\ T \in Seq(E)
    BY RewritePlaces
  <2> HIDE DEF T
  <2> QED  BY <2>1
<1>3. \A i \in 1..n : parts[i] = IF v[i] \in DOMAIN change THEN change[v[i]] ELSE <<v[i]>>
  BY DEF Pieces
<1> HIDE DEF T, parts, n, m
<1>4. /\ at \in [0..n -> Nat] /\ at[0] = 0 /\ at[n] = m
      /\ \A i \in 1..n :
           /\ at[i] = at[i - 1] + Len(parts[i]) /\ at[i] <= m
           /\ \A k \in 1..Len(parts[i]) : T[at[i - 1] + k] = parts[i][k]
  BY <1>1, <1>2 DEF Laid, m
<1>5. \A p \in 0..m : e[p] = (p > 0 /\ T[p] \in Signs /\ ~e[p - 1])
  BY Zenon DEF Marked, T, m
\* Where a token stands that keeps its own, and where its pair.
<1>6. \A i \in 1..n :
        /\ i - 1 \in 0..n /\ i \in 0..n /\ at[i - 1] \in Nat /\ at[i] \in Nat /\ at[i] <= m
        /\ v[i] \notin DOMAIN change =>
             at[i] = at[i - 1] + 1 /\ T[at[i - 1] + 1] = v[i] /\ v[i] \notin Signs
        /\ v[i] \in DOMAIN change =>
             /\ at[i] = at[i - 1] + 2 /\ T[at[i - 1] + 1] = change[v[i]][1]
             /\ T[at[i - 1] + 2] = change[v[i]][2] /\ change[v[i]][1] \in Signs
  <2> TAKE i \in 1..n
  <2>1. i - 1 \in 0..n /\ i \in 0..n
    BY <1>2
  <2>2. at[i - 1] \in Nat /\ at[i] \in Nat /\ at[i] <= m /\ at[i] = at[i - 1] + Len(parts[i])
    BY <1>4, <2>1
  <2>3. ASSUME v[i] \notin DOMAIN change
        PROVE  at[i] = at[i - 1] + 1 /\ T[at[i - 1] + 1] = v[i] /\ v[i] \notin Signs
    <3>1. parts[i] = <<v[i]>> /\ Len(<<v[i]>>) = 1 /\ <<v[i]>>[1] = v[i]
      BY <1>3, <2>3
    <3>2. Len(parts[i]) = 1 /\ 1 \in 1..Len(parts[i]) /\ parts[i][1] = v[i]
      BY <3>1
    <3> QED  BY <1>4, <2>2, <2>3, <3>2
  <2>4. ASSUME v[i] \in DOMAIN change
        PROVE  /\ at[i] = at[i - 1] + 2 /\ T[at[i - 1] + 1] = change[v[i]][1]
               /\ T[at[i - 1] + 2] = change[v[i]][2] /\ change[v[i]][1] \in Signs
    <3>1. parts[i] = change[v[i]] /\ Len(parts[i]) = 2
      BY <1>3, <2>4
    <3>2. 1 \in 1..Len(parts[i]) /\ 2 \in 1..Len(parts[i])
      BY <3>1
    <3> QED  BY <1>4, <2>2, <2>4, <3>1, <3>2
  <2> QED  BY <2>1, <2>2, <2>3, <2>4
\* No part ends with a sign that opens.
<1>7. \A i \in 0..n : ~e[at[i]]
  <2> DEFINE S == {i \in 0..n : ~e[at[i]]}
  <2>1. 0 \in S
    <3>1. 0 \in 0..n /\ 0 \in 0..m /\ ~(0 > 0)
      BY <1>2
    <3>2. ~e[0]
      BY Zenon, <1>5, <3>1
    <3>3. ~e[at[0]]
      BY Zenon, <1>4, <3>2
    <3> QED  BY Zenon, <3>1, <3>3
  <2>2. ASSUME NEW i \in 0..(n - 1), i \in S PROVE i + 1 \in S
    <3>1. i + 1 \in 1..n /\ i + 1 \in 0..n /\ (i + 1) - 1 = i
      BY <1>2
    <3>2. at[i] \in Nat /\ at[i + 1] \in Nat /\ at[i + 1] <= m /\ ~e[at[i]]
      BY Zenon, <1>6, <2>2, <3>1
    <3>3. CASE v[i + 1] \notin DOMAIN change
      <4>0. at[i + 1] = at[(i + 1) - 1] + 1 /\ T[at[(i + 1) - 1] + 1] \notin Signs
        BY Zenon, <1>6, <3>1, <3>3
      <4>1. at[i + 1] = at[i] + 1 /\ T[at[i] + 1] \notin Signs
        BY Zenon, <4>0, <3>1
      <4>2. at[i + 1] \in 0..m
        BY <1>2, <3>2
      <4> QED  BY Zenon, <1>5, <3>1, <4>1, <4>2
    <3>4. CASE v[i + 1] \in DOMAIN change
      <4>0. at[i + 1] = at[(i + 1) - 1] + 2 /\ T[at[(i + 1) - 1] + 1] \in Signs
        BY Zenon, <1>6, <3>1, <3>4
      <4>1. at[i + 1] = at[i] + 2 /\ T[at[i] + 1] \in Signs
        BY Zenon, <4>0, <3>1
      <4>2. /\ at[i] + 1 \in 0..m /\ at[i] + 1 > 0 /\ (at[i] + 1) - 1 = at[i]
            /\ at[i] + 2 \in 0..m /\ (at[i] + 2) - 1 = at[i] + 1
        <5> DEFINE a == at[i]
        <5>1. a \in Nat /\ a + 2 <= m /\ m \in Nat
          BY Zenon, <1>2, <3>2, <4>1
        <5> HIDE DEF a
        <5>2. /\ a + 1 \in 0..m /\ a + 1 > 0 /\ (a + 1) - 1 = a
              /\ a + 2 \in 0..m /\ (a + 2) - 1 = a + 1
          BY ONLY <5>1, SMT
        <5> QED  BY Zenon, <5>2 DEF a
      <4>3. e[at[i] + 1]
        BY Zenon, <1>5, <3>2, <4>1, <4>2
      <4>4. ~e[at[i] + 2]
        BY Zenon, <1>5, <4>2, <4>3
      <4> QED  BY Zenon, <3>1, <4>1, <4>4
    <3> QED  BY <3>3, <3>4
  <2>3. 0..n \subseteq S
    <3> HIDE DEF S
    <3> QED  BY <1>2, <2>1, <2>2, InductionUpTo
  <2> QED  BY Zenon, <2>3
<1>8. ASSUME NEW i \in 1..n
      PROVE  /\ at[i] <= Len(Q) /\ Q[at[i]] = <<v[i]>>
             /\ at[i] = at[i - 1] + 1 \/ (at[i] = at[i - 1] + 2 /\ Q[at[i] - 1] = <<>>)
  <2>1. /\ i - 1 \in 0..n /\ i \in 0..n /\ at[i - 1] \in Nat /\ at[i] \in Nat /\ at[i] <= m
        /\ ~e[at[i - 1]] /\ ~e[at[i]] /\ Len(Q) = m
    BY Zenon, <1>6, <1>7 DEF T, m
  <2>2. CASE v[i] \notin DOMAIN change
    <3>1. at[i] = at[i - 1] + 1 /\ T[at[i - 1] + 1] = v[i]
      BY Zenon, <1>6, <2>2
    <3>2. at[i] \in 1..Len(Q) /\ at[i] - 1 = at[i - 1]
      <4> DEFINE a == at[i - 1]
                 b == at[i]
                 l == Len(Q)
      <4>1. a \in Nat /\ b \in Nat /\ b = a + 1 /\ b <= l /\ l = m /\ m \in Nat
        BY Zenon, <1>2, <2>1, <3>1
      <4> HIDE DEF a, b, l
      <4>2. b \in 1..l /\ b - 1 = a
        BY ONLY <4>1, SMT
      <4> QED  BY Zenon, <4>2 DEF a, b, l
    <3>3. Q[at[i]] = <<T[at[i]]>>
      BY Zenon, <2>1, <3>2 DEF T
    <3>4. T[at[i]] = v[i]
      BY Zenon, <3>1
    <3> QED  BY Zenon, <2>1, <3>1, <3>3, <3>4
  <2>3. CASE v[i] \in DOMAIN change
    <3>1. /\ at[i] = at[i - 1] + 2 /\ T[at[i - 1] + 1] = change[v[i]][1]
          /\ T[at[i - 1] + 2] = change[v[i]][2] /\ change[v[i]][1] \in Signs
      BY Zenon, <1>6, <2>3
    <3>2. /\ at[i] \in 1..Len(Q) /\ at[i] - 1 \in 1..(Len(Q) - 1) /\ at[i] - 1 \in 0..m
          /\ at[i] - 1 = at[i - 1] + 1 /\ at[i] - 1 > 0 /\ (at[i] - 1) - 1 = at[i - 1]
      <4> DEFINE a == at[i - 1]
                 b == at[i]
                 l == Len(Q)
      <4>1. a \in Nat /\ b \in Nat /\ b = a + 2 /\ b <= l /\ l = m /\ m \in Nat
        BY Zenon, <1>2, <2>1, <3>1
      <4> HIDE DEF a, b, l
      <4>2. /\ b \in 1..l /\ b - 1 \in 1..(l - 1) /\ b - 1 \in 0..m
            /\ b - 1 = a + 1 /\ b - 1 > 0 /\ (b - 1) - 1 = a
        BY ONLY <4>1, SMT
      <4> QED  BY Zenon, <4>2 DEF a, b, l
    <3>3. e[at[i] - 1]
      BY Zenon, <1>5, <2>1, <3>1, <3>2
    <3>4. Q[at[i] - 1] = <<>>
      BY Zenon, <3>2, <3>3
    <3>5. T[at[i] - 1] = change[v[i]][1] /\ T[at[i]] = change[v[i]][2]
      BY Zenon, <3>1, <3>2
    <3>6. Q[at[i]] = <<v[i]>>
      BY Zenon, <2>1, <2>3, <3>2, <3>3, <3>5 DEF T
    <3> QED  BY Zenon, <2>1, <3>1, <3>4, <3>6
  <2> QED  BY <2>2, <2>3
<1>9. at \in [0..Len(v) -> Nat] /\ at[0] = 0 /\ at[Len(v)] = Len(Q)
  BY Zenon, <1>4 DEF n, m, T
<1> QED  BY <1>8, <1>9, ReadBack DEF n

\* The backslashes that escape are marked.
LEMMA EscapingIs ==
  ASSUME NEW s, Len(s) \in Nat
  PROVE  Marked(s, {"\\"}, Escaping(s))
<1> DEFINE n == Len(s)
           S == {i \in 0..n : s[i] = "\\"}
           Is(f) == f = [i \in 0..n |-> i > 0 /\ s[i] = "\\" /\ ~f[i - 1]]
<1>1. PICK f \in [0..n -> BOOLEAN] : \A i \in 0..n : f[i] = (i > 0 /\ i \in S /\ ~f[i - 1])
  BY MarksExist
<1>2. \A i \in 0..n : f[i] = (i > 0 /\ s[i] = "\\" /\ ~f[i - 1])
  BY Zenon, <1>1
<1>3. f = [i \in 0..n |-> f[i]]
  BY Zenon, <1>1
<1>4. Is(f)
  BY Zenon, <1>2, <1>3
<1>5. Escaping(s) = CHOOSE g : Is(g)
  BY Zenon DEF Escaping
<1>6. Is(Escaping(s))
  <2> HIDE DEF Is
  <2> QED  BY Zenon, <1>4, <1>5
<1> DEFINE e == Escaping(s)
<1>7. e = [i \in 0..n |-> i > 0 /\ s[i] = "\\" /\ ~e[i - 1]]
  BY Zenon, <1>6
<1> HIDE DEF e
<1>8. \A i \in 0..n : e[i] = (i > 0 /\ s[i] = "\\" /\ ~e[i - 1])
  BY Zenon, <1>7
<1>9. e \in [0..n -> BOOLEAN]
  <2>1. \A i \in 0..n : (i > 0 /\ s[i] = "\\" /\ ~e[i - 1]) \in BOOLEAN
    BY Zenon
  <2> QED  BY Zenon, <1>7, <2>1
<1> QED  BY Zenon, <1>8, <1>9 DEF Marked, e

Signals == {"\\", "'", "n", "r", "t", "0", "Z", "b", "NL", "CR", "TAB", "NUL", "SUB", "BS"}

\* unescape_one_level undoes the level of escapes that the server put in.
LEMMA UnescapeReadsBack ==
  ASSUME NEW E, Signals \subseteq E, NEW v \in Seq(E)
  PROVE  Unescape(Rewrite(v, [t \in {"\\", "'", "NL"} |-> <<"\\", IF t = "NL" THEN "n" ELSE t>>])) = v
<1> DEFINE change == [t \in {"\\", "'", "NL"} |-> <<"\\", IF t = "NL" THEN "n" ELSE t>>]
           T == Rewrite(v, change)
           e == Escaping(T)
           piece(i) == IF e[i] THEN IF i = Len(T) THEN <<"\\">> ELSE <<>>
                       ELSE <<IF e[i - 1] THEN Unescaped(T[i]) ELSE T[i]>>
           Q == [i \in DOMAIN T |-> piece(i)]
<1>1. DOMAIN change = {"\\", "'", "NL"}
  BY Zenon
<1>2. \A t \in DOMAIN change :
         /\ change[t] \in Seq(E) /\ Len(change[t]) = 2 /\ change[t][1] = "\\"
         /\ change[t][2] = IF t = "NL" THEN "n" ELSE t
  <2> TAKE t \in DOMAIN change
  <2> DEFINE u == IF t = "NL" THEN "n" ELSE t
  <2>1. u \in E /\ "\\" \in E
    BY Zenon, <1>1 DEF Signals
  <2>2. change[t] = <<"\\", u>>
    BY Zenon, <1>1
  <2> HIDE DEF u, change
  <2> QED  BY <2>1, <2>2 DEF u
<1>3. Unescape(T) = FlattenSeq(Q)
  BY Zenon DEF Unescape
<1> HIDE DEF change
<1>4. T \in Seq(E)
  BY <1>2, RewritePlaces
<1> HIDE DEF T
<1>5. Marked(T, {"\\"}, e)
  <2>1. Len(T) \in Nat
    BY <1>4
  <2> QED  BY Zenon, <2>1, EscapingIs
<1> HIDE DEF e
<1>6. \A i \in DOMAIN T : piece(i) \in Seq(E)
  <2> TAKE i \in DOMAIN T
  <2>1. T[i] \in E
    BY <1>4
  <2>2. Unescaped(T[i]) \in E
    BY Zenon, <2>1 DEF Unescaped, Signals
  <2>3. "\\" \in E
    BY Zenon DEF Signals
  <2>4. <<>> \in Seq(E) /\ <<T[i]>> \in Seq(E) /\ <<Unescaped(T[i])>> \in Seq(E) /\ <<"\\">> \in Seq(E)
    BY Zenon, <2>1, <2>2, <2>3, FewTokens
  <2> QED  BY Zenon, <2>4
<1>7. Q \in Seq(Seq(E)) /\ Len(Q) = Len(T) /\ \A i \in 1..Len(T) : Q[i] = piece(i)
  <2> HIDE DEF piece
  <2> QED  BY <1>4, <1>6
<1> HIDE DEF Q
<1>8. \A p \in 1..(Len(Q) - 1) : e[p] => Q[p] = <<>>
  <2>1. \A p \in 1..(Len(Q) - 1) : p \in 1..Len(T) /\ p # Len(T)
    BY <1>4, <1>7
  <2> QED  BY Zenon, <1>7, <2>1
<1>9. \A p \in 1..Len(Q), t \in DOMAIN change :
         ~e[p] /\ e[p - 1] /\ T[p - 1] = change[t][1] /\ T[p] = change[t][2] => Q[p] = <<t>>
  <2> TAKE p \in 1..Len(Q), t \in DOMAIN change
  <2> HAVE ~e[p] /\ e[p - 1] /\ T[p - 1] = change[t][1] /\ T[p] = change[t][2]
  <2>1. Q[p] = <<Unescaped(T[p])>>
    BY Zenon, <1>7
  <2>2. T[p] = IF t = "NL" THEN "n" ELSE t
    BY Zenon, <1>2
  <2>3. t = "NL" \/ t = "\\" \/ t = "'"
    BY Zenon, <1>1
  <2>4. Unescaped(T[p]) = t
    BY <2>2, <2>3 DEF Unescaped
  <2> QED  BY Zenon, <2>1, <2>4
<1>10. \A p \in 1..Len(Q) : ~e[p] /\ ~e[p - 1] => Q[p] = <<T[p]>>
  BY Zenon, <1>7
<1>11. FlattenSeq(Q) = v
  <2> DEFINE Signs == {"\\"}
  <2>1. Signs \subseteq DOMAIN change /\ \A t \in DOMAIN change : change[t][1] \in Signs
    BY Zenon, <1>1, <1>2
  <2>2. Marked(T, Signs, e)
    BY Zenon, <1>5
  <2> HIDE DEF Signs, piece
  <2>3. \A t \in DOMAIN change : change[t] \in Seq(E) /\ Len(change[t]) = 2 /\ change[t][1] \in Signs
    BY Zenon, <1>2, <2>1
  <2>4. Q \in Seq(Seq(E)) /\ Len(Q) = Len(T)
    BY Zenon, <1>7
  <2>5. Undoes(E, v, change, Signs, e, Q)
    BY Zenon, <1>8, <1>9, <1>10, <2>1, <2>2, <2>3, <2>4 DEF Undoes, T
  <2> QED  BY Zenon, <2>5, PairsReadBack
<1> QED  BY Zenon, <1>3, <1>11 DEF T, change, Q, e

\* What quote_string_literal puts for a sign.
Quoting == [t \in {"NL", "CR", "NUL", "SUB", "\\", "'"} |->
              IF t = "'" THEN <<"'", "'">>
              ELSE <<"\\", IF t = "\\" THEN t ELSE IF t = "NL" THEN "n" ELSE IF t = "CR" THEN "r"
                           ELSE IF t = "NUL" THEN "0" ELSE "Z">>]
LEMMA QuoteStringIs ==
  ASSUME NEW v
  PROVE  QuoteString(v) = <<"'">> \o Rewrite(v, Quoting) \o <<"'">>
<1> DEFINE code == [NL |-> "n", CR |-> "r", NUL |-> "0", SUB |-> "Z"]
           escaped == [t \in DOMAIN code \cup {"\\", "'"} |->
                         IF t = "'" THEN <<"'", "'">>
                         ELSE <<"\\", IF t = "\\" THEN t ELSE code[t]>>]
<1>1. /\ DOMAIN code = {"NL", "CR", "NUL", "SUB"}
      /\ code["NL"] = "n" /\ code["CR"] = "r" /\ code["NUL"] = "0" /\ code["SUB"] = "Z"
  BY SMT
<1>2. QuoteString(v) = <<"'">> \o Rewrite(v, escaped) \o <<"'">>
  BY Zenon DEF QuoteString
<1>3. DOMAIN escaped = {"NL", "CR", "NUL", "SUB", "\\", "'"}
  <2>1. DOMAIN escaped = DOMAIN code \cup {"\\", "'"}
    BY Zenon
  <2> HIDE DEF escaped, code
  <2> QED  BY <1>1, <2>1
<1>4. \A t \in DOMAIN escaped : escaped[t] = Quoting[t]
  <2> TAKE t \in DOMAIN escaped
  <2>1. t \in {"NL", "CR", "NUL", "SUB", "\\", "'"} /\ t \in DOMAIN code \cup {"\\", "'"}
    BY <1>3
  <2> DEFINE a == IF t = "\\" THEN t ELSE code[t]
             b == IF t = "\\" THEN t ELSE IF t = "NL" THEN "n" ELSE IF t = "CR" THEN "r"
                           ELSE IF t = "NUL" THEN "0" ELSE "Z"
  <2>2. escaped[t] = IF t = "'" THEN <<"'", "'">> ELSE <<"\\", a>>
    BY Zenon, <2>1
  <2>3. Quoting[t] = IF t = "'" THEN <<"'", "'">> ELSE <<"\\", b>>
    BY Zenon, <2>1 DEF Quoting
  <2>4. t # "'" => a = b
    <3> HIDE DEF code
    <3> QED  BY <1>1, <2>1
  <2> HIDE DEF a, b, escaped
  <2> QED  BY <2>2, <2>3, <2>4
<1>5. DOMAIN Quoting = {"NL", "CR", "NUL", "SUB", "\\", "'"}
  BY Zenon DEF Quoting
<1>6. Rewrite(v, escaped) = Rewrite(v, Quoting)
  <2> DEFINE a(i) == IF v[i] \in DOMAIN escaped THEN escaped[v[i]] ELSE <<v[i]>>
             b(i) == IF v[i] \in DOMAIN Quoting THEN Quoting[v[i]] ELSE <<v[i]>>
  <2>1. \A i \in DOMAIN v : a(i) = b(i)
    BY Zenon, <1>3, <1>4, <1>5
  <2>2. Rewrite(v, escaped) = FlattenSeq([i \in DOMAIN v |-> a(i)])
    BY Zenon DEF Rewrite
  <2>3. Rewrite(v, Quoting) = FlattenSeq([i \in DOMAIN v |-> b(i)])
    BY Zenon DEF Rewrite
  <2>4. [i \in DOMAIN v |-> a(i)] = [i \in DOMAIN v |-> b(i)]
    <3> HIDE DEF a, b
    <3> QED  BY Zenon, <2>1
  <2> QED  BY Zenon, <2>2, <2>3, <2>4
<1> QED  BY Zenon, <1>2, <1>6

\* The pair for each sign is two tokens, none of them a line end or such.
LEMMA QuotingIs ==
  ASSUME NEW E, Signals \subseteq E
  PROVE  /\ DOMAIN Quoting = {"NL", "CR", "NUL", "SUB", "\\", "'"}
         /\ \A t \in DOMAIN Quoting :
              /\ Quoting[t] \in Seq(E \ {"NL", "CR", "NUL", "SUB"}) /\ Quoting[t] \in Seq(E)
              /\ Len(Quoting[t]) = 2
              /\ Quoting[t][1] = IF t = "'" THEN "'" ELSE "\\"
              /\ t = "'" => Quoting[t][2] = "'"
              /\ t # "'" => Unescaped(Quoting[t][2]) = t
<1>1. DOMAIN Quoting = {"NL", "CR", "NUL", "SUB", "\\", "'"}
  BY Zenon DEF Quoting
<1>2. ASSUME NEW t \in DOMAIN Quoting
      PROVE  /\ Quoting[t] \in Seq(E \ {"NL", "CR", "NUL", "SUB"}) /\ Quoting[t] \in Seq(E)
             /\ Len(Quoting[t]) = 2
             /\ Quoting[t][1] = IF t = "'" THEN "'" ELSE "\\"
             /\ t = "'" => Quoting[t][2] = "'"
             /\ t # "'" => Unescaped(Quoting[t][2]) = t
  <2> DEFINE b == IF t = "\\" THEN t ELSE IF t = "NL" THEN "n" ELSE IF t = "CR" THEN "r"
                           ELSE IF t = "NUL" THEN "0" ELSE "Z"
             x == IF t = "'" THEN "'" ELSE "\\"
             y == IF t = "'" THEN "'" ELSE b
  <2>1. Quoting[t] = <<x, y>>
    BY Zenon, <1>1 DEF Quoting
  <2>2. x \in Signals /\ y \in Signals
    BY Zenon, <1>1 DEF Signals
  <2>3. x \notin {"NL", "CR", "NUL", "SUB"} /\ y \notin {"NL", "CR", "NUL", "SUB"}
    BY <1>1
  <2>4. t # "'" => Unescaped(y) = t
    <3>0. \A z : Unescaped(z) = IF z = "n" THEN "NL" ELSE IF z = "r" THEN "CR"
                                ELSE IF z = "t" THEN "TAB" ELSE IF z = "0" THEN "NUL"
                                ELSE IF z = "Z" THEN "SUB" ELSE IF z = "b" THEN "BS" ELSE z
      BY DEF Unescaped
    <3> QED  BY <1>1, <3>0
  <2>5. t = "'" => y = "'"
    BY Zenon
  <2> HIDE DEF x, y
  <2>6. /\ <<x, y>> \in Seq(E) /\ <<x, y>> \in Seq(E \ {"NL", "CR", "NUL", "SUB"})
        /\ Len(<<x, y>>) = 2 /\ <<x, y>>[1] = x /\ <<x, y>>[2] = y
    <3>1. x \in E /\ y \in E
      BY <2>2
    <3> DEFINE A == E \ {"NL", "CR", "NUL", "SUB"}
    <3>2. x \in A /\ y \in A
      BY <2>3, <3>1
    <3> HIDE DEF A
    <3>3. /\ <<x, y>> \in Seq(E) /\ <<x, y>> \in Seq(A)
          /\ Len(<<x, y>>) = 2 /\ <<x, y>>[1] = x /\ <<x, y>>[2] = y
      BY ONLY <3>1, <3>2, SMT
    <3> QED  BY Zenon, <3>3 DEF A
  <2> QED  BY Zenon, <2>1, <2>4, <2>5, <2>6 DEF x
<1> QED  BY Zenon, <1>1, <1>2

\* A text in quotes, and what is between them.
LEMMA BetweenQuotes ==
  ASSUME NEW E, NEW q \in E, NEW r \in Seq(E), NEW text, text = <<q>> \o r \o <<q>>
  PROVE  /\ text \in Seq(E) /\ Len(text) > 1 /\ Head(text) = q /\ Last(text) = q
         /\ SubSeq(text, 2, Len(text) - 1) = r
<1>0. \A x, y \in Seq(E) :
        /\ x \o y \in Seq(E) /\ Len(x \o y) = Len(x) + Len(y)
        /\ \A k \in 1..Len(x) : (x \o y)[k] = x[k]
        /\ \A k \in 1..Len(y) : (x \o y)[Len(x) + k] = y[k]
  BY Joins
<1> DEFINE a == <<q>>
           b == a \o r
           n == Len(r)
           body == SubSeq(text, 2, Len(text) - 1)
<1>1. a \in Seq(E) /\ Len(a) = 1 /\ a[1] = q
  OBVIOUS
<1>2. n \in Nat
  OBVIOUS
<1> HIDE DEF a
<1>3. b \in Seq(E) /\ Len(b) = Len(a) + Len(r) /\ (\A k \in 1..Len(a) : b[k] = a[k])
      /\ \A k \in 1..Len(r) : b[Len(a) + k] = r[k]
  BY Zenon, <1>0, <1>1
<1> HIDE DEF b
<1>4. text = b \o a
  BY Zenon DEF a, b
<1>5. text \in Seq(E) /\ Len(text) = Len(b) + Len(a) /\ (\A k \in 1..Len(b) : text[k] = b[k])
      /\ \A k \in 1..Len(a) : text[Len(b) + k] = a[k]
  <2>1. /\ b \o a \in Seq(E) /\ Len(b \o a) = Len(b) + Len(a)
        /\ \A k \in 1..Len(b) : (b \o a)[k] = b[k]
        /\ \A k \in 1..Len(a) : (b \o a)[Len(b) + k] = a[k]
    BY Zenon, <1>0, <1>1, <1>3
  <2> DEFINE t == text
  <2>2. t = b \o a
    BY <1>4
  <2> HIDE DEF t
  <2>3. t \in Seq(E) /\ Len(t) = Len(b) + Len(a) /\ (\A k \in 1..Len(b) : t[k] = b[k])
        /\ \A k \in 1..Len(a) : t[Len(b) + k] = a[k]
    BY ONLY <2>1, <2>2, Zenon
  <2> QED  BY Zenon, <2>3 DEF t
<1>6. Len(b) = n + 1 /\ Len(text) = n + 2
  BY <1>1, <1>2, <1>3, <1>5 DEF n
<1>7. text[1] = q /\ text[n + 2] = q
  BY <1>1, <1>2, <1>3, <1>5, <1>6
<1>8. \A k \in 1..n : text[k + 1] = r[k]
  <2> TAKE k \in 1..n
  <2>1. k + 1 \in 1..Len(b) /\ 1 + k = k + 1
    BY <1>2, <1>6
  <2> QED  BY <1>1, <1>3, <1>5, <2>1
<1>9. Head(text) = q /\ Last(text) = q
  BY <1>2, <1>5, <1>6, <1>7 DEF Last
<1>10. body \in Seq(E) /\ Len(body) = n /\ \A k \in 1..n : body[k] = text[k + 1]
  <2> HIDE DEF n
  <2>0. text \in Seq(E) /\ Len(text) = n + 2 /\ n \in Nat
    BY <1>2, <1>5, <1>6
  <2> QED  BY ONLY <2>0, SMT
<1>11. body = r
  <2> HIDE DEF body, n
  <2>1. \A k \in 1..n : body[k] = r[k]
    BY Zenon, <1>8, <1>10
  <2> QED  BY <1>10, <2>1 DEF n
<1> QED  BY <1>2, <1>5, <1>6, <1>9, <1>11

\* The signs that open a pair in a text between quotes.
Opening(s) == LET opens[i \in 0..Len(s)] == i > 0 /\ ~opens[i - 1] /\ s[i] \in {"\\", "'"} IN opens
LEMMA OpeningIs ==
  ASSUME NEW s, Len(s) \in Nat
  PROVE  Marked(s, {"\\", "'"}, Opening(s))
<1> DEFINE n == Len(s)
           S == {i \in 0..n : s[i] \in {"\\", "'"}}
           Is(f) == f = [i \in 0..n |-> i > 0 /\ ~f[i - 1] /\ s[i] \in {"\\", "'"}]
<1>1. PICK f \in [0..n -> BOOLEAN] : \A i \in 0..n : f[i] = (i > 0 /\ i \in S /\ ~f[i - 1])
  BY MarksExist
<1>2. \A i \in 0..n : f[i] = (i > 0 /\ ~f[i - 1] /\ s[i] \in {"\\", "'"})
  BY Zenon, <1>1
<1>3. f = [i \in 0..n |-> f[i]]
  BY Zenon, <1>1
<1>4. Is(f)
  BY Zenon, <1>2, <1>3
<1>5. Opening(s) = CHOOSE g : Is(g)
  BY Zenon DEF Opening
<1>6. Is(Opening(s))
  <2> HIDE DEF Is
  <2> QED  BY Zenon, <1>4, <1>5
<1> DEFINE e == Opening(s)
<1>7. e = [i \in 0..n |-> i > 0 /\ ~e[i - 1] /\ s[i] \in {"\\", "'"}]
  BY Zenon, <1>6
<1> HIDE DEF e
<1>8. \A i \in 0..n : e[i] = (i > 0 /\ s[i] \in {"\\", "'"} /\ ~e[i - 1])
  BY Zenon, <1>7
<1>9. e \in [0..n -> BOOLEAN]
  <2>1. \A i \in 0..n : (i > 0 /\ ~e[i - 1] /\ s[i] \in {"\\", "'"}) \in BOOLEAN
    BY Zenon
  <2> QED  BY Zenon, <1>7, <2>1
<1> QED  BY Zenon, <1>8, <1>9 DEF Marked, e

\* The string that is quoted is the one that is read.
LEMMA QuoteReadsBack ==
  ASSUME NEW E, Signals \subseteq E, NEW v \in Seq(E)
  PROVE  /\ Len(QuoteString(v)) > 1 /\ Head(QuoteString(v)) = "'" /\ Last(QuoteString(v)) = "'"
         /\ Unquoted(QuoteString(v)) = v
         /\ Range(QuoteString(v)) \cap {"NL", "CR", "NUL", "SUB"} = {}
<1> DEFINE text == QuoteString(v)
           T == Rewrite(v, Quoting)
           e == Opening(T)
           Signs == {"\\", "'"}
           Ends == {"NL", "CR", "NUL", "SUB"}
           A == E \ Ends
           piece(i) == IF e[i] THEN <<>>
                       ELSE IF e[i - 1] /\ T[i - 1] = "\\" THEN <<Unescaped(T[i])>> ELSE <<T[i]>>
           Q == [i \in DOMAIN T |-> piece(i)]
<1>1. /\ DOMAIN Quoting = {"NL", "CR", "NUL", "SUB", "\\", "'"}
      /\ \A t \in DOMAIN Quoting :
           /\ Quoting[t] \in Seq(A) /\ Quoting[t] \in Seq(E) /\ Len(Quoting[t]) = 2
           /\ Quoting[t][1] = IF t = "'" THEN "'" ELSE "\\"
           /\ t = "'" => Quoting[t][2] = "'"
           /\ t # "'" => Unescaped(Quoting[t][2]) = t
  BY Zenon, QuotingIs
<1>2. text = <<"'">> \o T \o <<"'">>
  BY Zenon, QuoteStringIs
<1>3. T \in Seq(A) /\ T \in Seq(E)
  <2>1. Pieces(v, Quoting) \in Seq(Seq(A))
    <3> DEFINE b(i) == IF v[i] \in DOMAIN Quoting THEN Quoting[v[i]] ELSE <<v[i]>>
    <3>1. ASSUME NEW i \in 1..Len(v) PROVE b(i) \in Seq(A)
      <4>1. v[i] \in E
        OBVIOUS
      <4>2. v[i] \notin DOMAIN Quoting => v[i] \in A
        BY Zenon, <1>1, <4>1
      <4>3. v[i] \notin DOMAIN Quoting => <<v[i]>> \in Seq(A)
        <5> HIDE DEF A
        <5> QED  BY Zenon, <4>2, FewTokens
      <4> QED  BY Zenon, <1>1, <4>3
    <3>2. Pieces(v, Quoting) = [i \in 1..Len(v) |-> b(i)]
      <4>1. DOMAIN v = 1..Len(v)
        OBVIOUS
      <4> QED  BY Zenon, <4>1 DEF Pieces
    <3>3. Len(v) \in Nat
      OBVIOUS
    <3> HIDE DEF b, A
    <3> QED  BY <3>1, <3>2, <3>3
  <2>2. T = FlattenSeq(Pieces(v, Quoting))
    BY Zenon DEF Rewrite, Pieces
  <2>3. \E g \in [0..Len(Pieces(v, Quoting)) -> Seq(A)] : T = g[Len(Pieces(v, Quoting))]
    <3> HIDE DEF A, T
    <3> QED  BY <2>1, <2>2, FlattenIs
  <2>4. T \in Seq(A)
    <3> DEFINE P == Pieces(v, Quoting)
    <3>1. Len(P) \in Nat
      BY <2>1
    <3> HIDE DEF P, A, T
    <3>2. PICK g \in [0..Len(P) -> Seq(A)] : T = g[Len(P)]
      BY Zenon, <2>3 DEF P
    <3> QED  BY <3>1, <3>2
  <2>5. \A y \in Seq(A) : y \in Seq(E)
    <3>1. A \subseteq E
      OBVIOUS
    <3> HIDE DEF A
    <3> QED  BY <3>1
  <2> QED  BY Zenon, <2>4, <2>5
<1> HIDE DEF T, A
<1>4. "'" \in A /\ "'" \in E
  <2>1. "'" \in E
    BY DEF Signals
  <2> QED  BY <2>1 DEF A
<1> HIDE DEF text
<1>5. /\ text \in Seq(A) /\ Len(text) > 1 /\ Head(text) = "'" /\ Last(text) = "'"
      /\ SubSeq(text, 2, Len(text) - 1) = T
  <2> DEFINE q == "'"
  <2>1. q \in A /\ T \in Seq(A) /\ text = <<q>> \o T \o <<q>>
    BY Zenon, <1>2, <1>3, <1>4
  <2> HIDE DEF q
  <2>2. /\ text \in Seq(A) /\ Len(text) > 1 /\ Head(text) = q /\ Last(text) = q
        /\ SubSeq(text, 2, Len(text) - 1) = T
    BY ONLY <2>1, BetweenQuotes
  <2> QED  BY Zenon, <2>2 DEF q
<1>6. Range(text) \cap Ends = {}
  <2>1. \A i \in DOMAIN text : text[i] \in A
    BY <1>5
  <2>2. \A i \in DOMAIN text : text[i] \notin Ends
    BY Zenon, <2>1 DEF A
  <2> HIDE DEF Ends
  <2> QED  BY <2>2 DEF Range
<1>7. Unquoted(text) = FlattenSeq(Q)
  <2>1. Unquoted(text) = LET body == SubSeq(text, 2, Len(text) - 1)
                         IN  FlattenSeq([i \in DOMAIN body |->
                               IF Opening(body)[i] THEN <<>>
                               ELSE IF Opening(body)[i - 1] /\ body[i - 1] = "\\" THEN <<Unescaped(body[i])>>
                               ELSE <<body[i]>>])
    BY Zenon DEF Unquoted, Opening
  <2> QED  BY Zenon, <1>5, <2>1
<1>8. Marked(T, Signs, e)
  <2>1. Len(T) \in Nat
    BY <1>3
  <2> QED  BY Zenon, <2>1, OpeningIs
<1> HIDE DEF e
<1>9. \A i \in DOMAIN T : piece(i) \in Seq(E)
  <2> TAKE i \in DOMAIN T
  <2>1. T[i] \in E
    BY <1>3
  <2>2. Unescaped(T[i]) \in E
    BY Zenon, <2>1 DEF Unescaped, Signals
  <2>4. <<>> \in Seq(E) /\ <<T[i]>> \in Seq(E) /\ <<Unescaped(T[i])>> \in Seq(E)
    BY Zenon, <2>1, <2>2, FewTokens
  <2> QED  BY Zenon, <2>4
<1>10. Q \in Seq(Seq(E)) /\ Len(Q) = Len(T) /\ \A i \in 1..Len(T) : Q[i] = piece(i)
  <2> HIDE DEF piece
  <2> QED  BY <1>3, <1>9
<1> HIDE DEF Q
<1>11. \A p \in 1..(Len(Q) - 1) : e[p] => Q[p] = <<>>
  <2>1. \A p \in 1..(Len(Q) - 1) : p \in 1..Len(T)
    BY <1>3, <1>10
  <2> QED  BY Zenon, <1>10, <2>1
<1>12. \A p \in 1..Len(Q), t \in DOMAIN Quoting :
         ~e[p] /\ e[p - 1] /\ T[p - 1] = Quoting[t][1] /\ T[p] = Quoting[t][2] => Q[p] = <<t>>
  <2> TAKE p \in 1..Len(Q), t \in DOMAIN Quoting
  <2> HAVE ~e[p] /\ e[p - 1] /\ T[p - 1] = Quoting[t][1] /\ T[p] = Quoting[t][2]
  <2>1. Q[p] = piece(p)
    BY Zenon, <1>10
  <2>2. CASE t = "'"
    <3>1. T[p - 1] = "'" /\ T[p] = "'"
      BY Zenon, <1>1, <2>2
    <3>2. T[p - 1] # "\\"
      BY <3>1
    <3> QED  BY Zenon, <2>1, <2>2, <3>1, <3>2
  <2>3. CASE t # "'"
    <3>1. T[p - 1] = "\\" /\ Unescaped(T[p]) = t
      BY Zenon, <1>1, <2>3
    <3> QED  BY Zenon, <2>1, <3>1
  <2> QED  BY <2>2, <2>3
<1>13. \A p \in 1..Len(Q) : ~e[p] /\ ~e[p - 1] => Q[p] = <<T[p]>>
  BY Zenon, <1>10
<1>14. FlattenSeq(Q) = v
  <2>1. /\ Signs \subseteq DOMAIN Quoting
        /\ \A t \in DOMAIN Quoting :
             Quoting[t] \in Seq(E) /\ Len(Quoting[t]) = 2 /\ Quoting[t][1] \in Signs
    BY Zenon, <1>1
  <2> HIDE DEF Signs, piece
  <2>4. Q \in Seq(Seq(E)) /\ Len(Q) = Len(T)
    BY Zenon, <1>10
  <2>5. Undoes(E, v, Quoting, Signs, e, Q)
    BY Zenon, <1>8, <1>11, <1>12, <1>13, <2>1, <2>4 DEF Undoes, T
  <2> QED  BY Zenon, <2>5, PairsReadBack
<1> QED  BY Zenon, <1>5, <1>6, <1>7, <1>14 DEF text, Q, e

------------------------------------------------------------------------------
\* A default stands for what it is in the database.

LEMMA DefaultStands ==
  ASSUME NEW d, IsDefault(d), NEW given, given.null = (d.kind = "none"),
         given.generated = (d.kind = "expression"), given.value = Given(d).value
  PROVE  StandsFor(QuoteDefault(given, d.type), d)
<1> DEFINE E == STRING \cup Signals
           v == d.value
<1>0. Signals \subseteq E /\ v \in Seq(E)
  <2>1. STRING \subseteq E /\ Signals \subseteq E /\ v \in Seq(STRING)
    BY DEF IsDefault
  <2> DEFINE W == STRING
  <2>2. W \subseteq E /\ v \in Seq(W)
    BY Zenon, <2>1
  <2> HIDE DEF E, v, W
  <2>3. v \in Seq(E)
    BY ONLY <2>2, SMT
  <2> QED  BY Zenon, <2>1, <2>3
<1> DEFINE change == [t \in {"\\", "'", "NL"} |-> <<"\\", IF t = "NL" THEN "n" ELSE t>>]
<1>1. Given(d).value = IF d.kind = "expression" THEN Rewrite(d.value, change) ELSE d.value
  <2> DEFINE n == d.kind = "none"
             g == d.kind = "expression"
             w == IF d.kind = "expression" THEN Rewrite(d.value, change) ELSE d.value
  <2>1. Given(d) = [null |-> n, generated |-> g, value |-> w]
    BY Zenon DEF Given
  <2> HIDE DEF n, g, w
  <2>2. Given(d).value = w
    BY <2>1
  <2> QED  BY Zenon, <2>2 DEF w
<1>2. Unescape(Rewrite(v, change)) = v
  <2> HIDE DEF E, v
  <2> QED  BY Zenon, <1>0, UnescapeReadsBack
<1>3. /\ Len(QuoteString(v)) > 1 /\ Head(QuoteString(v)) = "'" /\ Last(QuoteString(v)) = "'"
      /\ Unquoted(QuoteString(v)) = v
      /\ Range(QuoteString(v)) \cap {"NL", "CR", "NUL", "SUB"} = {}
  <2> HIDE DEF E, v
  <2> QED  BY Zenon, <1>0, QuoteReadsBack
<1> HIDE DEF change, E
<1>4. d.kind \in {"none", "string", "plain", "expression"}
  BY DEF IsDefault
<1>5. CASE d.kind = "none"
  <2>1. QuoteDefault(given, d.type) = NoDefault
    BY Zenon, <1>5 DEF QuoteDefault
  <2> QED  BY Zenon, <1>5, <2>1 DEF StandsFor
<1>6. CASE d.kind = "expression"
  <2>1. d.kind # "none" /\ d.kind # "string"
    BY <1>6
  <2>2. QuoteDefault(given, d.type) = d.value
    BY Zenon, <1>1, <1>2, <1>6, <2>1 DEF QuoteDefault
  <2> QED  BY Zenon, <2>1, <2>2 DEF StandsFor
<1>7. CASE d.kind = "plain"
  <2>1. d.kind # "none" /\ d.kind # "string" /\ d.kind # "expression"
    BY <1>7
  <2>2. QuoteDefault(given, d.type) = d.value
    BY Zenon, <1>1, <1>7, <2>1 DEF QuoteDefault, IsDefault
  <2> QED  BY Zenon, <2>1, <2>2 DEF StandsFor
<1>8. CASE d.kind = "string"
  <2>1. d.kind # "none" /\ d.kind # "plain" /\ d.kind # "expression"
    BY <1>8
  <2>2. QuoteDefault(given, d.type) = QuoteString(v)
    BY Zenon, <1>1, <1>8, <2>1 DEF QuoteDefault, IsDefault
  <2> QED  BY Zenon, <1>3, <1>8, <2>1, <2>2 DEF StandsFor
<1> QED  BY Zenon, <1>4, <1>5, <1>6, <1>7, <1>8
------------------------------------------------------------------------------
\* Folds and lists of texts

\* A set of numbers has a greatest.
LEMMA GreatestOf ==
  ASSUME NEW n \in Nat
  PROVE  \A s \in SUBSET (1..n) : s # {} => Max(s) \in s /\ \A y \in s : Max(s) >= y
<1> DEFINE T == {m \in 0..n : \A s \in SUBSET (1..m) : s # {} => \E x \in s : \A y \in s : x >= y}
<1>1. 0 \in T
  <2>1. \A s \in SUBSET (1..0) : s = {}
    OBVIOUS
  <2>2. 0 \in 0..n
    OBVIOUS
  <2> QED  BY Zenon, <2>1, <2>2
<1>2. ASSUME NEW m \in 0..(n - 1), m \in T PROVE m + 1 \in T
  <2>1. ASSUME NEW s \in SUBSET (1..(m + 1)), s # {} PROVE \E x \in s : \A y \in s : x >= y
    <3>1. CASE m + 1 \in s
      BY <3>1
    <3>2. CASE m + 1 \notin s
      <4>1. s \in SUBSET (1..m)
        BY <3>2
      <4> QED  BY Zenon, <1>2, <2>1, <4>1
    <3> QED  BY <3>1, <3>2
  <2>2. m + 1 \in 0..n
    OBVIOUS
  <2> QED  BY Zenon, <2>1, <2>2
<1>3. 0..n \subseteq T
  <2> HIDE DEF T
  <2> QED  BY <1>1, <1>2, InductionUpTo
<1>4. n \in T
  <2> HIDE DEF T
  <2> QED  BY <1>3
<1>5. ASSUME NEW s \in SUBSET (1..n), s # {} PROVE Max(s) \in s /\ \A y \in s : Max(s) >= y
  <2>1. \E x \in s : \A y \in s : x >= y
    BY Zenon, <1>4, <1>5
  <2> QED  BY Zenon, <2>1 DEF Max
<1> QED  BY Zenon, <1>5

\* A fold over a row of things takes one after the other: the sets that it goes
\* through are those of the numbers up to some.
Folding(iter, n, base, step) ==
  iter = [s \in SUBSET (1..n) |-> IF s = {} THEN base ELSE step[<<iter[s \ {Max(s)}], Max(s)>>]]
LEMMA FoldExists ==
  ASSUME NEW A, NEW n \in Nat, NEW base \in A, NEW step \in [A \X (1..n) -> A]
  PROVE  \E iter \in [SUBSET (1..n) -> A] : Folding(iter, n, base, step)
<1> DEFINE Of(f, s) == IF s = {} THEN base ELSE step[<<f[s \ {Max(s)}], Max(s)>>]
           Folds(f, m) == f \in [SUBSET (1..m) -> A] /\ \A s \in SUBSET (1..m) : f[s] = Of(f, s)
           T == {m \in 0..n : \E f : Folds(f, m)}
<1>0. \A s \in SUBSET (1..n) : s # {} => Max(s) \in s /\ \A y \in s : Max(s) >= y
  BY GreatestOf
<1>1. 0 \in T
  <2> DEFINE f == [s \in SUBSET (1..0) |-> base]
  <2>1. \A s \in SUBSET (1..0) : s = {}
    OBVIOUS
  <2>2. f \in [SUBSET (1..0) -> A]
    OBVIOUS
  <2>3. \A s \in SUBSET (1..0) : f[s] = Of(f, s)
    BY Zenon, <2>1
  <2>4. Folds(f, 0)
    BY Zenon, <2>2, <2>3
  <2> HIDE DEF Folds, f
  <2> QED  BY <2>4
<1>2. ASSUME NEW m \in 0..(n - 1), m \in T PROVE m + 1 \in T
  <2>1. PICK f : Folds(f, m)
    BY Zenon, <1>2
  <2> DEFINE old(s) == s \ {m + 1}
             value(s) == IF m + 1 \in s THEN step[<<f[old(s)], m + 1>>] ELSE f[s]
             h == [s \in SUBSET (1..(m + 1)) |-> value(s)]
  <2>2. \A s \in SUBSET (1..(m + 1)) : old(s) \in SUBSET (1..m) /\ (m + 1 \notin s => s \in SUBSET (1..m))
    OBVIOUS
  <2>3. m + 1 \in 1..n
    OBVIOUS
  <2>4. \A s \in SUBSET (1..(m + 1)) : value(s) \in A
    <3> TAKE s \in SUBSET (1..(m + 1))
    <3>1. f[old(s)] \in A /\ (m + 1 \notin s => f[s] \in A)
      BY Zenon, <2>1, <2>2
    <3>2. <<f[old(s)], m + 1>> \in A \X (1..n)
      BY Zenon, <2>3, <3>1
    <3> QED  BY Zenon, <3>1, <3>2
  <2>5. h \in [SUBSET (1..(m + 1)) -> A]
    <3> HIDE DEF value
    <3> QED  BY Zenon, <2>4
  <2>6. \A s \in SUBSET (1..m) : s \in SUBSET (1..(m + 1)) /\ m + 1 \notin s
    OBVIOUS
  <2>7. \A s \in SUBSET (1..m) : h[s] = f[s]
    BY Zenon, <2>6
  <2>8. ASSUME NEW s \in SUBSET (1..(m + 1)) PROVE h[s] = Of(h, s)
    <3>1. CASE m + 1 \in s
      <4>1. s # {} /\ s \in SUBSET (1..n)
        BY <3>1
      <4>2. Max(s) = m + 1
        <5>1. Max(s) \in s /\ Max(s) >= m + 1
          BY Zenon, <1>0, <3>1, <4>1
        <5>2. Max(s) \in 1..(m + 1)
          BY Zenon, <5>1
        <5> DEFINE x == Max(s)
        <5> HIDE DEF x
        <5>3. x \in 1..(m + 1) /\ x >= m + 1 => x = m + 1
          OBVIOUS
        <5> QED  BY Zenon, <5>1, <5>2, <5>3 DEF x
      <4>3. h[s] = step[<<f[old(s)], m + 1>>]
        BY Zenon, <3>1
      <4>4. h[old(s)] = f[old(s)]
        BY Zenon, <2>2, <2>7
      <4> HIDE DEF h
      <4> QED  BY Zenon, <4>1, <4>2, <4>3, <4>4
    <3>2. CASE m + 1 \notin s
      <4>1. s \in SUBSET (1..m) /\ s \ {Max(s)} \in SUBSET (1..m)
        BY Zenon, <2>2, <3>2
      <4>2. h[s] = f[s] /\ h[s \ {Max(s)}] = f[s \ {Max(s)}]
        BY Zenon, <2>7, <4>1
      <4>3. f[s] = Of(f, s)
        BY Zenon, <2>1, <4>1
      <4> HIDE DEF h
      <4> QED  BY Zenon, <4>2, <4>3
    <3> QED  BY Zenon, <3>1, <3>2
  <2> HIDE DEF h
  <2>9. Folds(h, m + 1)
    BY Zenon, <2>5, <2>8
  <2>10. m + 1 \in 0..n
    OBVIOUS
  <2> HIDE DEF Folds
  <2> QED  BY Zenon, <2>9, <2>10
<1>3. 0..n \subseteq T
  <2> HIDE DEF T
  <2> QED  BY <1>1, <1>2, InductionUpTo
<1>4. n \in T
  <2> HIDE DEF T
  <2> QED  BY <1>3
<1>5. PICK f : Folds(f, n)
  BY Zenon, <1>4
<1>6. f = [s \in SUBSET (1..n) |-> f[s]]
  BY Zenon, <1>5
<1>7. Folding(f, n, base, step)
  BY Zenon, <1>5, <1>6 DEF Folding
<1> QED  BY Zenon, <1>5, <1>7

\* The first numbers, as the sets that a fold goes through.
LEMMA FirstNumbers ==
  ASSUME NEW n \in Nat
  PROVE  /\ 1..0 = {} /\ 1..0 \in SUBSET (1..n)
         /\ \A i \in 1..n : /\ 1..i \in SUBSET (1..n) /\ 1..i # {} /\ Max(1..i) = i
                             /\ (1..i) \ {i} = 1..(i - 1)
<1>1. 1..0 = {} /\ 1..0 \in SUBSET (1..n)
  OBVIOUS
<1>2. ASSUME NEW i \in 1..n
      PROVE  1..i \in SUBSET (1..n) /\ 1..i # {} /\ Max(1..i) = i /\ (1..i) \ {i} = 1..(i - 1)
  <2>1. 1..i \in SUBSET (1..n) /\ i \in 1..i /\ (1..i) \ {i} = 1..(i - 1)
    OBVIOUS
  <2>2. Max(1..i) \in 1..i /\ Max(1..i) >= i
    BY Zenon, <2>1, GreatestOf
  <2> DEFINE x == Max(1..i)
  <2> HIDE DEF x
  <2>3. x \in 1..i /\ x >= i => x = i
    OBVIOUS
  <2>4. Max(1..i) = i
    BY Zenon, <2>2, <2>3 DEF x
  <2> QED  BY Zenon, <2>1, <2>4
<1> QED  BY Zenon, <1>1, <1>2

\* A fold takes one thing after the other: g[i] is what the first i make.
Iterates(iter, n, base, step, A) ==
  /\ iter[{}] = base
  /\ \A s \in SUBSET (1..n) :
       s # {} /\ iter[s \ {Max(s)}] \in A => iter[s] = step[<<iter[s \ {Max(s)}], Max(s)>>]
Steps(g, n, base, step, last) ==
  g[0] = base /\ g[n] = last /\ \A i \in 1..n : g[i] = step[<<g[i - 1], i>>]
LEMMA FoldsOn ==
  ASSUME NEW A, NEW n \in Nat, NEW base \in A, NEW step \in [A \X (1..n) -> A], NEW iter,
         Iterates(iter, n, base, step, A)
  PROVE  \E g \in [0..n -> A] : Steps(g, n, base, step, iter[1..n])
<1> USE DEF Iterates
<1> DEFINE g == [i \in 0..n |-> iter[1..i]]
<1>1. 0 \in 0..n /\ n \in 0..n /\ \A i \in 1..n : i \in 0..n /\ i - 1 \in 0..n
  OBVIOUS
<1>2. g[0] = base
  <2>1. g[0] = iter[1..0] /\ 1..0 = {}
    BY Zenon, <1>1, FirstNumbers
  <2> QED  BY Zenon, <2>1
<1>3. g[n] = iter[1..n]
  BY Zenon, <1>1
<1>4. ASSUME NEW i \in 1..n, g[i - 1] \in A PROVE g[i] = step[<<g[i - 1], i>>] /\ g[i] \in A
  <2>1. g[i] = iter[1..i] /\ g[i - 1] = iter[1..(i - 1)]
    BY Zenon, <1>1
  <2>2. 1..i \in SUBSET (1..n) /\ 1..i # {} /\ Max(1..i) = i /\ (1..i) \ {i} = 1..(i - 1)
    BY Zenon, FirstNumbers
  <2> HIDE DEF g
  <2>3. iter[1..i] = step[<<iter[(1..i) \ {Max(1..i)}], Max(1..i)>>]
    BY Zenon, <1>4, <2>1, <2>2
  <2>4. g[i] = step[<<g[i - 1], i>>]
    BY Zenon, <2>1, <2>2, <2>3
  <2>5. <<g[i - 1], i>> \in A \X (1..n)
    BY Zenon, <1>4
  <2> QED  BY Zenon, <2>4, <2>5
<1> DEFINE S == {i \in 0..n : g[i] \in A}
<1>5. 0..n \subseteq S
  <2> HIDE DEF g
  <2>1. 0 \in S
    BY Zenon, <1>1, <1>2
  <2>2. ASSUME NEW i \in 0..(n - 1), i \in S PROVE i + 1 \in S
    <3>1. i + 1 \in 1..n /\ (i + 1) - 1 = i /\ i + 1 \in 0..n
      OBVIOUS
    <3>2. g[(i + 1) - 1] \in A
      BY Zenon, <2>2, <3>1
    <3> QED  BY Zenon, <1>4, <3>1, <3>2
  <2> HIDE DEF S
  <2> QED  BY <2>1, <2>2, InductionUpTo
<1>6. \A i \in 0..n : g[i] \in A
  BY Zenon, <1>5
<1>7. g \in [0..n -> A]
  <2>1. \A i \in 0..n : iter[1..i] \in A
    BY Zenon, <1>6
  <2> QED  BY Zenon, <2>1
<1> HIDE DEF g
<1>8. \A i \in 1..n : g[i] = step[<<g[i - 1], i>>]
  BY Zenon, <1>1, <1>4, <1>6
<1> QED  BY Zenon, <1>2, <1>3, <1>7, <1>8 DEF Steps

\* What the first parts of a list of texts make together.
StartsOf(P, E, g) ==
  /\ g \in [0..Len(P) -> Seq(E)] /\ g[0] = <<>> /\ FlattenSeq(P) = g[Len(P)]
  /\ \A i \in 1..Len(P) : g[i] = g[i - 1] \o P[i]
LEMMA StartsExist ==
  ASSUME NEW E, NEW P \in Seq(Seq(E))
  PROVE  \E g : StartsOf(P, E, g)
<1>1. PICK g \in [0..Len(P) -> Seq(E)] :
        /\ g[0] = <<>> /\ FlattenSeq(P) = g[Len(P)]
        /\ \A i \in 1..Len(P) : g[i] = g[i - 1] \o P[i]
  BY FlattenIs
<1>2. StartsOf(P, E, g)
  BY Zenon, <1>1 DEF StartsOf
<1> QED  BY Zenon, <1>2

BeginAlike(P, Q, m) == m <= Len(P) /\ m <= Len(Q) /\ \A i \in 1..m : P[i] = Q[i]

\* Lists that begin alike make the same at first.
LEMMA StartsAgree ==
  ASSUME NEW E, NEW P, NEW Q, NEW g, NEW h, StartsOf(P, E, g), StartsOf(Q, E, h),
         Len(P) \in Nat, Len(Q) \in Nat, NEW m \in Nat, BeginAlike(P, Q, m)
  PROVE  \A i \in 0..m : g[i] = h[i]
<1> DEFINE S == {i \in 0..m : g[i] = h[i]}
<1> USE DEF BeginAlike
<1>1. 0 \in S
  <2>1. 0 \in 0..m
    OBVIOUS
  <2> QED  BY Zenon, <2>1 DEF StartsOf
<1>2. ASSUME NEW i \in 0..(m - 1), i \in S PROVE i + 1 \in S
  <2>1. i + 1 \in 1..m /\ i + 1 \in 0..m /\ (i + 1) - 1 = i /\ i + 1 \in 1..Len(P) /\ i + 1 \in 1..Len(Q)
    OBVIOUS
  <2>2. g[i + 1] = g[(i + 1) - 1] \o P[i + 1] /\ h[i + 1] = h[(i + 1) - 1] \o Q[i + 1]
    BY Zenon, <2>1 DEF StartsOf
  <2>3. P[i + 1] = Q[i + 1] /\ g[i] = h[i]
    BY Zenon, <1>2, <2>1
  <2>4. g[i + 1] = g[i] \o P[i + 1] /\ h[i + 1] = h[i] \o Q[i + 1]
    BY Zenon, <2>1, <2>2
  <2>5. g[i + 1] = h[i + 1]
    BY Zenon, <2>3, <2>4
  <2> QED  BY Zenon, <2>1, <2>5
<1>3. 0..m \subseteq S
  <2> HIDE DEF S
  <2> QED  BY <1>1, <1>2, InductionUpTo
<1> QED  BY Zenon, <1>3

\* One part more.
LEMMA FlattenLast ==
  ASSUME NEW E, NEW P \in Seq(Seq(E)), NEW Q \in Seq(Seq(E)), Len(P) = Len(Q) + 1,
         \A i \in 1..Len(Q) : P[i] = Q[i]
  PROVE  FlattenSeq(P) = FlattenSeq(Q) \o P[Len(P)]
<1> DEFINE m == Len(Q)
<1>1. m \in Nat /\ Len(P) \in Nat /\ Len(P) = m + 1
  OBVIOUS
<1>2. PICK g : StartsOf(P, E, g)
  BY Zenon, StartsExist
<1>3. PICK h : StartsOf(Q, E, h)
  BY Zenon, StartsExist
<1>4. m \in 0..m /\ m <= Len(P) /\ m <= Len(Q) /\ Len(P) \in 1..Len(P) /\ Len(P) - 1 = m
  <2> DEFINE l == Len(P)
  <2> HIDE DEF m, l
  <2>1. l \in Nat /\ m \in Nat /\ l = m + 1
    BY Zenon, <1>1 DEF l
  <2>2. m \in 0..m /\ m <= l /\ m <= m /\ l \in 1..l /\ l - 1 = m
    BY ONLY <2>1, SMT
  <2> QED  BY Zenon, <2>2 DEF l, m
<1>5. \A i \in 0..m : g[i] = h[i]
  <2>1. Len(P) \in Nat /\ Len(Q) \in Nat /\ m \in Nat /\ BeginAlike(P, Q, m)
    BY Zenon, <1>1, <1>4 DEF BeginAlike
  <2> HIDE DEF m
  <2> QED  BY ONLY <1>2, <1>3, <2>1, StartsAgree
<1>6. g[Len(P)] = g[Len(P) - 1] \o P[Len(P)] /\ FlattenSeq(P) = g[Len(P)] /\ FlattenSeq(Q) = h[Len(Q)]
  BY Zenon, <1>2, <1>3, <1>4 DEF StartsOf
<1> QED  BY Zenon, <1>4, <1>5, <1>6

\* A set of numbers has a least.
LEMMA LeastOf ==
  ASSUME NEW S, S \subseteq Nat, S # {}
  PROVE  \E m \in S : \A x \in S : m <= x
<1> DEFINE less == {ss \in Nat \X Nat : ss[1] < ss[2]}
<1>1. IsWellFoundedOn(less, Nat)
  BY NatLessThanWellFounded DEF OpToRel
<1>2. PICK m \in S : \A x \in S : ~(<<x, m>> \in less)
  <2> HIDE DEF less
  <2> QED  BY <1>1, WFMin
<1>3. ASSUME NEW x \in S PROVE m <= x
  <2>1. m \in Nat /\ x \in Nat
    OBVIOUS
  <2>2. <<x, m>> \in Nat \X Nat /\ <<x, m>>[1] = x /\ <<x, m>>[2] = m
    BY <2>1
  <2>3. ~(x < m)
    BY <1>2, <2>2
  <2> QED  BY <2>1, <2>3
<1> QED  BY <1>3

\* The part of a list that its place p lies in, if no part is empty and part k
\* ends at at[k].
Ends(at, n, N) ==
  at \in [0..N -> 0..n] /\ at[0] = 0 /\ at[N] = n /\ \A k \in 1..N : at[k - 1] < at[k]
InParts(b, at, n, N) ==
  /\ b \in [0..n -> 0..N] /\ b[0] = 0 /\ b[n] = N
  /\ \A p \in 1..n : b[p] \in 1..N /\ at[b[p] - 1] < p /\ p <= at[b[p]]
  /\ \A p \in 1..n : b[p] = b[p - 1] \/ b[p] = b[p - 1] + 1
LEMMA PartsExist ==
  ASSUME NEW n \in Nat, NEW N \in Nat, NEW at, Ends(at, n, N)
  PROVE  \E b : InParts(b, at, n, N)
<1> DEFINE Least(p, k) == k \in 0..N /\ p <= at[k] /\ \A j \in 0..N : p <= at[j] => k <= j
           b == [p \in 0..n |-> CHOOSE k : Least(p, k)]
<1>0. /\ at \in [0..N -> 0..n] /\ at[0] = 0 /\ at[N] = n /\ \A k \in 1..N : at[k - 1] < at[k]
  BY Zenon DEF Ends
<1>1. 0 \in 0..n /\ n \in 0..n /\ 0 \in 0..N /\ N \in 0..N
  OBVIOUS
<1>2. ASSUME NEW p \in 0..n PROVE Least(p, b[p])
  <2> DEFINE S == {k \in 0..N : p <= at[k]}
  <2>1. N \in S /\ S \subseteq Nat
    BY <1>0, <1>1
  <2>2. PICK k \in S : \A x \in S : k <= x
    <3> HIDE DEF S
    <3> QED  BY <2>1, LeastOf
  <2>3. Least(p, k)
    BY Zenon, <2>2
  <2> HIDE DEF Least
  <2> QED  BY Zenon, <2>3
<1>3. \A p \in 0..n : b[p] \in 0..N /\ p <= at[b[p]] /\ \A j \in 0..N : p <= at[j] => b[p] <= j
  <2> HIDE DEF b
  <2> QED  BY Zenon, <1>2
<1>4. b \in [0..n -> 0..N]
  <2> DEFINE c(p) == CHOOSE k : Least(p, k)
  <2>1. \A p \in 0..n : c(p) \in 0..N
    BY Zenon, <1>3
  <2> HIDE DEF c, Least
  <2>2. [p \in 0..n |-> c(p)] \in [0..n -> 0..N]
    BY Zenon, <2>1
  <2> QED  BY Zenon, <2>2 DEF c
<1> HIDE DEF b, Least
<1>5. b[0] = 0
  <2>1. 0 <= at[0] /\ b[0] \in 0..N
    BY <1>0, <1>1, <1>3
  <2>2. b[0] <= 0
    BY Zenon, <1>1, <1>3, <2>1
  <2> QED  BY ONLY <2>1, <2>2, SMT
<1>6. b[n] = N
  <2> DEFINE k == b[n]
  <2>1. k \in 0..N /\ n <= at[k] /\ at[k] \in 0..n
    BY Zenon, <1>0, <1>1, <1>3
  <2> HIDE DEF k
  <2>2. SUFFICES ASSUME k # N PROVE FALSE
    BY Zenon DEF k
  <2>3. k + 1 \in 1..N /\ (k + 1) - 1 = k
    BY <2>1, <2>2
  <2>4. at[(k + 1) - 1] < at[k + 1] /\ at[k + 1] \in 0..n
    <3>1. k + 1 \in 0..N
      BY ONLY <2>3, SMT
    <3> QED  BY Zenon, <1>0, <2>3, <3>1
  <2>5. at[k] < at[k + 1]
    BY Zenon, <2>3, <2>4
  <2> DEFINE x == at[k]
             y == at[k + 1]
  <2> HIDE DEF x, y
  <2>6. x \in 0..n /\ y \in 0..n /\ n <= x /\ x < y
    BY Zenon, <2>1, <2>4, <2>5 DEF x, y
  <2> QED  BY ONLY <2>6, SMT
<1>7. ASSUME NEW p \in 1..n
      PROVE  /\ b[p] \in 1..N /\ at[b[p] - 1] < p /\ p <= at[b[p]]
             /\ b[p] = b[p - 1] \/ b[p] = b[p - 1] + 1
  <2> DEFINE k == b[p]
             l == b[p - 1]
  <2>1. p \in 0..n /\ p - 1 \in 0..n /\ ~(p <= 0)
    OBVIOUS
  <2>2. k \in 0..N /\ p <= at[k] /\ \A j \in 0..N : p <= at[j] => k <= j
    BY Zenon, <1>3, <2>1
  <2>3. l \in 0..N /\ p - 1 <= at[l] /\ \A j \in 0..N : p - 1 <= at[j] => l <= j
    BY Zenon, <1>3, <2>1
  <2> HIDE DEF k, l
  <2>4. k # 0
    BY Zenon, <1>0, <2>1, <2>2
  <2>5. k \in 1..N /\ k - 1 \in 0..N /\ ~(k <= k - 1)
    BY ONLY <2>2, <2>4, SMT
  <2>6. at[k - 1] < p
    <3>1. ~(p <= at[k - 1])
      BY Zenon, <2>2, <2>5
    <3> DEFINE x == at[k - 1]
    <3>2. x \in 0..n
      BY Zenon, <1>0, <2>5
    <3> HIDE DEF x
    <3>3. ~(p <= x)
      BY Zenon, <3>1 DEF x
    <3>4. x < p
      BY ONLY <3>2, <3>3, p \in 1..n, SMT
    <3> QED  BY Zenon, <3>4 DEF x
  <2>7. l <= k
    <3> DEFINE x == at[k]
    <3>1. x \in 0..n
      BY Zenon, <1>0, <2>2
    <3> HIDE DEF x
    <3>2. p <= x
      BY Zenon, <2>2 DEF x
    <3>3. p - 1 <= x
      BY ONLY <3>1, <3>2, p \in 1..n, SMT
    <3> QED  BY Zenon, <2>2, <2>3, <3>3 DEF x
  <2>8. k <= l + 1
    <3>1. CASE l = N
      BY ONLY <2>2, <3>1, SMT
    <3>2. CASE l # N
      <4>1. l + 1 \in 1..N /\ (l + 1) - 1 = l /\ l + 1 \in 0..N
        BY ONLY <2>3, <3>2, SMT
      <4>2. at[(l + 1) - 1] < at[l + 1]
        BY Zenon, <1>0, <4>1
      <4> DEFINE x == at[l]
                 y == at[l + 1]
      <4>3. x \in 0..n /\ y \in 0..n /\ x < y /\ p - 1 <= x
        BY Zenon, <1>0, <2>3, <4>1, <4>2
      <4> HIDE DEF x, y
      <4>4. p <= y
        BY ONLY <4>3, p \in 1..n, SMT
      <4> QED  BY Zenon, <2>2, <4>1, <4>4 DEF y
    <3> QED  BY Zenon, <3>1, <3>2
  <2>9. k = l \/ k = l + 1
    BY ONLY <2>2, <2>3, <2>7, <2>8, SMT
  <2> QED  BY Zenon, <2>2, <2>5, <2>6, <2>9 DEF k, l
<1>8. InParts(b, at, n, N)
  BY Zenon, <1>4, <1>5, <1>6, <1>7 DEF InParts
<1> QED  BY Zenon, <1>8

\* Later parts end later.
LEMMA EndsRise ==
  ASSUME NEW n \in Nat, NEW N \in Nat, NEW at, Ends(at, n, N)
  PROVE  \A j, k \in 0..N : j <= k => at[j] <= at[k]
<1>0. /\ at \in [0..N -> 0..n] /\ \A k \in 1..N : at[k - 1] < at[k]
  BY Zenon DEF Ends
<1> DEFINE T == {k \in 0..N : \A j \in 0..k : at[j] <= at[k]}
<1>1. 0 \in T
  <2>1. \A j \in 0..0 : j = 0
    OBVIOUS
  <2>2. 0 \in 0..N /\ at[0] <= at[0]
    BY <1>0
  <2> QED  BY Zenon, <2>1, <2>2
<1>2. ASSUME NEW k \in 0..(N - 1), k \in T PROVE k + 1 \in T
  <2>1. k + 1 \in 1..N /\ (k + 1) - 1 = k /\ k + 1 \in 0..N /\ k \in 0..N
    OBVIOUS
  <2>2. at[(k + 1) - 1] < at[k + 1]
    BY Zenon, <1>0, <2>1
  <2>3. at[k] < at[k + 1]
    BY Zenon, <2>1, <2>2
  <2>4. ASSUME NEW j \in 0..(k + 1) PROVE at[j] <= at[k + 1]
    <3> DEFINE x == at[j]
               y == at[k]
               z == at[k + 1]
    <3>1. j \in 0..N /\ (j \in 0..k \/ j = k + 1)
      OBVIOUS
    <3>2. x \in 0..n /\ y \in 0..n /\ z \in 0..n
      BY Zenon, <1>0, <2>1, <3>1
    <3>3. CASE j \in 0..k
      <4>1. x <= y
        BY Zenon, <1>2, <3>3
      <4>2. y < z
        BY Zenon, <2>3
      <4> HIDE DEF x, y, z
      <4>3. x <= z
        BY ONLY <3>2, <4>1, <4>2, SMT
      <4> QED  BY Zenon, <4>3 DEF x, z
    <3>4. CASE j = k + 1
      <4>1. z <= z
        <5> HIDE DEF z
        <5> QED  BY ONLY <3>2, SMT
      <4> QED  BY Zenon, <3>4, <4>1
    <3> QED  BY Zenon, <3>1, <3>3, <3>4
  <2> QED  BY Zenon, <2>1, <2>4
<1>3. 0..N \subseteq T
  <2> HIDE DEF T
  <2> QED  BY <1>1, <1>2, InductionUpTo
<1> QED
  <2> TAKE j, k \in 0..N
  <2> HAVE j <= k
  <2>1. j \in 0..k
    OBVIOUS
  <2> QED  BY Zenon, <1>3, <2>1

\* Place p lies in part e or before or behind it.
LEMMA OtherPart ==
  ASSUME NEW n \in Nat, NEW N \in Nat, NEW at, Ends(at, n, N), NEW b, InParts(b, at, n, N),
         NEW p \in 1..n, NEW e \in 1..N, b[p] # e
  PROVE  p <= at[e - 1] \/ at[e] <= p - 1
<1> DEFINE k == b[p]
<1>1. k \in 1..N /\ at[k - 1] < p /\ p <= at[k]
  BY Zenon DEF InParts
<1>2. at \in [0..N -> 0..n]
  BY Zenon DEF Ends
<1>3. \A i, j \in 0..N : i <= j => at[i] <= at[j]
  BY Zenon, EndsRise
<1> HIDE DEF k
<1>4. k # e /\ k \in 0..N /\ k - 1 \in 0..N /\ e \in 0..N /\ e - 1 \in 0..N
  <2>1. k # e
    BY Zenon DEF k
  <2> QED  BY <1>1, <2>1
<1>5. CASE k <= e - 1
  <2>1. at[k] <= at[e - 1]
    BY Zenon, <1>3, <1>4, <1>5
  <2> DEFINE x == at[k]
             y == at[e - 1]
  <2>2. x \in 0..n /\ y \in 0..n /\ p <= x /\ x <= y
    BY Zenon, <1>1, <1>2, <1>4, <2>1
  <2> HIDE DEF x, y
  <2>3. p <= y
    BY ONLY <2>2, p \in 1..n, SMT
  <2> QED  BY Zenon, <2>3 DEF y
<1>6. CASE e <= k - 1
  <2>1. at[e] <= at[k - 1]
    BY Zenon, <1>3, <1>4, <1>6
  <2> DEFINE x == at[e]
             y == at[k - 1]
  <2>2. x \in 0..n /\ y \in 0..n /\ y < p /\ x <= y
    BY Zenon, <1>1, <1>2, <1>4, <2>1
  <2> HIDE DEF x, y
  <2>3. x <= p - 1
    BY ONLY <2>2, p \in 1..n, SMT
  <2> QED  BY Zenon, <2>3 DEF x
<1> QED  BY <1>1, <1>4, <1>5, <1>6

==============================================================================
