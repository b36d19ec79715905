------------------------------ MODULE Induction ------------------------------
(***************************************************************************)
(* Least and greatest numbers of a set, induction over the naturals, and   *)
(* what FlattenSeq of SequencesExt and Replace of Texts compute.           *)
(***************************************************************************)
EXTENDS Texts, SequenceTheorems, FiniteSetTheorems, WellFoundedInduction, TLAPS

\* A set of naturals with a member has a least one.
LEMMA LeastExists ==
  ASSUME NEW S \in SUBSET Nat, S # {}
  PROVE  \E x \in S : \A y \in S : x <= y
<1>1. PICK x \in S : \A y \in S : ~ (<<y, x>> \in OpToRel(<, Nat))
  BY NatLessThanWellFounded, WFMin
<1>2. ASSUME NEW y \in S
      PROVE  x <= y
  <2>1. <<y, x>> \notin OpToRel(<, Nat)
    BY <1>1
  <2>2. ~ (y < x)
    BY <2>1 DEF OpToRel
  <2> QED
    BY <2>2
<1> QED
  BY <1>2

\* The greatest number of a bounded set is a member that none exceeds.
LEMMA MaxIsGreatest ==
  ASSUME NEW n \in Nat, NEW S \in SUBSET (0..n), S # {}
  PROVE  Max(S) \in S /\ \A y \in S : Max(S) >= y
<1> DEFINE T == {n - x : x \in S}
<1>a. ASSUME NEW x \in S
      PROVE  n - x \in Nat
  OBVIOUS
<1>1. T \in SUBSET Nat /\ T # {}
  BY <1>a
<1>2. PICK t \in T : \A y \in T : t <= y
  BY <1>1, LeastExists
<1>3. PICK x \in S : t = n - x
  BY <1>2
<1>4. ASSUME NEW y \in S
      PROVE  x >= y
  <2>1. n - y \in T
    OBVIOUS
  <2>2. n - x <= n - y
    BY <2>1, <1>2, <1>3
  <2> QED
    BY <2>2
<1> QED
  BY <1>4 DEF Max

\* The least number of a set of naturals is a member that exceeds none.
LEMMA MinIsLeast ==
  ASSUME NEW S \in SUBSET Nat, S # {}
  PROVE  Min(S) \in S /\ \A y \in S : Min(S) <= y
BY LeastExists DEF Min

-----------------------------------------------------------------------------
(* Induction.  The set of the numbers that have a property stands for the  *)
(* property.                                                               *)

\* What 0 has, and each number hands on to the next up to n, n has.
LEMMA InductUpTo ==
  ASSUME NEW n \in Nat, NEW S, 0 \in S, \A k \in 0..n - 1 : k \in S => k + 1 \in S
  PROVE  \A k \in 0..n : k \in S
<1> SUFFICES ASSUME NEW k \in 0..n, k \notin S PROVE FALSE
  OBVIOUS
<1> DEFINE T == {i \in 0..n : i \notin S}
<1>1. T \in SUBSET Nat /\ T # {}
  OBVIOUS
<1>2. PICK x \in T : \A y \in T : x <= y
  BY <1>1, LeastExists
<1>3. x - 1 \in 0..n - 1 /\ (x - 1) + 1 = x
  BY <1>2
<1>4. x - 1 \notin T
  BY <1>2, <1>3
<1> QED
  BY <1>2, <1>3, <1>4

\* What 0 has, and each number hands on to the next, every natural has.
LEMMA EveryNatural ==
  ASSUME NEW S, 0 \in S, \A k \in Nat : k \in S => k + 1 \in S
  PROVE  \A n \in Nat : n \in S
<1> SUFFICES ASSUME NEW n \in Nat PROVE n \in S
  OBVIOUS
<1>1. \A k \in 0..n : k \in S
  BY InductUpTo
<1> QED
  BY <1>1

-----------------------------------------------------------------------------
(* FlattenSeq of SequencesExt                                              *)

\* h[k] is the first k members of s, end to end.
Joined(s, h) ==
  /\ h[0] = <<>>
  /\ \A k \in 1..Len(s) : h[k] = h[k - 1] \o s[k]
  /\ FlattenSeq(s) = h[Len(s)]

\* FlattenSeq recurs over the length.
Item(g, s, i) == IF i = 1 THEN s[i] ELSE g[i - 1] \o s[i]

Flattens(g, s, n) == g = [i \in 1..n |-> Item(g, s, i)]

LEMMA FlattenExists ==
  ASSUME NEW s, NEW n \in Nat
  PROVE  \E g : Flattens(g, s, n)
<1> DEFINE S == {k \in 0..n : \E g : Flattens(g, s, k)}
<1>1. 0 \in S
  <2> DEFINE g == [i \in 1..0 |-> s[i]]
  <2>1. Flattens(g, s, 0)
    BY DEF Flattens
  <2> HIDE DEF g
  <2> QED BY <2>1
<1>2. ASSUME NEW k \in 0..n - 1, k \in S PROVE k + 1 \in S
  <2>1. PICK g : Flattens(g, s, k)
    BY <1>2
  <2> DEFINE h == [i \in 1..k + 1 |-> Item(g, s, i)]
  <2>2. ASSUME NEW i \in 1..k PROVE h[i] = g[i]
    <3>1. g[i] = Item(g, s, i)
      BY <2>1 DEF Flattens
    <3> QED BY <3>1
  <2>3. ASSUME NEW i \in 1..k + 1 PROVE h[i] = Item(h, s, i)
    <3>1. CASE i = 1
      BY <3>1 DEF Item
    <3>2. CASE i # 1
      <4>1. i - 1 \in 1..k
        BY <3>2
      <4>2. h[i - 1] = g[i - 1]
        BY <2>2, <4>1
      <4>3. h[i] = Item(g, s, i)
        OBVIOUS
      <4> HIDE DEF h
      <4> QED BY <4>2, <4>3, Zenon DEF Item
    <3> QED BY <3>1, <3>2
  <2>4. h = [i \in 1..k + 1 |-> h[i]]
    OBVIOUS
  <2> HIDE DEF h
  <2>5. Flattens(h, s, k + 1)
    BY <2>3, <2>4 DEF Flattens
  <2>6. k + 1 \in 0..n
    OBVIOUS
  <2> QED BY <2>5, <2>6
<1> HIDE DEF S
<1>3. \A k \in 0..n : k \in S
  BY <1>1, <1>2, InductUpTo
<1> QED BY <1>3 DEF S

LEMMA FlattenJoins ==
  ASSUME NEW T, NEW s \in Seq(Seq(T))
  PROVE  \E h \in [0..Len(s) -> Seq(T)] : Joined(s, h)
<1> DEFINE n == Len(s)
<1>0. n \in Nat /\ \A k \in 1..n : s[k] \in Seq(T)
  BY LenProperties, ElementOfSeq
<1>e. <<>> \in Seq(T)
  BY EmptySeq
<1>1. CASE n = 0
  <2> DEFINE h == [k \in 0..0 |-> <<>>]
  <2>1. s = <<>>
    BY <1>1, EmptySeq
  <2>2. FlattenSeq(s) = s
    BY <2>1 DEF FlattenSeq
  <2>3. h \in [0..n -> Seq(T)] /\ h[0] = <<>>
    BY <1>1, <1>e
  <2> HIDE DEF h
  <2>4. Joined(s, h)
    BY <1>1, <2>1, <2>2, <2>3 DEF Joined
  <2> QED BY <2>3, <2>4
<1>2. CASE n # 0
  <2> DEFINE iter == CHOOSE g : Flattens(g, s, n)
  <2>1. Flattens(iter, s, n)
    BY <1>0, FlattenExists, Zenon
  <2>2. FlattenSeq(s) = iter[n]
    BY <1>2 DEF FlattenSeq, Flattens, Item
  <2> HIDE DEF iter
  <2>a. 1 \in 1..n
    BY <1>0, <1>2
  <2>b. \A i \in 1..n : iter[i] = Item(iter, s, i)
    BY <2>1 DEF Flattens
  <2>3. iter[1] = s[1]
    BY <2>a, <2>b, Zenon DEF Item
  <2>c. \A i \in 1..n : i # 1 => iter[i] = iter[i - 1] \o s[i]
    BY <2>b, Zenon DEF Item
  <2> DEFINE h == [k \in 0..n |-> IF k = 0 THEN <<>> ELSE iter[k]]
  <2>4. h[0] = <<>> /\ \A k \in 1..n : h[k] = iter[k]
    BY <1>0
  <2>7. h = [k \in 0..n |-> h[k]]
    OBVIOUS
  <2> HIDE DEF h
  <2>5. ASSUME NEW k \in 1..n PROVE h[k] = h[k - 1] \o s[k]
    <3>1. CASE k = 1
      <4>1. <<>> \o s[1] = s[1]
        BY <1>0, <2>a, ConcatEmptySeq
      <4>2. k - 1 = 0
        BY <3>1
      <4>3. h[k] = s[1] /\ h[k - 1] = <<>>
        BY <2>a, <2>3, <2>4, <3>1, <4>2
      <4> QED BY <3>1, <4>1, <4>3, Zenon
    <3>2. CASE k # 1
      <4>1. k - 1 \in 1..n
        BY <3>2
      <4>2. iter[k] = iter[k - 1] \o s[k]
        BY <2>c, <3>2
      <4>3. h[k] = iter[k] /\ h[k - 1] = iter[k - 1]
        BY <2>4, <4>1
      <4> QED BY <4>2, <4>3, Zenon
    <3> QED BY <3>1, <3>2
  <2> DEFINE S == {k \in 0..n : h[k] \in Seq(T)}
  <2>f. 0 \in 0..n
    BY <1>0
  <2>g. h[0] \in Seq(T)
    BY <1>e, <2>4, Zenon
  <2>8. 0 \in S
    BY <2>f, <2>g, Zenon
  <2>9. ASSUME NEW k \in 0..n - 1, k \in S PROVE k + 1 \in S
    <3>1. k + 1 \in 1..n /\ (k + 1) - 1 = k /\ k + 1 \in 0..n
      BY <1>0
    <3>2. h[k + 1] = h[k] \o s[k + 1]
      <4>1. h[k + 1] = h[(k + 1) - 1] \o s[k + 1]
        BY <2>5, <3>1, Zenon
      <4> QED BY <3>1, <4>1, Zenon
    <3>3. s[k + 1] \in Seq(T) /\ h[k] \in Seq(T)
      BY <1>0, <2>9, <3>1
    <3>4. h[k] \o s[k + 1] \in Seq(T)
      BY <3>3, ConcatProperties
    <3> QED BY <3>1, <3>2, <3>4
  <2> HIDE DEF S
  <2>10. \A k \in 0..n : k \in S
    BY <1>0, <2>8, <2>9, InductUpTo
  <2>d. \A k \in 0..n : h[k] \in Seq(T)
    BY <2>10 DEF S
  <2>11. h \in [0..n -> Seq(T)]
    BY <2>7, <2>d, Zenon
  <2>e. h[n] = iter[n]
    BY <1>0, <1>2, <2>4
  <2>12. Joined(s, h)
    BY <2>2, <2>4, <2>5, <2>e, Zenon DEF Joined
  <2> QED BY <2>11, <2>12
<1> QED BY <1>1, <1>2

\* What is joined is made of the same things.
LEMMA FlattenTyped ==
  ASSUME NEW T, NEW s \in Seq(Seq(T))
  PROVE  FlattenSeq(s) \in Seq(T)
<1>1. PICK h \in [0..Len(s) -> Seq(T)] : Joined(s, h)
  BY FlattenJoins
<1>2. Len(s) \in 0..Len(s)
  BY LenProperties
<1> QED BY <1>1, <1>2 DEF Joined

\* One member more at the end is that member more at the end.
LEMMA FlattenSnoc ==
  ASSUME NEW T, NEW s \in Seq(Seq(T)), NEW r \in Seq(Seq(T)), Len(r) = Len(s) + 1,
         \A k \in 1..Len(s) : r[k] = s[k]
  PROVE  FlattenSeq(r) = FlattenSeq(s) \o r[Len(r)]
<1> DEFINE n == Len(s)
<1>1. n \in Nat /\ Len(r) = n + 1
  BY LenProperties
<1>2. PICK h \in [0..n -> Seq(T)] : Joined(s, h)
  BY FlattenJoins
<1>3. PICK g \in [0..Len(r) -> Seq(T)] : Joined(r, g)
  BY FlattenJoins
<1> HIDE DEF n
<1> DEFINE S == {k \in 0..n : h[k] = g[k]}
<1>4. 0 \in S
  BY <1>1, <1>2, <1>3 DEF Joined
<1>5. ASSUME NEW k \in 0..n - 1, k \in S PROVE k + 1 \in S
  <2>1. k + 1 \in 1..n /\ k + 1 \in 1..n + 1 /\ (k + 1) - 1 = k /\ k + 1 \in 0..n
    BY <1>1
  <2>2. h[k + 1] = h[(k + 1) - 1] \o s[k + 1]
    BY <1>2, <2>1, Zenon DEF Joined, n
  <2>3. g[k + 1] = g[(k + 1) - 1] \o r[k + 1]
    BY <1>1, <1>3, <2>1, Zenon DEF Joined
  <2>4. r[k + 1] = s[k + 1]
    BY <2>1 DEF n
  <2>5. h[k] = g[k]
    BY <1>5
  <2>6. h[k + 1] = g[k + 1]
    BY <2>1, <2>2, <2>3, <2>4, <2>5, Zenon
  <2> QED BY <2>1, <2>6
<1> HIDE DEF S
<1>6. \A k \in 0..n : k \in S
  BY <1>1, <1>4, <1>5, InductUpTo
<1>7. n \in 0..n /\ n + 1 \in 1..n + 1 /\ (n + 1) - 1 = n
  BY <1>1
<1>8. h[n] = g[n]
  BY <1>6, <1>7 DEF S
<1>9. g[n + 1] = g[(n + 1) - 1] \o r[n + 1]
  BY <1>1, <1>3, <1>7, Zenon DEF Joined
<1>10. FlattenSeq(s) = h[n] /\ FlattenSeq(r) = g[Len(r)]
  BY <1>2, <1>3, Zenon DEF Joined, n
<1> QED BY <1>1, <1>7, <1>8, <1>9, <1>10, Zenon

\* Nothing joined to nothing is nothing.
LEMMA FlattenNothing ==
  ASSUME NEW n \in Nat, NEW s, s = [k \in 1..n |-> <<>>]
  PROVE  FlattenSeq(s) = <<>>
<1>1. <<>> \in Seq({})
  BY EmptySeq
<1>2. s \in [1..n -> Seq({})]
  BY <1>1
<1>3. s \in Seq(Seq({})) /\ Len(s) = n
  BY <1>2, SeqDef
<1>4. FlattenSeq(s) \in Seq({})
  BY <1>3, FlattenTyped
<1> QED BY <1>4

\* Intervals from 1 are equal only if their ends are.
LEMMA SameCount ==
  ASSUME NEW k \in Nat, NEW n \in Nat, NEW D, D = 1..k, D = 1..n
  PROVE  k = n
<1>1. \A i \in Int : i \in 1..k <=> i \in 1..n
  OBVIOUS
<1>2. k >= 1 => k <= n
  BY <1>1
<1>3. n >= 1 => n <= k
  BY <1>1
<1> QED
  BY <1>2, <1>3

\* p, q and r joined in either grouping are the same.
Assoc(p, q, r) == (p \o q) \o r = p \o (q \o r)

\* Joining sequences in any grouping.
LEMMA ConcatAssoc ==
  \A T : \A p, q, r \in Seq(T) : Assoc(p, q, r)
BY ConcatAssociative DEF Assoc

\* Joining is a homomorphism.
LEMMA FlattenConcat ==
  ASSUME NEW T, NEW x \in Seq(Seq(T)), NEW y \in Seq(Seq(T))
  PROVE  FlattenSeq(x \o y) = FlattenSeq(x) \o FlattenSeq(y)
<1> DEFINE a == Len(x)  b == Len(y)  z == x \o y
<1>1. a \in Nat /\ b \in Nat /\ \A k \in 1..b : y[k] \in Seq(T)
  BY LenProperties, ElementOfSeq
<1>2. /\ z \in Seq(Seq(T)) /\ Len(z) = a + b
      /\ \A i \in 1..a + b : z[i] = IF i <= a THEN x[i] ELSE y[i - a]
  BY ConcatProperties
<1>3. PICK f \in [0..a -> Seq(T)] : Joined(x, f)
  BY FlattenJoins
<1>4. PICK g \in [0..b -> Seq(T)] : Joined(y, g)
  BY FlattenJoins
<1>5. PICK h \in [0..Len(z) -> Seq(T)] : Joined(z, h)
  BY <1>2, FlattenJoins
<1> HIDE DEF a, b, z
<1>6. f[0] = <<>> /\ (\A k \in 1..a : f[k] = f[k - 1] \o x[k]) /\ FlattenSeq(x) = f[a]
  BY <1>3, Zenon DEF Joined, a
<1>7. g[0] = <<>> /\ (\A k \in 1..b : g[k] = g[k - 1] \o y[k]) /\ FlattenSeq(y) = g[b]
  BY <1>4, Zenon DEF Joined, b
<1>8. h[0] = <<>> /\ (\A k \in 1..a + b : h[k] = h[k - 1] \o z[k]) /\ FlattenSeq(z) = h[a + b]
  BY <1>2, <1>5, Zenon DEF Joined
<1> DEFINE S == {k \in 0..a : h[k] = f[k]}
           R == {k \in 0..b : h[a + k] = f[a] \o g[k]}
<1>9. \A k \in 0..a : k \in S
  <2>1. 0 \in S
    BY <1>1, <1>6, <1>8
  <2>2. ASSUME NEW k \in 0..a - 1, k \in S
        PROVE  k + 1 \in S
    <3>1. k + 1 \in 1..a /\ k + 1 \in 1..a + b /\ (k + 1) - 1 = k /\ k + 1 \in 0..a /\ k + 1 <= a
      BY <1>1
    <3>2. h[k + 1] = h[(k + 1) - 1] \o z[k + 1] /\ f[k + 1] = f[(k + 1) - 1] \o x[k + 1]
      BY <1>6, <1>8, <3>1, Zenon
    <3>3. z[k + 1] = x[k + 1]
      BY <1>2, <3>1
    <3>4. h[k] = f[k]
      BY <2>2
    <3>5. h[k + 1] = f[k + 1]
      BY <3>1, <3>2, <3>3, <3>4, Zenon
    <3> QED
      BY <3>1, <3>5
  <2> HIDE DEF S
  <2> QED
    BY <1>1, <2>1, <2>2, InductUpTo
<1>10. a \in 0..a /\ h[a] = f[a] /\ f[a] \in Seq(T)
  BY <1>1, <1>9
<1>11. \A k \in 0..b : k \in R
  <2>1. 0 \in R
    <3>1. f[a] \o g[0] = f[a]
      BY <1>7, <1>10, ConcatEmptySeq
    <3>2. a + 0 = a /\ 0 \in 0..b
      BY <1>1
    <3> QED
      BY <1>10, <3>1, <3>2
  <2>2. ASSUME NEW k \in 0..b - 1, k \in R
        PROVE  k + 1 \in R
    <3> DEFINE j == a + (k + 1)
    <3>1. /\ k + 1 \in 1..b /\ k + 1 \in 0..b /\ (k + 1) - 1 = k /\ k \in 0..b
          /\ j \in 1..a + b /\ j - 1 = a + k /\ ~(j <= a) /\ j - a = k + 1
      BY <1>1
    <3> HIDE DEF j
    <3>2. h[j] = h[j - 1] \o z[j] /\ g[k + 1] = g[(k + 1) - 1] \o y[k + 1]
      BY <1>7, <1>8, <3>1, Zenon
    <3>3. z[j] = y[k + 1]
      BY <1>2, <3>1, Zenon
    <3>4. h[a + k] = f[a] \o g[k]
      BY <2>2
    <3>5. h[j] = (f[a] \o g[k]) \o y[k + 1]
      BY <3>1, <3>2, <3>3, <3>4, Zenon
    <3> DEFINE p == f[a]  q == g[k]  r == y[k + 1]
    <3>6. p \in Seq(T) /\ q \in Seq(T) /\ r \in Seq(T)
      BY <1>1, <1>4, <1>10, <3>1
    <3> HIDE DEF p, q, r
    <3>7. (p \o q) \o r = p \o (q \o r)
      <4>1. Assoc(p, q, r)
        BY <3>6, ConcatAssoc, Zenon
      <4> QED
        BY <4>1, Zenon DEF Assoc
    <3>8. h[j] = f[a] \o g[k + 1]
      BY <3>1, <3>2, <3>5, <3>7, Zenon DEF p, q, r
    <3> QED
      BY <3>1, <3>8 DEF j
  <2> HIDE DEF R
  <2> QED
    BY <1>1, <2>1, <2>2, InductUpTo
<1>12. b \in 0..b /\ h[a + b] = f[a] \o g[b]
  BY <1>1, <1>11
<1> QED
  BY <1>6, <1>7, <1>8, <1>12 DEF z

\* One sequence is joined to itself.
LEMMA FlattenOne ==
  ASSUME NEW T, NEW v \in Seq(T)
  PROVE  FlattenSeq(<<v>>) = v
<1>1. <<>> \in Seq(Seq(T)) /\ <<v>> \in Seq(Seq(T)) /\ Len(<<>>) = 0 /\ Len(<<v>>) = 1
      /\ <<v>>[1] = v
  OBVIOUS
<1>2. FlattenSeq(<<>>) = <<>>
  <2>1. <<>> = [k \in 1..0 |-> <<>>]
    OBVIOUS
  <2> QED
    BY <2>1, FlattenNothing
<1>3. \A k \in 1..Len(<<>>) : <<v>>[k] = <<>>[k]
  BY <1>1
<1>4. Len(<<v>>) = Len(<<>>) + 1
  BY <1>1
<1> DEFINE e == <<>>  r == <<v>>
<1>5. FlattenSeq(r) = FlattenSeq(e) \o r[Len(r)]
  <2>1. e \in Seq(Seq(T)) /\ r \in Seq(Seq(T)) /\ Len(r) = Len(e) + 1 /\ \A k \in 1..Len(e) : r[k] = e[k]
    BY <1>1, <1>3
  <2> HIDE DEF e, r
  <2> QED
    BY <2>1, FlattenSnoc
<1>6. <<>> \o v = v
  BY ConcatEmptySeq
<1> QED
  BY <1>1, <1>2, <1>5, <1>6

\* Of what is joined, one member may be told from what is before and after it.
SplitsAt(T, s, k) ==
  \E a, b \in Seq(T) : \A r \in Seq(Seq(T)) :
    (Len(r) = Len(s) /\ \A i \in 1..Len(s) : i # k => r[i] = s[i])
      => FlattenSeq(r) = a \o (r[k] \o b)

LEMMA FlattenSplit ==
  ASSUME NEW T, NEW s \in Seq(Seq(T)), NEW k \in 1..Len(s)
  PROVE  SplitsAt(T, s, k)
<1> DEFINE n == Len(s)  x == SubSeq(s, 1, k - 1)  y == SubSeq(s, k + 1, n)
<1>1. n \in Nat /\ k \in Nat /\ 1 <= k /\ k <= n /\ \A i \in 1..n : s[i] \in Seq(T)
  BY LenProperties, ElementOfSeq
<1>2. x \in Seq(Seq(T)) /\ Len(x) = k - 1 /\ \A j \in 1..k - 1 : x[j] = s[j]
  <2>1. \A j \in 1..k - 1 : s[j] \in Seq(T)
    BY <1>1
  <2>2. /\ x \in Seq(Seq(T)) /\ Len(x) = IF 1 <= k - 1 THEN (k - 1) - 1 + 1 ELSE 0
        /\ \A j \in 1..(k - 1) - 1 + 1 : x[j] = s[1 + j - 1]
    BY <1>1, <2>1, SubSeqProperties, 1 \in Int, k - 1 \in Int
  <2>3. (k - 1) - 1 + 1 = k - 1 /\ \A j \in 1..k - 1 : 1 + j - 1 = j
    BY <1>1
  <2>4. Len(x) = k - 1
    BY <1>1, <2>2
  <2> QED
    BY <2>2, <2>3, <2>4
<1>3. y \in Seq(Seq(T)) /\ Len(y) = n - k /\ \A j \in 1..n - k : y[j] = s[k + j]
  <2> HIDE DEF n
  <2>1. \A j \in k + 1..n : s[j] \in Seq(T)
    BY <1>1
  <2>2. /\ y \in Seq(Seq(T)) /\ Len(y) = IF k + 1 <= n THEN n - (k + 1) + 1 ELSE 0
        /\ \A j \in 1..n - (k + 1) + 1 : y[j] = s[(k + 1) + j - 1]
    BY <1>1, <2>1, SubSeqProperties, k + 1 \in Int, n \in Int
  <2>3. n - (k + 1) + 1 = n - k /\ \A j \in 1..n - k : (k + 1) + j - 1 = k + j
    BY <1>1
  <2>4. Len(y) = n - k
    BY <1>1, <2>2
  <2> QED
    BY <2>2, <2>3, <2>4
<1> DEFINE a == FlattenSeq(x)  b == FlattenSeq(y)
<1>4. a \in Seq(T) /\ b \in Seq(T)
  <2> HIDE DEF x, y
  <2> QED BY <1>2, <1>3, FlattenTyped
<1> HIDE DEF x, y, n
<1>5. ASSUME NEW r \in Seq(Seq(T)), Len(r) = n, \A i \in 1..n : i # k => r[i] = s[i]
      PROVE  FlattenSeq(r) = a \o (r[k] \o b)
  <2> DEFINE v == r[k]  z == <<v>> \o y
  <2>1. v \in Seq(T) /\ DOMAIN r = 1..n
    BY <1>1, <1>5, LenProperties, ElementOfSeq
  <2> HIDE DEF v
  <2>2. <<v>> \in Seq(Seq(T)) /\ Len(<<v>>) = 1 /\ <<v>>[1] = v
    BY <2>1
  <2>3. z \in Seq(Seq(T)) /\ Len(z) = 1 + (n - k)
        /\ \A j \in 1..1 + (n - k) : z[j] = IF j <= 1 THEN v ELSE y[j - 1]
    <3> DEFINE w == <<v>>
    <3>1. w \in Seq(Seq(T)) /\ Len(w) = 1 /\ w[1] = v
      BY <2>2
    <3> HIDE DEF w
    <3>2. w \o y \in Seq(Seq(T)) /\ Len(w \o y) = Len(w) + Len(y)
          /\ \A j \in 1..Len(w) + Len(y) : (w \o y)[j] = IF j <= Len(w) THEN w[j] ELSE y[j - Len(w)]
      BY <1>3, <3>1, ConcatProperties
    <3>3. z = w \o y
      BY DEF w
    <3>4. \A j \in 1..1 + (n - k) : j <= 1 => j = 1
      BY <1>1
    <3> HIDE DEF z
    <3> QED BY <1>1, <1>3, <3>1, <3>2, <3>3, <3>4
  <2> HIDE DEF z
  <2> DEFINE q == x \o z
  <2>4. q \in Seq(Seq(T)) /\ Len(q) = (k - 1) + (1 + (n - k))
        /\ \A j \in 1..(k - 1) + (1 + (n - k)) : q[j] = IF j <= k - 1 THEN x[j] ELSE z[j - (k - 1)]
    BY <1>2, <2>3, ConcatProperties
  <2> HIDE DEF q
  <2>5. (k - 1) + (1 + (n - k)) = n
    BY <1>1
  <2>6. ASSUME NEW j \in 1..n PROVE r[j] = q[j]
    <3>1. CASE j <= k - 1
      <4>1. j \in 1..k - 1 /\ j # k
        BY <1>1, <3>1
      <4> QED BY <1>2, <1>5, <2>4, <2>5, <3>1, <4>1
    <3>2. CASE j = k
      <4>1. ~(j <= k - 1) /\ j - (k - 1) = 1 /\ 1 \in 1..1 + (n - k)
        BY <1>1, <3>2
      <4> QED BY <2>3, <2>4, <2>5, <3>2, <4>1 DEF v
    <3>3. CASE j > k
      <4> DEFINE i == j - (k - 1)
      <4>1. ~(j <= k - 1) /\ i \in 1..1 + (n - k) /\ ~(i <= 1) /\ i - 1 \in 1..n - k /\ k + (i - 1) = j /\ j # k
        BY <1>1, <3>3
      <4>2. q[j] = z[i]
        BY <2>4, <2>5, <4>1
      <4> HIDE DEF i
      <4>3. z[i] = y[i - 1] /\ y[i - 1] = s[j]
        BY <1>3, <2>3, <4>1
      <4> QED BY <1>5, <4>1, <4>2, <4>3
    <3> QED BY <1>1, <3>1, <3>2, <3>3
  <2>7. r = q
    BY <1>5, <2>4, <2>5, <2>6, SeqEqual
  <2>8. FlattenSeq(q) = FlattenSeq(x) \o FlattenSeq(z)
    BY <1>2, <2>3, FlattenConcat DEF q
  <2>9. FlattenSeq(z) = FlattenSeq(<<v>>) \o FlattenSeq(y)
    BY <1>3, <2>2, FlattenConcat DEF z
  <2>10. FlattenSeq(<<v>>) = v
    BY <2>1, FlattenOne
  <2> QED BY <2>7, <2>8, <2>9, <2>10, Zenon DEF v
<1> HIDE DEF a, b
<1> QED BY <1>4, <1>5 DEF n, SplitsAt

\* The elements of a sequence, one by one, are joined to that sequence.
LEMMA FlattenSingles ==
  ASSUME NEW T, NEW t \in Seq(T), NEW s, s = [i \in 1..Len(t) |-> <<t[i]>>]
  PROVE  FlattenSeq(s) = t
<1> DEFINE n == Len(t)
<1>1. n \in Nat /\ \A i \in 1..n : t[i] \in T /\ <<t[i]>> \in Seq(T)
  BY LenProperties, ElementOfSeq
<1>2. s \in [1..n -> Seq(T)]
  BY <1>1
<1>3. s \in Seq(Seq(T)) /\ Len(s) = n
  <2> HIDE DEF n
  <2> QED
    BY <1>1, <1>2, SeqDef
<1>4. PICK h \in [0..n -> Seq(T)] : Joined(s, h)
  BY <1>3, FlattenJoins
<1>5. h[0] = <<>> /\ (\A k \in 1..n : h[k] = h[k - 1] \o s[k]) /\ FlattenSeq(s) = h[n]
  BY <1>3, <1>4 DEF Joined
<1>6. \A k \in 1..n : s[k] = <<t[k]>>
  OBVIOUS
<1> HIDE DEF n
<1> DEFINE G == {k \in 0..n : Len(h[k]) = k /\ \A i \in 1..k : h[k][i] = t[i]}
<1>7. 0 \in G
  BY <1>1, <1>5
<1>8. ASSUME NEW k \in 0..n - 1, k \in G
      PROVE  k + 1 \in G
  <2>1. k + 1 \in 1..n /\ (k + 1) - 1 = k /\ k + 1 \in 0..n /\ k \in 0..n
    BY <1>1
  <2> DEFINE u == h[k]  e == t[k + 1]
  <2>2. u \in Seq(T) /\ e \in T /\ Len(u) = k /\ \A i \in 1..k : u[i] = t[i]
    BY <1>1, <1>8, <2>1
  <2>3. h[k + 1] = u \o <<e>>
    BY <1>5, <1>6, <2>1
  <2> HIDE DEF u
  <2>4. <<e>> \in Seq(T) /\ Len(<<e>>) = 1 /\ <<e>>[1] = e
    BY <2>2
  <2>5. Len(h[k + 1]) = k + 1 /\ \A i \in 1..k + 1 : h[k + 1][i] = IF i <= k THEN u[i] ELSE <<e>>[i - k]
    BY <2>2, <2>3, <2>4, ConcatProperties
  <2>6. ASSUME NEW i \in 1..k + 1
        PROVE  h[k + 1][i] = t[i]
    <3>1. CASE i <= k
      BY <2>2, <2>5, <3>1
    <3>2. CASE ~(i <= k)
      <4>1. i = k + 1 /\ i - k = 1
        BY <3>2
      <4> QED
        BY <2>4, <2>5, <4>1
    <3> QED
      BY <3>1, <3>2
  <2> QED
    BY <2>1, <2>5, <2>6
<1> HIDE DEF G
<1>9. \A k \in 0..n : k \in G
  BY <1>1, <1>7, <1>8, InductUpTo
<1>10. n \in 0..n
  BY <1>1
<1>11. h[n] \in Seq(T) /\ Len(h[n]) = n /\ \A i \in 1..n : h[n][i] = t[i]
  BY <1>9, <1>10 DEF G
<1>12. h[n] = t
  BY <1>11, SeqEqual DEF n
<1> QED
  BY <1>5, <1>12

-----------------------------------------------------------------------------
(* str::replace                                                            *)

\* The atoms of an occurrence.
MatchesAt(t, m, i) ==
  i >= 1 /\ i + Len(m) - 1 <= Len(t) /\ \A j \in 1..Len(m) : t[i + j - 1] = m[j]

LEMMA OccursByAtoms ==
  ASSUME NEW S, NEW T, NEW t \in Seq(S), NEW m \in Seq(T), NEW i \in Nat
  PROVE  Occurs(t, m, i) <=> MatchesAt(t, m, i)
<1> DEFINE e == i + Len(m) - 1
<1>0. Len(m) \in Nat /\ Len(t) \in Nat /\ e \in Int /\ e - i + 1 = Len(m)
  BY LenProperties
<1>1. CASE i >= 1 /\ e <= Len(t)
  <2>1. \A j \in i..e : t[j] \in S
    BY <1>0, <1>1, ElementOfSeq
  <2> DEFINE u == SubSeq(t, i, e)
  <2>2. /\ u \in Seq(S) /\ Len(u) = IF i <= e THEN e - i + 1 ELSE 0
        /\ \A j \in 1..e - i + 1 : u[j] = t[i + j - 1]
    <3> HIDE DEF e
    <3> QED
      BY <1>0, <2>1, SubSeqProperties, i \in Int
  <2>3. Len(u) = Len(m) /\ \A j \in 1..Len(m) : u[j] = t[i + j - 1]
    <3> HIDE DEF u
    <3> QED
      BY <1>0, <2>2
  <2>4. ASSUME \A j \in 1..Len(m) : t[i + j - 1] = m[j]
        PROVE  u = m
    <3>1. u \in Seq(S \cup T) /\ m \in Seq(S \cup T)
      BY <2>2, SeqMonotonic
    <3> HIDE DEF u
    <3> QED
      BY <2>3, <2>4, <3>1, SeqEqual
  <2>5. ASSUME u = m
        PROVE  \A j \in 1..Len(m) : t[i + j - 1] = m[j]
    <3> HIDE DEF u
    <3> QED
      BY <2>3, <2>5
  <2> QED
    BY <1>1, <2>4, <2>5 DEF Occurs, MatchesAt
<1>2. CASE ~(i >= 1 /\ e <= Len(t))
  BY <1>2 DEF Occurs, MatchesAt
<1> QED
  BY <1>1, <1>2

LEMMA OccursAt ==
  ASSUME NEW S, NEW T, NEW t \in Seq(S), NEW m \in Seq(T), NEW i \in Nat
  PROVE  Occurs(t, m, i) <=>
           i >= 1 /\ i + Len(m) - 1 <= Len(t) /\ \A j \in 1..Len(m) : t[i + j - 1] = m[j]
<1>1. Occurs(t, m, i) <=> MatchesAt(t, m, i)
  BY OccursByAtoms
<1> QED
  BY <1>1, Zenon DEF MatchesAt

\* What str::replace makes of one atom.
Piece(t, p, v, i) ==
  IF Occurs(t, p, i) THEN v
  ELSE IF \E j \in i - Len(p) + 1..i - 1 : Occurs(t, p, j) THEN <<>>
  ELSE <<t[i]>>

Cuts(t, p, v) == [i \in 1..Len(t) |-> Piece(t, p, v, i)]

\* Replace is the concatenation of its pieces.
LEMMA ReplacePieces ==
  ASSUME NEW T, NEW t \in Seq(T), NEW p, NEW v \in Seq(T)
  PROVE  /\ Cuts(t, p, v) \in Seq(Seq(T)) /\ Len(Cuts(t, p, v)) = Len(t) /\ Len(t) \in Nat
         /\ \A i \in 1..Len(t) : Cuts(t, p, v)[i] = Piece(t, p, v, i)
         /\ Replace(t, p, v) = FlattenSeq(Cuts(t, p, v))
<1> DEFINE s == Cuts(t, p, v)  n == Len(t)
<1>1. n \in Nat
  BY LenProperties
<1>2. ASSUME NEW i \in 1..n
      PROVE  Piece(t, p, v, i) \in Seq(T)
  <2>1. t[i] \in T
    BY <1>1, ElementOfSeq
  <2>2. <<>> \in Seq(T) /\ <<t[i]>> \in Seq(T)
    BY <2>1
  <2> QED
    BY <2>2, Zenon DEF Piece
<1>3. s = [i \in 1..n |-> Piece(t, p, v, i)]
  BY Zenon DEF Cuts
<1>4. Replace(t, p, v) = FlattenSeq(s)
  BY DEF Replace, Cuts, Piece
<1> HIDE DEF s, n
<1>5. s \in [1..n -> Seq(T)] /\ \A i \in 1..n : s[i] = Piece(t, p, v, i)
  BY <1>2, <1>3
<1>6. s \in Seq(Seq(T))
  BY <1>1, <1>5, SeqDef
<1>7. Len(s) = n
  <2>1. Len(s) \in Nat /\ DOMAIN s = 1..Len(s) /\ DOMAIN s = 1..n
    BY <1>5, <1>6, LenProperties
  <2> QED
    BY <1>1, <2>1, SameCount
<1> QED
  BY <1>1, <1>4, <1>5, <1>6, <1>7 DEF s, n

LEMMA ReplaceTyped ==
  ASSUME NEW T, NEW t \in Seq(T), NEW p, NEW v \in Seq(T)
  PROVE  Replace(t, p, v) \in Seq(T)
<1> DEFINE s == Cuts(t, p, v)
<1>1. s \in Seq(Seq(T)) /\ Replace(t, p, v) = FlattenSeq(s)
  BY ReplacePieces
<1> HIDE DEF s
<1> QED
  BY <1>1, FlattenTyped

\* Where p does not occur nothing is replaced.
LEMMA ReplaceNone ==
  ASSUME NEW T, NEW t \in Seq(T), NEW p, NEW v \in Seq(T), \A i \in Int : ~Occurs(t, p, i), Len(p) \in Nat
  PROVE  Replace(t, p, v) = t
<1> DEFINE s == Cuts(t, p, v)  n == Len(t)
<1>1. n \in Nat /\ Replace(t, p, v) = FlattenSeq(s)
  BY ReplacePieces
<1>2. ASSUME NEW i \in 1..n
      PROVE  Piece(t, p, v, i) = <<t[i]>>
  <2>1. i \in Int /\ \A j \in i - Len(p) + 1..i - 1 : j \in Int
    BY <1>1
  <2> QED
    BY <2>1, Zenon DEF Piece
<1>3. s = [i \in 1..n |-> <<t[i]>>]
  BY <1>2 DEF Cuts
<1>4. FlattenSeq(s) = t
  <2> HIDE DEF s
  <2> QED
    BY <1>3, FlattenSingles
<1> QED
  BY <1>1, <1>4

\* Where p is in two texts one after the other: in the first or in the second,
\* unless it lies across.
LEMMA OccursInJoin ==
  ASSUME NEW T, NEW a \in Seq(T), NEW b \in Seq(T), NEW p \in Seq(T), NEW i \in Int
  PROVE  /\ i + Len(p) - 1 <= Len(a) => (Occurs(a \o b, p, i) <=> Occurs(a, p, i))
         /\ i > Len(a) => (Occurs(a \o b, p, i) <=> Occurs(b, p, i - Len(a)))
<1> DEFINE c == a \o b  n == Len(a)  m == Len(b)  q == Len(p)
<1>1. /\ n \in Nat /\ m \in Nat /\ q \in Nat /\ c \in Seq(T) /\ Len(c) = n + m
      /\ \A j \in 1..n + m : c[j] = IF j <= n THEN a[j] ELSE b[j - n]
  BY ConcatProperties, LenProperties
<1> HIDE DEF c
<1>2. \A k \in Nat : /\ Occurs(a, p, k) <=>
                          k >= 1 /\ k + q - 1 <= n /\ \A j \in 1..q : a[k + j - 1] = p[j]
                     /\ Occurs(b, p, k) <=>
                          k >= 1 /\ k + q - 1 <= m /\ \A j \in 1..q : b[k + j - 1] = p[j]
  <2>1. \A k \in Nat : (Occurs(a, p, k) <=> MatchesAt(a, p, k)) /\ (Occurs(b, p, k) <=> MatchesAt(b, p, k))
    BY OccursByAtoms
  <2> QED
    BY <2>1, Zenon DEF MatchesAt
<1>3. \A k \in Nat : Occurs(c, p, k) <=>
        k >= 1 /\ k + q - 1 <= n + m /\ \A j \in 1..q : c[k + j - 1] = p[j]
  <2>1. \A k \in Nat : Occurs(c, p, k) <=>
          k >= 1 /\ k + q - 1 <= Len(c) /\ \A j \in 1..q : c[k + j - 1] = p[j]
    <3>1. c \in Seq(T)
      BY <1>1
    <3>2. \A k \in Nat : Occurs(c, p, k) <=> MatchesAt(c, p, k)
      BY <3>1, OccursByAtoms
    <3> QED
      BY <3>2, Zenon DEF MatchesAt
  <2> QED
    BY <1>1, <2>1, Zenon
<1>a. \A j \in 1..n : c[j] = a[j]
  BY <1>1
<1>b. \A j \in 1..m : c[n + j] = b[j]
  <2> SUFFICES ASSUME NEW j \in 1..m
               PROVE  c[n + j] = b[j]
    OBVIOUS
  <2>1. n + j \in 1..n + m /\ ~(n + j <= n) /\ (n + j) - n = j
    BY <1>1
  <2> QED
    BY <1>1, <2>1
<1>n. n \in Nat /\ m \in Nat /\ q \in Nat
  BY <1>1
<1>u. ASSUME NEW t, NEW k \in Int, ~(k >= 1)
      PROVE  ~Occurs(t, p, k)
  BY <1>u DEF Occurs
<1> HIDE DEF n, m, q
<1>4. ASSUME i + q - 1 <= n
      PROVE  Occurs(c, p, i) <=> Occurs(a, p, i)
  <2>1. CASE i >= 1
    <3>1. i \in Nat /\ i + q - 1 <= n + m /\ \A j \in 1..q : i + j - 1 \in 1..n
      BY <1>n, <1>4, <2>1
    <3>2. (\A j \in 1..q : c[i + j - 1] = p[j]) <=> (\A j \in 1..q : a[i + j - 1] = p[j])
      BY <1>a, <3>1, Zenon
    <3> QED
      BY <1>2, <1>3, <1>4, <2>1, <3>1, <3>2, Zenon
  <2>2. CASE ~(i >= 1)
    BY <1>u, <2>2, Zenon
  <2> QED
    BY <2>1, <2>2, Zenon
<1>5. ASSUME i > n
      PROVE  Occurs(c, p, i) <=> Occurs(b, p, i - n)
  <2> DEFINE k == i - n
  <2>1. /\ k \in Nat /\ i \in Nat /\ k >= 1 /\ i >= 1 /\ (k + q - 1 <= m <=> i + q - 1 <= n + m)
        /\ \A j \in 1..q : i + j - 1 = n + (k + j - 1)
    BY <1>n, <1>5
  <2>2. \A j \in 1..q : k + q - 1 <= m => k + j - 1 \in 1..m
    BY <1>n, <2>1
  <2> HIDE DEF k
  <2>3. ASSUME k + q - 1 <= m
        PROVE  \A j \in 1..q : c[i + j - 1] = b[k + j - 1]
    BY <1>b, <2>1, <2>2, <2>3, Zenon
  <2>4. Occurs(c, p, i) <=> Occurs(b, p, k)
    BY <1>2, <1>3, <2>1, <2>3, Zenon
  <2> QED
    BY <2>4 DEF k
<1> QED
  BY <1>4, <1>5 DEF c, n, q

\* An occurrence of p begins in a and ends in the text b behind it.
Straddles(a, b, p) ==
  \E i \in 1..Len(a) : i + Len(p) - 1 > Len(a) /\ Occurs(a \o b, p, i)

\* Replacing in one text after another.
LEMMA ReplaceJoin ==
  ASSUME NEW T, NEW a \in Seq(T), NEW b \in Seq(T), NEW p \in Seq(T), NEW v \in Seq(T),
         Len(p) >= 1, ~Straddles(a, b, p)
  PROVE  Replace(a \o b, p, v) = Replace(a, p, v) \o Replace(b, p, v)
<1> DEFINE c == a \o b  n == Len(a)  m == Len(b)  q == Len(p)
           x == Cuts(a, p, v)  y == Cuts(b, p, v)  z == Cuts(c, p, v)
<1>1. /\ n \in Nat /\ m \in Nat /\ q \in Nat /\ q >= 1 /\ c \in Seq(T) /\ Len(c) = n + m
      /\ \A j \in 1..n + m : c[j] = IF j <= n THEN a[j] ELSE b[j - n]
  BY ConcatProperties, LenProperties
<1>2. \A i \in Int : /\ i + q - 1 <= n => (Occurs(c, p, i) <=> Occurs(a, p, i))
                     /\ i > n => (Occurs(c, p, i) <=> Occurs(b, p, i - n))
  BY OccursInJoin
<1>s. \A i \in 1..n : i + q - 1 > n => ~Occurs(c, p, i)
  BY DEF Straddles
<1>o. \A i \in Int : Occurs(a, p, i) => i >= 1 /\ i + q - 1 <= n
  BY DEF Occurs
<1>u. \A i \in Int : /\ Occurs(b, p, i) => i >= 1
                     /\ Occurs(c, p, i) => i >= 1
  BY DEF Occurs
<1> HIDE DEF c
<1>3. /\ x \in Seq(Seq(T)) /\ Len(x) = n /\ Replace(a, p, v) = FlattenSeq(x)
      /\ \A i \in 1..n : x[i] = Piece(a, p, v, i)
  BY ReplacePieces
<1>4. /\ y \in Seq(Seq(T)) /\ Len(y) = m /\ Replace(b, p, v) = FlattenSeq(y)
      /\ \A i \in 1..m : y[i] = Piece(b, p, v, i)
  BY ReplacePieces
<1>5. /\ z \in Seq(Seq(T)) /\ Len(z) = n + m /\ Replace(c, p, v) = FlattenSeq(z)
      /\ \A i \in 1..n + m : z[i] = Piece(c, p, v, i)
  <2>1. /\ z \in Seq(Seq(T)) /\ Len(z) = Len(c) /\ Replace(c, p, v) = FlattenSeq(z)
        /\ \A i \in 1..Len(c) : z[i] = Piece(c, p, v, i)
    BY <1>1, ReplacePieces
  <2> HIDE DEF z
  <2> QED
    BY <1>1, <2>1, Zenon
<1>n. n \in Nat /\ m \in Nat /\ q \in Nat /\ q >= 1 /\ Len(p) = q
  BY <1>1
<1> HIDE DEF x, y, z, n, m, q
\* Occurrences that begin in the first text.
<1>e. ASSUME NEW i \in Int, i <= n
      PROVE  Occurs(c, p, i) <=> Occurs(a, p, i)
  <2>1. CASE i + q - 1 <= n
    BY <1>2, <2>1
  <2>2. CASE ~(i + q - 1 <= n)
    <3>1. ~Occurs(a, p, i)
      BY <1>o, <2>2
    <3>2. ~Occurs(c, p, i)
      <4>1. CASE i >= 1
        <5>1. i \in 1..n /\ i + q - 1 > n
          BY <1>n, <1>e, <2>2, <4>1
        <5> QED
          BY <1>s, <5>1
      <4>2. CASE ~(i >= 1)
        BY <1>u, <4>2
      <4> QED
        BY <4>1, <4>2
    <3> QED
      BY <3>1, <3>2
  <2> QED
    BY <2>1, <2>2
<1>6. ASSUME NEW i \in 1..n
      PROVE  z[i] = x[i]
  <2>1. i \in Int /\ i <= n /\ i \in 1..n + m /\ c[i] = a[i]
    BY <1>1
  <2>2. \A j \in i - Len(p) + 1..i - 1 : j \in Int /\ j <= n
    BY <1>n
  <2>3. Occurs(c, p, i) <=> Occurs(a, p, i)
    BY <1>e, <2>1
  <2>4. (\E j \in i - Len(p) + 1..i - 1 : Occurs(c, p, j)) <=>
          (\E j \in i - Len(p) + 1..i - 1 : Occurs(a, p, j))
    BY <1>e, <2>2, Zenon
  <2>5. Piece(c, p, v, i) = Piece(a, p, v, i)
    BY <2>1, <2>3, <2>4, Zenon DEF Piece
  <2> QED
    BY <1>3, <1>5, <2>1, <2>5, Zenon
<1>7. ASSUME NEW i \in 1..n + m, ~(i <= n)
      PROVE  z[i] = y[i - n]
  <2> DEFINE j == i - n
  <2>1. i \in Int /\ i > n /\ c[i] = b[j] /\ j \in 1..m
    BY <1>1, <1>7
  <2>2. Occurs(c, p, i) <=> Occurs(b, p, j)
    BY <1>2, <2>1
  <2>3. (\E d \in i - Len(p) + 1..i - 1 : Occurs(c, p, d)) <=>
          (\E d \in j - Len(p) + 1..j - 1 : Occurs(b, p, d))
    <3>1. ASSUME NEW d \in i - Len(p) + 1..i - 1, Occurs(c, p, d)
          PROVE  \E e \in j - Len(p) + 1..j - 1 : Occurs(b, p, e)
      <4>1. d \in Int /\ d > n
        <5>1. d \in Int /\ d >= i - q + 1
          BY <1>n
        <5>2. CASE d <= n
          <6>1. Occurs(a, p, d)
            BY <1>e, <3>1, <5>1, <5>2
          <6>2. d + q - 1 <= n
            BY <1>o, <5>1, <6>1
          <6> QED
            BY <1>n, <1>7, <5>1, <6>2
        <5> QED
          BY <1>n, <5>1, <5>2
      <4>2. Occurs(b, p, d - n)
        BY <1>2, <3>1, <4>1
      <4>3. d - n \in j - Len(p) + 1..j - 1
        BY <1>n, <4>1
      <4> QED
        BY <4>2, <4>3
    <3>2. ASSUME NEW e \in j - Len(p) + 1..j - 1, Occurs(b, p, e)
          PROVE  \E d \in i - Len(p) + 1..i - 1 : Occurs(c, p, d)
      <4>1. e \in Int /\ e >= 1
        BY <1>u, <3>2
      <4>2. n + e \in Int /\ n + e > n /\ (n + e) - n = e /\ n + e \in i - Len(p) + 1..i - 1
        BY <1>n, <2>1, <4>1
      <4>3. Occurs(c, p, n + e)
        BY <1>2, <3>2, <4>2
      <4> QED
        BY <4>2, <4>3
    <3> QED
      BY <3>1, <3>2
  <2> HIDE DEF j
  <2>4. Piece(c, p, v, i) = Piece(b, p, v, j)
    BY <2>1, <2>2, <2>3, Zenon DEF Piece
  <2>5. z[i] = y[j]
    BY <1>4, <1>5, <2>1, <2>4, Zenon
  <2> QED
    BY <2>5 DEF j
<1>8. z = x \o y
  <2> DEFINE g == x \o y
  <2>1. /\ g \in Seq(Seq(T)) /\ Len(g) = Len(x) + Len(y)
        /\ \A i \in 1..Len(x) + Len(y) : g[i] = IF i <= Len(x) THEN x[i] ELSE y[i - Len(x)]
    BY <1>3, <1>4, ConcatProperties
  <2> HIDE DEF g
  <2>2. Len(g) = n + m /\ \A i \in 1..n + m : g[i] = IF i <= n THEN x[i] ELSE y[i - n]
    BY <1>3, <1>4, <2>1, Zenon
  <2>3. ASSUME NEW i \in 1..n + m
        PROVE  z[i] = g[i]
    <3>1. CASE i <= n
      <4>1. i \in 1..n
        BY <1>n, <3>1
      <4> QED
        BY <1>6, <2>2, <3>1, <4>1, Zenon
    <3>2. CASE ~(i <= n)
      BY <1>7, <2>2, <3>2, Zenon
    <3> QED
      BY <3>1, <3>2
  <2>4. z = g
    <3>1. Len(z) = Len(g) /\ Len(z) = n + m
      BY <1>5, <2>2, Zenon
    <3>2. \A i \in 1..Len(z) : z[i] = g[i]
      BY <2>3, <3>1, Zenon
    <3> QED
      BY <1>5, <2>1, <3>1, <3>2, SeqEqual, Zenon
  <2> QED
    BY <2>4 DEF g
<1>9. FlattenSeq(x \o y) = FlattenSeq(x) \o FlattenSeq(y)
  BY <1>3, <1>4, FlattenConcat
<1> QED
  BY <1>3, <1>4, <1>5, <1>8, <1>9, Zenon DEF c

\* A placeholder of four atoms in a text.
LEMMA OccursToken ==
  ASSUME NEW T, NEW t \in Seq(T), NEW p \in Seq(T), Len(p) = 4, NEW i \in Int
  PROVE  Occurs(t, p, i) <=>
           /\ i >= 1 /\ i + 3 <= Len(t)
           /\ t[i] = p[1] /\ t[i + 1] = p[2] /\ t[i + 2] = p[3] /\ t[i + 3] = p[4]
<1>0. Len(t) \in Nat
  BY LenProperties
<1>1. CASE i >= 1
  <2>1. i \in Nat
    BY <1>1
  <2>2. Occurs(t, p, i) <=>
          i >= 1 /\ i + Len(p) - 1 <= Len(t) /\ \A j \in 1..Len(p) : t[i + j - 1] = p[j]
    <3>1. Occurs(t, p, i) <=> MatchesAt(t, p, i)
      BY <2>1, OccursByAtoms
    <3> QED
      BY <3>1, Zenon DEF MatchesAt
  <2>3. i + Len(p) - 1 = i + 3 /\ Len(p) = 4
    OBVIOUS
  <2>4. (\A j \in 1..4 : t[i + j - 1] = p[j]) <=>
          t[i] = p[1] /\ t[i + 1] = p[2] /\ t[i + 2] = p[3] /\ t[i + 3] = p[4]
    <3>1. i + 1 - 1 = i /\ i + 2 - 1 = i + 1 /\ i + 3 - 1 = i + 2 /\ i + 4 - 1 = i + 3
      OBVIOUS
    <3>2. \A j \in 1..4 : j = 1 \/ j = 2 \/ j = 3 \/ j = 4
      OBVIOUS
    <3>3. 1 \in 1..4 /\ 2 \in 1..4 /\ 3 \in 1..4 /\ 4 \in 1..4
      OBVIOUS
    <3> QED
      BY <3>1, <3>2, <3>3
  <2> QED
    BY <2>2, <2>3, <2>4
<1>2. CASE ~(i >= 1)
  BY <1>2 DEF Occurs
<1> QED
  BY <1>1, <1>2

\* A placeholder is replaced by its value.
LEMMA ReplaceWhole ==
  ASSUME NEW T, NEW p \in Seq(T), Len(p) = 4, NEW v \in Seq(T)
  PROVE  Replace(p, p, v) = v
<1> DEFINE s == Cuts(p, p, v)  x == <<v>>  y == [k \in 1..3 |-> <<>>]
<1>1. /\ s \in Seq(Seq(T)) /\ Len(s) = 4 /\ Replace(p, p, v) = FlattenSeq(s)
      /\ \A i \in 1..4 : s[i] = Piece(p, p, v, i)
  BY ReplacePieces
<1>2. Occurs(p, p, 1)
  BY OccursToken
<1>3. \A i \in 2..4 : ~Occurs(p, p, i)
  <2> SUFFICES ASSUME NEW i \in 2..4
               PROVE  ~Occurs(p, p, i)
    OBVIOUS
  <2>1. Occurs(p, p, i) => i + Len(p) - 1 <= Len(p)
    BY Zenon DEF Occurs
  <2> QED
    BY <2>1
<1>4. Piece(p, p, v, 1) = v
  BY <1>2, Zenon DEF Piece
<1>5. ASSUME NEW i \in 2..4
      PROVE  Piece(p, p, v, i) = <<>>
  <2>1. 1 \in i - Len(p) + 1..i - 1
    OBVIOUS
  <2> QED
    BY <1>2, <1>3, <2>1, Zenon DEF Piece
<1>6. x \in Seq(Seq(T)) /\ Len(x) = 1 /\ x[1] = v
  OBVIOUS
<1>7. y \in Seq(Seq(T)) /\ Len(y) = 3 /\ \A i \in 1..3 : y[i] = <<>>
  <2>1. <<>> \in Seq(T)
    BY EmptySeq
  <2>2. y \in [1..3 -> Seq(T)] /\ \A i \in 1..3 : y[i] = <<>>
    BY <2>1
  <2>3. y \in Seq(Seq(T))
    BY <2>2, SeqDef
  <2>4. Len(y) \in Nat /\ DOMAIN y = 1..Len(y) /\ DOMAIN y = 1..3
    BY <2>2, <2>3, LenProperties
  <2> HIDE DEF y
  <2>5. Len(y) = 3
    <3>1. 3 \in Nat
      OBVIOUS
    <3> QED
      BY <2>4, <3>1, SameCount
  <2> QED
    BY <2>2, <2>3, <2>5
<1>f. FlattenSeq(x) = v /\ FlattenSeq(y) = <<>>
  BY FlattenOne, FlattenNothing
<1> HIDE DEF s, x, y
<1>8. s = x \o y
  <2> DEFINE g == x \o y
  <2>1. /\ g \in Seq(Seq(T)) /\ Len(g) = Len(x) + Len(y)
        /\ \A i \in 1..Len(x) + Len(y) : g[i] = IF i <= Len(x) THEN x[i] ELSE y[i - Len(x)]
    BY <1>6, <1>7, ConcatProperties
  <2> HIDE DEF g
  <2>2. Len(g) = 4 /\ \A i \in 1..4 : g[i] = IF i <= 1 THEN x[i] ELSE y[i - 1]
    BY <1>6, <1>7, <2>1
  <2>3. g[1] = v
    BY <1>6, <2>2
  <2>4. ASSUME NEW i \in 2..4
        PROVE  g[i] = <<>>
    <3>1. i \in 1..4 /\ ~(i <= 1) /\ i - 1 \in 1..3
      OBVIOUS
    <3> QED
      BY <1>7, <2>2, <3>1
  <2>5. \A i \in 1..4 : s[i] = g[i]
    <3>1. \A i \in 1..4 : i = 1 \/ i \in 2..4
      OBVIOUS
    <3>2. 1 \in 1..4 /\ s[1] = v
      BY <1>1, <1>4
    <3>3. \A i \in 2..4 : i \in 1..4
      OBVIOUS
    <3>4. \A i \in 2..4 : s[i] = <<>>
      BY <1>1, <1>5, <3>3, Zenon
    <3>5. s[1] = g[1]
      BY <2>3, <3>2, Zenon
    <3>7. ASSUME NEW i \in 2..4
          PROVE  s[i] = g[i]
      <4>1. s[i] = <<>>
        BY <3>4, Zenon
      <4>2. g[i] = <<>>
        BY <2>4, Zenon
      <4> QED
        BY <4>1, <4>2
    <3>6. ASSUME NEW i \in 1..4
          PROVE  s[i] = g[i]
      <4>1. CASE i = 1
        BY <3>5, <4>1, Zenon
      <4>2. CASE i \in 2..4
        BY <3>7, <4>2, Zenon
      <4> QED
        BY <3>1, <4>1, <4>2, Zenon
    <3> QED
      BY <3>6
  <2>6. s = g
    <3>1. Len(s) = Len(g) /\ \A i \in 1..Len(s) : s[i] = g[i]
      BY <1>1, <2>2, <2>5, Zenon
    <3> QED
      BY <1>1, <2>1, <3>1, SeqEqual, Zenon
  <2> QED
    BY <2>6 DEF g
<1>9. FlattenSeq(x \o y) = FlattenSeq(x) \o FlattenSeq(y)
  BY <1>6, <1>7, FlattenConcat
<1>10. v \o <<>> = v
  BY ConcatEmptySeq
<1> QED
  BY <1>1, <1>8, <1>9, <1>10, <1>f, Zenon

\* The bracket test looks back only.
LEMMA InsidePrefix ==
  ASSUME NEW T, NEW t \in Seq(T), NEW s \in Seq(T), NEW i \in 1..Len(t) + 1
  PROVE  InsideBrackets(t \o s, i) <=> InsideBrackets(t, i)
<1> DEFINE u == t \o s
<1>1. Len(t) \in Nat /\ Len(s) \in Nat
  BY LenProperties
<1>2. \A j \in 1..Len(t) + Len(s) : u[j] = IF j <= Len(t) THEN t[j] ELSE s[j - Len(t)]
  BY ConcatProperties
<1> HIDE DEF u
<1>3. \A j \in 1..i - 1 : u[j] = t[j]
  BY <1>1, <1>2
<1>4. \A j \in 1..i - 1 : \A k \in j + 1..i - 1 : k \in 1..i - 1
  BY <1>1
<1>5. InsideBrackets(u, i) <=> InsideBrackets(t, i)
  BY <1>3, <1>4, Zenon DEF InsideBrackets
<1> QED
  BY <1>5 DEF u
=============================================================================
