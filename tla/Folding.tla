------------------------------- MODULE Folding -------------------------------
(***************************************************************************)
(* What FoldLeft of SequencesExt computes, for any operator: the last of   *)
(* the values that start with the base and go on by Op.  A module that     *)
(* folds an operator instantiates this one for it.                         *)
(***************************************************************************)
EXTENDS Induction

CONSTANT Op(_, _, _)

Fold(c, base, q) == FoldLeft(LAMBDA x, y : Op(c, x, y), base, q)

\* h[k] is what Op has made of base and the first k elements of q.
Course(c, base, q, n, h) ==
  /\ h = [k \in 0..n |-> h[k]]
  /\ h[0] = base
  /\ \A k \in 1..n : h[k] = Op(c, h[k - 1], q[k])

\* FoldLeft recurs over the subsets of the domain, the greatest number last.
Value(g, s, c, base, q) == IF s = {} THEN base ELSE Op(c, g[s \ {Max(s)}], q[Max(s)])

Recursive(g, n, c, base, q) == g = [s \in SUBSET (1..n) |-> Value(g, s, c, base, q)]

LEMMA RecursionExists ==
  ASSUME NEW c, NEW base, NEW q, NEW n \in Nat
  PROVE  \E g : Recursive(g, n, c, base, q)
<1> DEFINE Good(k, g) == g = [s \in SUBSET (1..k) |-> Value(g, s, c, base, q)]
           S == {k \in 0..n : \E g : Good(k, g)}
<1>1. 0 \in S
  <2> DEFINE g == [s \in SUBSET (1..0) |-> base]
  <2>1. \A s \in SUBSET (1..0) : s = {}
    OBVIOUS
  <2>2. Good(0, g)
    BY <2>1 DEF Value
  <2> HIDE DEF g, Good
  <2> QED BY <2>2
<1>2. ASSUME NEW k \in 0..n - 1, k \in S PROVE k + 1 \in S
  <2>1. PICK g : Good(k, g)
    BY <1>2
  <2> DEFINE LastStep(s) == Op(c, g[s \ {k + 1}], q[k + 1])
             h == [s \in SUBSET (1..k + 1) |-> IF k + 1 \in s THEN LastStep(s) ELSE g[s]]
  <2>2. ASSUME NEW s \in SUBSET (1..k + 1), k + 1 \notin s PROVE s \in SUBSET (1..k)
    BY <2>2
  <2>3. ASSUME NEW s \in SUBSET (1..k + 1), k + 1 \in s PROVE Max(s) = k + 1
    <3>1. Max(s) \in s /\ \A y \in s : Max(s) >= y
      <4>1. k + 1 \in Nat /\ s \in SUBSET (0..k + 1) /\ s # {}
        BY <2>3
      <4> QED BY <4>1, MaxIsGreatest
    <3>2. Max(s) \in 1..k + 1 /\ Max(s) >= k + 1
      BY <2>3, <3>1
    <3> HIDE DEF LastStep
    <3> QED BY <3>2
  <2>4. ASSUME NEW s \in SUBSET (1..k + 1) PROVE h[s] = Value(h, s, c, base, q)
    <3>1. CASE k + 1 \in s
      <4>1. s \ {k + 1} \in SUBSET (1..k + 1) /\ k + 1 \notin s \ {k + 1}
        OBVIOUS
      <4>2. h[s \ {k + 1}] = g[s \ {k + 1}]
        BY <4>1
      <4>3. h[s] = LastStep(s) /\ s # {} /\ Max(s) = k + 1
        BY <2>3, <3>1
      <4> HIDE DEF h
      <4> QED BY <4>2, <4>3 DEF Value
    <3>2. CASE k + 1 \notin s
      <4>1. s \in SUBSET (1..k) /\ h[s] = g[s]
        BY <2>2, <3>2
      <4>2. g[s] = Value(g, s, c, base, q)
        BY <2>1, <4>1
      <4>3. s \ {Max(s)} \in SUBSET (1..k + 1) /\ k + 1 \notin s \ {Max(s)}
        BY <3>2
      <4>4. h[s \ {Max(s)}] = g[s \ {Max(s)}]
        BY <4>3
      <4> HIDE DEF h
      <4> QED BY <4>1, <4>2, <4>4 DEF Value
    <3> QED BY <3>1, <3>2
  <2>5. h = [s \in SUBSET (1..k + 1) |-> h[s]]
    OBVIOUS
  <2> HIDE DEF h
  <2>6. Good(k + 1, h)
    BY <2>4, <2>5
  <2>7. k + 1 \in 0..n
    OBVIOUS
  <2> HIDE DEF Good
  <2> QED BY <2>6, <2>7
<1> HIDE DEF S
<1>3. n \in S
  BY <1>1, <1>2, InductUpTo
<1> QED
  BY <1>3 DEF S, Recursive

\* A fold runs such a course.
LEMMA FoldRuns ==
  ASSUME NEW c, NEW base, NEW n \in Nat, NEW q, DOMAIN q = 1..n
  PROVE  \E h : Course(c, base, q, n, h) /\ Fold(c, base, q) = h[n]
<1> DEFINE iter == CHOOSE g : g = [s \in SUBSET (DOMAIN q) |-> Value(g, s, c, base, q)]
<1>0. \E g : Recursive(g, n, c, base, q)
  BY RecursionExists
<1>1. \E g : g = [s \in SUBSET (DOMAIN q) |-> Value(g, s, c, base, q)]
  BY <1>0, Zenon DEF Recursive
<1>2. iter = [s \in SUBSET (DOMAIN q) |-> Value(iter, s, c, base, q)]
  BY <1>1, Zenon
<1>3. Fold(c, base, q) = iter[DOMAIN q]
  BY DEF Fold, FoldLeft, MapThenFoldSet, Value
<1> HIDE DEF iter
<1> DEFINE h == [k \in 0..n |-> iter[1..k]]
<1>4. h[0] = base
  <2>1. 1..0 = {} /\ {} \in SUBSET (1..n)
    OBVIOUS
  <2>2. iter[{}] = base
    BY <1>2, <2>1 DEF Value
  <2> QED BY <2>1, <2>2
<1>5. ASSUME NEW k \in 1..n PROVE h[k] = Op(c, h[k - 1], q[k])
  <2> HIDE DEF h
  <2>1. 1..k \in SUBSET (1..n) /\ 1..k # {} /\ (1..k) \ {k} = 1..k - 1 /\ k - 1 \in 0..n
    <3>0. \A x \in 1..k : x \in 1..n
      OBVIOUS
    <3>1. 1..k \in SUBSET (1..n) /\ 1..k # {}
      BY <3>0, k \in 1..k
    <3>2. k - 1 \in 0..n
      OBVIOUS
    <3>3. ASSUME NEW x PROVE x \in (1..k) \ {k} <=> x \in 1..k - 1
      OBVIOUS
    <3> QED BY <3>1, <3>2, <3>3
  <2>2. Max(1..k) = k
    <3>1. Max(1..k) \in 1..k /\ \A y \in 1..k : Max(1..k) >= y
      <4>1. 1..k \in SUBSET (0..k)
        OBVIOUS
      <4> QED BY <2>1, <4>1, MaxIsGreatest, k \in Nat
    <3> QED BY <3>1
  <2>3. iter[1..k] = Op(c, iter[1..k - 1], q[k])
    BY <1>2, <2>1, <2>2 DEF Value
  <2> QED BY <2>1, <2>3 DEF h
<1>6. Fold(c, base, q) = h[n]
  BY <1>3
<1>7. h = [k \in 0..n |-> h[k]]
  OBVIOUS
<1> HIDE DEF h
<1> QED BY <1>4, <1>5, <1>6, <1>7 DEF Course

\* There is only one.
LEMMA CourseUnique ==
  ASSUME NEW c, NEW base, NEW n \in Nat, NEW q, NEW h, NEW g,
         Course(c, base, q, n, h), Course(c, base, q, n, g)
  PROVE  \A k \in 0..n : h[k] = g[k]
<1> DEFINE S == {k \in 0..n : h[k] = g[k]}
<1>1. 0 \in S
  BY DEF Course
<1>2. ASSUME NEW k \in 0..n - 1, k \in S PROVE k + 1 \in S
  <2>1. k + 1 \in 1..n /\ (k + 1) - 1 = k /\ k + 1 \in 0..n
    OBVIOUS
  <2>2. h[k + 1] = Op(c, h[k], q[k + 1]) /\ g[k + 1] = Op(c, g[k], q[k + 1])
    BY <2>1 DEF Course
  <2> QED BY <1>2, <2>1, <2>2
<1> HIDE DEF S
<1>3. \A k \in 0..n : k \in S
  BY <1>1, <1>2, InductUpTo
<1> QED BY <1>3 DEF S

\* What the base has and Op keeps, the fold has.
LEMMA FoldKeeps ==
  ASSUME NEW c, NEW A, NEW base \in A, NEW n \in Nat, NEW q, DOMAIN q = 1..n,
         \A a \in A : \A k \in 1..n : Op(c, a, q[k]) \in A
  PROVE  Fold(c, base, q) \in A
<1>1. PICK h : Course(c, base, q, n, h) /\ Fold(c, base, q) = h[n]
  BY FoldRuns
<1> DEFINE S == {k \in 0..n : h[k] \in A}
<1>2. 0 \in S
  BY <1>1 DEF Course
<1>3. ASSUME NEW k \in 0..n - 1, k \in S PROVE k + 1 \in S
  <2>1. k + 1 \in 1..n /\ (k + 1) - 1 = k /\ k + 1 \in 0..n
    OBVIOUS
  <2>2. h[k + 1] = Op(c, h[k], q[k + 1])
    BY <1>1, <2>1 DEF Course
  <2> QED BY <1>3, <2>1, <2>2
<1> HIDE DEF S
<1>4. \A k \in 0..n : k \in S
  BY <1>2, <1>3, InductUpTo
<1> QED BY <1>1, <1>4 DEF S

\* One element more is one step more.
LEMMA FoldNil ==
  ASSUME NEW c, NEW base, NEW q, DOMAIN q = {}
  PROVE  Fold(c, base, q) = base
<1>1. DOMAIN q = 1..0 /\ 0 \in Nat
  OBVIOUS
<1>2. PICK h : Course(c, base, q, 0, h) /\ Fold(c, base, q) = h[0]
  BY <1>1, FoldRuns
<1> QED BY <1>2 DEF Course

LEMMA FoldSnoc ==
  ASSUME NEW c, NEW base, NEW n \in Nat, NEW q, NEW r, DOMAIN q = 1..n, DOMAIN r = 1..n + 1,
         \A k \in 1..n : r[k] = q[k]
  PROVE  Fold(c, base, r) = Op(c, Fold(c, base, q), r[n + 1])
<1>1. PICK h : Course(c, base, q, n, h) /\ Fold(c, base, q) = h[n]
  BY FoldRuns
<1>2. PICK g : Course(c, base, r, n + 1, g) /\ Fold(c, base, r) = g[n + 1]
  <2>1. n + 1 \in Nat
    OBVIOUS
  <2> QED BY <2>1, FoldRuns
<1> DEFINE f == [k \in 0..n |-> g[k]]
<1>3. Course(c, base, q, n, f)
  <2>1. f[0] = base /\ f = [k \in 0..n |-> f[k]]
    BY <1>2 DEF Course
  <2>2. ASSUME NEW k \in 1..n PROVE f[k] = Op(c, f[k - 1], q[k])
    <3>1. k \in 1..n + 1 /\ k \in 0..n /\ k - 1 \in 0..n
      OBVIOUS
    <3>2. g[k] = Op(c, g[k - 1], r[k])
      BY <1>2, <3>1 DEF Course
    <3> QED BY <3>1, <3>2
  <2> HIDE DEF f
  <2> QED BY <2>1, <2>2 DEF Course
<1>4. \A k \in 0..n : h[k] = f[k]
  BY <1>1, <1>3, CourseUnique
<1>5. n + 1 \in 1..n + 1 /\ (n + 1) - 1 = n /\ n \in 0..n
  OBVIOUS
<1>6. g[n + 1] = Op(c, g[n], r[n + 1])
  BY <1>2, <1>5 DEF Course
<1> QED BY <1>1, <1>2, <1>4, <1>5, <1>6
=============================================================================
