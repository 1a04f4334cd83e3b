--------------------------- MODULE SequenceLemmas ---------------------------
(***************************************************************************)
(* What the proofs use of least and greatest indices, of loops written as  *)
(* functions of 0..n, of selections, of the newest of a set, and of sums   *)
(* and concatenations.                                                     *)
(*                                                                         *)
(* The provers have no induction over data.  MinNat recovers it: a set of  *)
(* indices at which a loop goes wrong would have a least element, and the  *)
(* step before it is right.                                                *)
(***************************************************************************)
EXTENDS FiniteSetTheorems, FiniteSetsExt, SequencesExt, Sifting, TLAPS

-----------------------------------------------------------------------------
(* Indices, loops and selections *)

\* A nonempty set of naturals has a least element: the intervals 0..k, k in
\* the set, are well-founded under strict inclusion.
LEMMA MinNat ==
  ASSUME NEW T, T \subseteq Nat, T # {}
  PROVE  \E x \in T : \A y \in T : x <= y
<1>1. PICK n \in T : TRUE
  OBVIOUS
<1> DEFINE S == 0..n
           W == {0..k : k \in {j \in T : j <= n}}
<1>2. IsFiniteSet(S)
  BY <1>1, FS_Interval
<1>3. IsWellFoundedOn(StrictSubsetOrdering(S), FiniteSubsetsOf(S))
  BY <1>2, FS_StrictSubsetOrderingWellFounded
<1>4. W \subseteq FiniteSubsetsOf(S)
  <2>1. FiniteSubsetsOf(S) = SUBSET S
    BY <1>2, FS_FiniteSubsetsOfFinite
  <2>2. W \subseteq SUBSET S
    OBVIOUS
  <2> QED BY <2>1, <2>2
<1>5. W # {}
  BY <1>1
<1> HIDE DEF W
<1>6. PICK w \in W : \A y \in W : ~(<<y, w>> \in StrictSubsetOrdering(S))
  BY <1>3, <1>4, <1>5, WFMin
<1>7. PICK k \in T : k <= n /\ w = 0..k
  BY DEF W
<1>8. ASSUME NEW y \in T, y < k PROVE FALSE
  <2>1. 0..y \in W
    BY <1>7, <1>8 DEF W
  <2>2. (0..y) \subseteq w /\ 0..y # w
    BY <1>7, <1>8
  <2>3. 0..y \subseteq S /\ w \subseteq S
    BY <1>7, <1>8
  <2> QED BY <1>6, <2>1, <2>2, <2>3 DEF StrictSubsetOrdering
<1> QED BY <1>7, <1>8

\* The least of a nonempty set of naturals is in it and below the others.
LEMMA MinIndex ==
  ASSUME NEW T, T \subseteq Nat, T # {}
  PROVE  Min(T) \in T /\ \A y \in T : Min(T) <= y
BY MinNat DEF Min

\* The greatest of a nonempty bounded set of naturals is in it and above the
\* others: it is the one nearest to the bound.
LEMMA MaxIndex ==
  ASSUME NEW n \in Nat, NEW T, T \subseteq 0..n, T # {}
  PROVE  Max(T) \in T /\ \A y \in T : Max(T) >= y
<1> DEFINE R == {n - y : y \in T}
<1>1. R \subseteq Nat /\ R # {}
  <2>1. \A y \in T : n - y \in Nat
    OBVIOUS
  <2>2. R \subseteq Nat
    BY <2>1
  <2> QED BY <2>2
<1> HIDE DEF R
<1>2. PICK x \in R : \A y \in R : x <= y
  BY <1>1, MinNat
<1>3. PICK m \in T : x = n - m
  BY DEF R
<1>4. ASSUME NEW y \in T PROVE m >= y
  <2>1. n - y \in R
    BY DEF R
  <2>2. n - m <= n - y
    BY <1>2, <1>3, <2>1
  <2> QED BY <2>2
<1> QED BY <1>4 DEF Max

\* The largest index of a set, from its bounds.
LEMMA MaxIs ==
  ASSUME NEW n \in Nat, NEW T, T \subseteq 0..n, NEW x \in T, \A y \in T : x >= y
  PROVE  Max(T) = x
<1>1. T # {}
  OBVIOUS
<1>2. Max(T) \in T /\ \A y \in T : Max(T) >= y
  BY <1>1, MaxIndex
<1>3. 0..n \subseteq Nat
  OBVIOUS
<1> DEFINE y == Max(T)
<1>4. y \in T /\ y >= x /\ x >= y
  BY <1>2
<1> HIDE DEF y
<1>5. x \in Nat /\ y \in Nat
  BY <1>3, <1>4
<1>6. y = x
  BY <1>4, <1>5
<1> QED BY <1>6 DEF y

-----------------------------------------------------------------------------
(* Loops *)

\* Counting up: a set of indices that holds 0 and the successor of each of
\* its elements is all of them.
LEMMA CountUp ==
  ASSUME NEW n \in Nat, NEW T, 0 \in T, \A i \in 1..n : i - 1 \in T => i \in T
  PROVE  \A i \in 0..n : i \in T
<1> DEFINE Bad == {i \in 0..n : i \notin T}
<1> SUFFICES ASSUME Bad # {} PROVE FALSE
  OBVIOUS
<1>1. Bad \subseteq Nat
  OBVIOUS
<1> HIDE DEF Bad
<1>2. PICK x \in Bad : \A y \in Bad : x <= y
  BY <1>1, MinNat
<1>3. x \in 1..n /\ x \notin T
  BY DEF Bad
<1>4. x - 1 \in 0..n /\ x - 1 \notin Bad
  BY <1>2, <1>3, <1>1
<1> QED BY <1>3, <1>4 DEF Bad

\* A sequence has a natural length.
LEMMA LenNat ==
  ASSUME NEW Q, NEW c \in Seq(Q)
  PROVE  Len(c) \in Nat /\ DOMAIN c = 1..Len(c)
OBVIOUS

\* An element of a sequence over Q is in Q.
LEMMA ElementIn ==
  ASSUME NEW Q, NEW c \in Seq(Q), NEW i \in DOMAIN c
  PROVE  c[i] \in Q
OBVIOUS

\* f is what a loop over c computes from base, step by step, within S.
IsLoop(f, base, step, c, S) ==
  /\ f \in [0..Len(c) -> S]
  /\ f[0] = base
  /\ \A i \in 1..Len(c) : f[i] = step[f[i - 1]][c[i]]

\* A loop whose body maps S to itself computes something: it can be built up
\* to any index.
LEMMA LoopExists ==
  ASSUME NEW S, NEW base \in S, NEW Q, NEW step \in [S -> [Q -> S]], NEW c \in Seq(Q)
  PROVE  \E f : IsLoop(f, base, step, c, S)
<1> DEFINE Built(n, f) ==
             /\ f \in [0..n -> S]
             /\ f[0] = base
             /\ \A i \in 1..n : f[i] = step[f[i - 1]][c[i]]
           T == {n \in 0..Len(c) : ~ \E f : Built(n, f)}
<1>1. Len(c) \in Nat /\ \A i \in 1..Len(c) : c[i] \in Q
  BY LenNat
<1>2. T = {}
  <2> SUFFICES ASSUME T # {} PROVE FALSE
    OBVIOUS
  <2>1. T \subseteq Nat
    OBVIOUS
  <2> HIDE DEF T
  <2>2. PICK n \in T : \A y \in T : n <= y
    BY <2>1, MinNat
  <2>3. n \in 0..Len(c) /\ ~ \E f : Built(n, f)
    BY DEF T
  <2>4. n # 0
    <3>1. Built(0, [i \in 0..0 |-> base])
      OBVIOUS
    <3> QED BY <3>1, <2>3
  <2>5. n - 1 \in 0..Len(c) /\ n \in 1..Len(c) /\ n - 1 \notin T
    BY <1>1, <2>2, <2>3, <2>4
  <2>6. PICK f : Built(n - 1, f)
    BY <2>5 DEF T
  <2> DEFINE last == step[f[n - 1]][c[n]]
             g == [i \in 0..n |-> IF i = n THEN last ELSE f[i]]
  <2>7. last \in S
    <3>1. f[n - 1] \in S
      BY <2>5, <2>6
    <3>2. step[f[n - 1]] \in [Q -> S]
      BY <3>1
    <3> QED BY <1>1, <2>5, <3>2
  <2>8. g \in [0..n -> S]
    <3>1. ASSUME NEW i \in 0..n, i # n PROVE f[i] \in S
      BY <2>5, <2>6, <3>1
    <3> QED BY <2>7, <3>1
  <2>9. g[0] = base
    BY <2>5, <2>6
  <2>10. ASSUME NEW i \in 1..n PROVE g[i] = step[g[i - 1]][c[i]]
    <3>1. i - 1 \in 0..n /\ i - 1 # n
      BY <2>5
    <3>2. g[i - 1] = f[i - 1]
      BY <3>1
    <3>3. CASE i = n
      BY <2>5, <3>2, <3>3
    <3>4. CASE i # n
      <4>1. i \in 1..(n - 1) /\ i \in 0..n
        BY <2>5, <3>4
      <4>2. g[i] = f[i]
        BY <3>4, <4>1
      <4> QED BY <2>6, <3>2, <4>1, <4>2
    <3> QED BY <3>3, <3>4
  <2>11. Built(n, g)
    BY <2>8, <2>9, <2>10
  <2> QED BY <2>3, <2>11
<1>3. Len(c) \in 0..Len(c)
  BY <1>1
<1>4. PICK f : Built(Len(c), f)
  BY <1>2, <1>3
<1> QED BY <1>4 DEF IsLoop

\* h is how a selection is made, element by element.
IsSift(h, s, keep, S) ==
  /\ h \in [0..Len(s) -> Seq(S \cap keep)]
  /\ h[0] = <<>>
  /\ \A i \in 1..Len(s) :
       h[i] = IF s[i] \in keep THEN Append(h[i - 1], s[i]) ELSE h[i - 1]
  /\ Sift(s, keep) = h[Len(s)]

LEMMA SiftRuns ==
  ASSUME NEW S, NEW keep, NEW s \in Seq(S)
  PROVE  \E h : IsSift(h, s, keep, S)
<1> DEFINE n == Len(s)
           R == Seq(S \cap keep)
           next(a, b) == IF b \in keep THEN Append(a, b) ELSE a
           step == [a \in R |-> [b \in S |-> next(a, b)]]
           Sifted(f) ==
             f = [i \in 0..n |->
                    IF i = 0 THEN <<>>
                    ELSE IF s[i] \in keep THEN Append(f[i - 1], s[i]) ELSE f[i - 1]]
           sifted == CHOOSE f : Sifted(f)
<1>1. n \in Nat /\ (\A i \in 1..n : s[i] \in S) /\ <<>> \in R
  BY LenNat
<1>2. \A a \in R, b \in S : next(a, b) \in R
  OBVIOUS
<1> HIDE DEF R
<1>3. \E f : Sifted(f)
  <2>1. step \in [R -> [S -> R]]
    BY <1>2
  <2> HIDE DEF step
  <2>2. PICK f : IsLoop(f, <<>>, step, s, R)
    BY <1>1, <2>1, LoopExists
  <2>3. ASSUME NEW i \in 1..n PROVE f[i] = next(f[i - 1], s[i])
    <3>1. f[i - 1] \in R /\ s[i] \in S
      BY <1>1, <2>2 DEF IsLoop
    <3> QED BY <2>2, <3>1 DEF step, IsLoop
  <2>4. ASSUME NEW i \in 0..n
        PROVE  f[i] = IF i = 0 THEN <<>> ELSE next(f[i - 1], s[i])
    <3>1. CASE i = 0
      BY <2>2, <3>1 DEF IsLoop
    <3>2. CASE i # 0
      <4>1. i \in 1..n
        BY <1>1, <3>2
      <4>2. f[i] = next(f[i - 1], s[i])
        BY <2>3, <4>1
      <4> QED BY <3>2, <4>2, Zenon
    <3> QED BY <3>1, <3>2, Zenon
  <2>5. Sifted(f)
    <3>1. f = [i \in 0..n |-> f[i]]
      BY <2>2 DEF IsLoop
    <3> QED BY <2>4, <3>1, Zenon
  <2> QED BY <2>5, Zenon
<1>4. Sifted(sifted)
  BY <1>3, Zenon
<1> HIDE DEF sifted
<1> DEFINE T == {i \in 0..n : sifted[i] \in R}
<1>5. 0 \in T
  BY <1>1, <1>4
<1>6. ASSUME NEW i \in 1..n, i - 1 \in T PROVE i \in T
  <2>1. i \in 0..n /\ i # 0
    BY <1>1
  <2>2. sifted[i] = next(sifted[i - 1], s[i])
    BY <1>4, <2>1
  <2>3. sifted[i - 1] \in R /\ s[i] \in S
    BY <1>1, <1>6
  <2>4. next(sifted[i - 1], s[i]) \in R
    BY <1>2, <2>3
  <2> QED BY <2>1, <2>2, <2>4
<1>7. \A i \in 0..n : i \in T
  BY <1>1, <1>5, <1>6, CountUp
<1>8. sifted \in [0..n -> R]
  BY <1>4, <1>7
<1>9. sifted[0] = <<>>
  BY <1>1, <1>4
<1>10. ASSUME NEW i \in 1..n
       PROVE  sifted[i] = IF s[i] \in keep THEN Append(sifted[i - 1], s[i]) ELSE sifted[i - 1]
  <2>1. i \in 0..n /\ i # 0
    BY <1>1
  <2> QED BY <1>4, <2>1
<1>11. Sift(s, keep) = sifted[n]
  BY DEF Sift, sifted
<1> QED BY <1>8, <1>9, <1>10, <1>11 DEF R, IsSift

\* A selection keeps only elements of keep.
LEMMA SiftIn ==
  ASSUME NEW S, NEW keep, NEW s \in Seq(S)
  PROVE  Sift(s, keep) \in Seq(S \cap keep)
<1>1. Len(s) \in 0..Len(s)
  BY LenNat
<1>2. PICK h : IsSift(h, s, keep, S)
  BY SiftRuns
<1> QED BY <1>1, <1>2 DEF IsSift

\* It keeps all of them, and no element twice that was there once.
LEMMA SiftElements ==
  ASSUME NEW S, NEW keep, NEW s \in Seq(S)
  PROVE  LET r == Sift(s, keep)
         IN  /\ {r[j] : j \in DOMAIN r} = {s[j] : j \in DOMAIN s} \cap keep
             /\ (\A j, k \in DOMAIN s : s[j] = s[k] => j = k)
                  => (\A j, k \in DOMAIN r : r[j] = r[k] => j = k)
<1>1. PICK h : IsSift(h, s, keep, S)
  BY SiftRuns
<1>2. h[0] = <<>> /\ Sift(s, keep) = h[Len(s)]
  BY <1>1 DEF IsSift
<1>3. \A i \in 0..Len(s) : h[i] \in Seq(S \cap keep)
  BY <1>1 DEF IsSift
<1>4. \A i \in 1..Len(s) :
         h[i] = IF s[i] \in keep THEN Append(h[i - 1], s[i]) ELSE h[i - 1]
  BY <1>1 DEF IsSift
<1> DEFINE n == Len(s)
           once == \A j, k \in DOMAIN s : s[j] = s[k] => j = k
           From(i, x) == \E j \in 1..i : s[j] = x
           Right(i) ==
             /\ \A j \in DOMAIN h[i] : h[i][j] \in keep /\ From(i, h[i][j])
             /\ \A j \in 1..i : s[j] \in keep => \E k \in DOMAIN h[i] : h[i][k] = s[j]
             /\ once => \A j, k \in DOMAIN h[i] : h[i][j] = h[i][k] => j = k
           T == {i \in 0..n : Right(i)}
<1>5. n \in Nat /\ DOMAIN s = 1..n /\ \A i \in 1..n : s[i] \in S
  BY LenNat
<1>6. 0 \in T
  BY <1>5, <1>2
<1>7. ASSUME NEW i \in 1..n, Right(i - 1), s[i] \in keep PROVE Right(i)
  <2>1. i - 1 \in 0..n /\ i \in 0..n
    BY <1>5
  <2>2. h[i - 1] \in Seq(S \cap keep) /\ s[i] \in S \cap keep
    BY <1>5, <1>7, <1>3, <2>1
  <2> DEFINE old == h[i - 1]
             m == Len(old)
  <2>3. h[i] = Append(old, s[i])
    BY <1>7, <1>4
  <2> HIDE DEF old
  <2>4. m \in Nat /\ DOMAIN old = 1..m
    BY <2>2, LenNat DEF old
  <2>5. /\ DOMAIN h[i] = 1..(m + 1)
        /\ \A j \in 1..m : h[i][j] = old[j]
        /\ h[i][m + 1] = s[i]
    BY <2>2, <2>3, <2>4 DEF old
  <2>6. ASSUME NEW j \in DOMAIN h[i] PROVE h[i][j] \in keep /\ From(i, h[i][j])
    <3>1. CASE j = m + 1
      <4>1. i \in 1..i
        OBVIOUS
      <4> QED BY <1>7, <2>5, <3>1, <4>1
    <3>2. CASE j # m + 1
      <4>1. j \in 1..m
        BY <2>4, <2>5, <3>2
      <4> HIDE DEF From
      <4>2. old[j] \in keep /\ From(i - 1, old[j])
        BY <1>7, <2>4, <4>1 DEF old
      <4> USE DEF From
      <4>3. h[i][j] = old[j]
        BY <2>5, <4>1
      <4> QED BY <1>5, <4>2, <4>3
    <3> QED BY <3>1, <3>2
  <2>7. ASSUME NEW j \in 1..i, s[j] \in keep PROVE \E k \in DOMAIN h[i] : h[i][k] = s[j]
    <3>1. CASE j = i
      <4>1. m + 1 \in DOMAIN h[i]
        BY <2>4, <2>5
      <4> QED BY <2>5, <3>1, <4>1
    <3>2. CASE j # i
      <4>1. PICK k \in DOMAIN old : old[k] = s[j]
        BY <1>5, <1>7, <2>7, <3>2 DEF old
      <4>2. k \in DOMAIN h[i] /\ h[i][k] = old[k]
        BY <2>4, <2>5, <4>1
      <4> QED BY <4>1, <4>2
    <3> QED BY <3>1, <3>2
  <2>8. ASSUME once, NEW j \in 1..m PROVE old[j] # s[i]
    <3>1. PICK k \in 1..(i - 1) : s[k] = old[j]
      BY <1>7, <2>4 DEF old
    <3>2. k \in DOMAIN s /\ i \in DOMAIN s /\ k # i
      BY <1>5
    <3> QED BY <2>8, <3>1, <3>2
  <2>9. ASSUME once, NEW j \in DOMAIN h[i], NEW k \in DOMAIN h[i], h[i][j] = h[i][k]
        PROVE  j = k
    <3>1. \A a, b \in 1..m : old[a] = old[b] => a = b
      BY <1>7, <2>4, <2>9 DEF old
    <3>2. /\ j \in 1..m \/ j = m + 1
          /\ k \in 1..m \/ k = m + 1
      BY <2>4, <2>5
    <3> QED BY <2>5, <2>8, <2>9, <3>1, <3>2
  <2> QED BY <2>6, <2>7, <2>9
<1>8. ASSUME NEW i \in 1..n, Right(i - 1), s[i] \notin keep PROVE Right(i)
  <2>1. h[i] = h[i - 1]
    BY <1>8, <1>4
  <2>2. \A j \in 1..i : s[j] \in keep => j \in 1..(i - 1)
    BY <1>5, <1>8
  <2>3. \A x : From(i - 1, x) => From(i, x)
    BY <1>5
  <2> QED BY <1>8, <2>1, <2>2, <2>3
<1> HIDE DEF Right
<1>9. \A i \in 1..n : i - 1 \in T => i \in T
  BY <1>5, <1>7, <1>8
<1> HIDE DEF T
<1>10. \A i \in 0..n : i \in T
  BY <1>5, <1>6, <1>9, CountUp
<1>11. Right(n)
  BY <1>5, <1>10 DEF T
<1> QED BY <1>5, <1>11, <1>2 DEF Right

\* If the elements of keep come first, the selection is these.
LEMMA SiftPrefix ==
  ASSUME NEW S, NEW keep, NEW s \in Seq(S), NEW k \in 0..Len(s),
         \A i \in 1..Len(s) : s[i] \in keep <=> i <= k
  PROVE  /\ Sift(s, keep) \in Seq(S) /\ Len(Sift(s, keep)) = k
         /\ \A j \in 1..k : Sift(s, keep)[j] = s[j]
<1>1. PICK h : IsSift(h, s, keep, S)
  BY SiftRuns
<1>2. h[0] = <<>> /\ Sift(s, keep) = h[Len(s)]
  BY <1>1 DEF IsSift
<1>3. \A i \in 0..Len(s) : h[i] \in Seq(S \cap keep)
  BY <1>1 DEF IsSift
<1>4. \A i \in 1..Len(s) :
         h[i] = IF s[i] \in keep THEN Append(h[i - 1], s[i]) ELSE h[i - 1]
  BY <1>1 DEF IsSift
<1> DEFINE n == Len(s)
           Size(i) == IF i <= k THEN i ELSE k
           Right(i) == Len(h[i]) = Size(i) /\ \A j \in 1..Size(i) : h[i][j] = s[j]
<1>5. n \in Nat /\ k \in Nat /\ k <= n /\ \A i \in 1..n : s[i] \in S
  BY LenNat
<1>6. Right(0)
  BY <1>5, <1>2
<1>7. ASSUME NEW i \in 1..n, Right(i - 1) PROVE Right(i)
  <2> HIDE DEF Right
  <2>1. i \in 0..n /\ i - 1 \in 0..n
    BY <1>5
  <2>2. h[i - 1] \in Seq(S \cap keep)
    BY <1>3, <2>1
  <2> USE DEF Right
  <2>3. CASE i <= k
    <3>1. h[i] = Append(h[i - 1], s[i]) /\ s[i] \in S \cap keep
      BY <1>5, <1>4, <2>3
    <3>2. Len(h[i - 1]) = i - 1 /\ \A j \in 1..(i - 1) : h[i - 1][j] = s[j]
      BY <1>5, <1>7, <2>3
    <3>3. Len(h[i]) = i /\ h[i][i] = s[i] /\ \A j \in 1..(i - 1) : h[i][j] = h[i - 1][j]
      <4> DEFINE old == h[i - 1]
      <4>1. old \in Seq(S \cap keep) /\ Len(old) = i - 1 /\ h[i] = Append(old, s[i])
        BY <2>2, <3>1, <3>2
      <4> HIDE DEF old
      <4> QED BY <2>1, <3>1, <4>1 DEF old
    <3>4. \A j \in 1..i : h[i][j] = s[j]
      BY <3>2, <3>3
    <3> QED BY <2>1, <2>3, <3>3, <3>4
  <2>4. CASE i > k
    <3>1. h[i] = h[i - 1]
      BY <1>5, <1>4, <2>4
    <3>2. Size(i) = k /\ Size(i - 1) = k
      BY <1>5, <2>4
    <3> QED BY <1>7, <2>1, <3>1, <3>2
  <2> QED BY <1>5, <2>3, <2>4
<1> DEFINE T == {i \in 0..n : Right(i)}
<1> HIDE DEF Right
<1>8. 0 \in T /\ (\A i \in 1..n : i - 1 \in T => i \in T)
  BY <1>5, <1>6, <1>7
<1> HIDE DEF T
<1>9. \A i \in 0..n : i \in T
  BY <1>5, <1>8, CountUp
<1>10. Right(n)
  BY <1>5, <1>9 DEF T
<1>11. Len(h[n]) = k /\ \A j \in 1..k : h[n][j] = s[j]
  BY <1>5, <1>10 DEF Right
<1>12. Seq(S \cap keep) \subseteq Seq(S)
  OBVIOUS
<1> QED BY <1>2, <1>3, <1>5, <1>11, <1>12

-----------------------------------------------------------------------------
(* The newest k of a finite set, by a key that no two elements share *)

AheadOf(S, key, r) == {t \in S : key[t] > key[r]}

TopOf(S, key, k) == {r \in S : Cardinality(AheadOf(S, key, r)) < k}

Keyed(S, key) ==
  /\ key \in [S -> Nat]
  /\ \A r, t \in S : key[r] = key[t] => r = t

\* What is ahead of an element is a finite number, and fewer are ahead of what
\* is ahead of it.
LEMMA AheadCount ==
  ASSUME NEW S, NEW key, IsFiniteSet(S), Keyed(S, key), NEW r \in S
  PROVE  /\ IsFiniteSet(AheadOf(S, key, r))
         /\ Cardinality(AheadOf(S, key, r)) \in Nat
         /\ \A t \in AheadOf(S, key, r) :
              Cardinality(AheadOf(S, key, t)) < Cardinality(AheadOf(S, key, r))
<1>1. ASSUME NEW t \in S
      PROVE  IsFiniteSet(AheadOf(S, key, t)) /\ Cardinality(AheadOf(S, key, t)) \in Nat
  <2>1. AheadOf(S, key, t) \in SUBSET S
    BY DEF AheadOf
  <2> QED BY <2>1, FS_Subset, FS_CardinalityType
<1>2. ASSUME NEW t \in AheadOf(S, key, r)
      PROVE  Cardinality(AheadOf(S, key, t)) < Cardinality(AheadOf(S, key, r))
  <2>1. t \in S /\ key[t] > key[r] /\ key[t] \in Nat /\ key[r] \in Nat
    BY <1>2 DEF AheadOf, Keyed
  <2>2. AheadOf(S, key, t) \in SUBSET AheadOf(S, key, r)
    BY <2>1 DEF AheadOf, Keyed
  <2>3. t \notin AheadOf(S, key, t)
    BY <2>1 DEF AheadOf
  <2>4. /\ Cardinality(AheadOf(S, key, t)) <= Cardinality(AheadOf(S, key, r))
        /\ Cardinality(AheadOf(S, key, r)) # Cardinality(AheadOf(S, key, t))
    BY <1>1, <2>2, <2>3, FS_Subset
  <2> QED BY <1>1, <2>1, <2>4
<1> QED BY <1>1, <1>2

\* There are at most k of them: counting what is ahead numbers them from 0.
LEMMA TopIsFew ==
  ASSUME NEW S, NEW key, IsFiniteSet(S), Keyed(S, key), NEW k \in Nat \ {0}
  PROVE  IsFiniteSet(TopOf(S, key, k)) /\ Cardinality(TopOf(S, key, k)) <= k
<1> DEFINE N == TopOf(S, key, k)
           rank == [r \in N |-> Cardinality(AheadOf(S, key, r))]
<1>1. \A r \in N : r \in S /\ rank[r] \in Nat /\ rank[r] < k
  BY AheadCount DEF TopOf
<1>2. rank \in [N -> 0..(k - 1)]
  BY <1>1
<1>3. ASSUME NEW r \in N, NEW t \in N, rank[r] = rank[t] PROVE r = t
  <2>1. key[r] \in Nat /\ key[t] \in Nat
    BY <1>1 DEF Keyed
  <2>2. CASE key[r] > key[t]
    <3>1. r \in AheadOf(S, key, t)
      BY <1>1, <2>2 DEF AheadOf
    <3>2. rank[r] < rank[t]
      BY <1>1, <3>1, AheadCount
    <3> QED BY <1>1, <1>3, <3>2
  <2>3. CASE key[t] > key[r]
    <3>1. t \in AheadOf(S, key, r)
      BY <1>1, <2>3 DEF AheadOf
    <3>2. rank[t] < rank[r]
      BY <1>1, <3>1, AheadCount
    <3> QED BY <1>1, <1>3, <3>2
  <2>4. CASE key[r] = key[t]
    BY <1>1, <2>4 DEF Keyed
  <2> QED BY <2>1, <2>2, <2>3, <2>4
<1> HIDE DEF rank
<1>4. rank \in Injection(N, 0..(k - 1))
  BY <1>2, <1>3 DEF Injection, IsInjective
<1>5. IsFiniteSet(0..(k - 1)) /\ Cardinality(0..(k - 1)) = k
  BY FS_Interval
<1> QED BY <1>4, <1>5, FS_Injection

\* What is ahead of one of them is one of them.
LEMMA TopIsAhead ==
  ASSUME NEW S, NEW key, IsFiniteSet(S), Keyed(S, key), NEW k \in Nat \ {0},
         NEW r \in TopOf(S, key, k), NEW t \in AheadOf(S, key, r)
  PROVE  t \in TopOf(S, key, k)
<1>1. r \in S /\ t \in S
  BY DEF TopOf, AheadOf
<1>2. Cardinality(AheadOf(S, key, t)) < Cardinality(AheadOf(S, key, r))
  BY <1>1, AheadCount
<1>3. Cardinality(AheadOf(S, key, t)) \in Nat /\ Cardinality(AheadOf(S, key, r)) \in Nat
  BY <1>1, AheadCount
<1> QED BY <1>1, <1>2, <1>3 DEF TopOf

\* If anything is left out, there are k: the first that is left out has only
\* such ahead of it as are not, and k of them.
LEMMA TopIsFull ==
  ASSUME NEW S, NEW key, IsFiniteSet(S), Keyed(S, key), NEW k \in Nat \ {0},
         TopOf(S, key, k) # S
  PROVE  Cardinality(TopOf(S, key, k)) >= k
<1> DEFINE N == TopOf(S, key, k)
           C == {Cardinality(AheadOf(S, key, r)) : r \in S \ N}
<1>1. N \subseteq S
  BY DEF TopOf
<1>2. C \subseteq Nat /\ C # {}
  BY <1>1, AheadCount
<1> HIDE DEF C
<1>3. PICK c \in C : \A d \in C : c <= d
  BY <1>2, MinNat
<1>4. PICK r \in S \ N : c = Cardinality(AheadOf(S, key, r))
  BY DEF C
<1>5. ASSUME NEW t \in AheadOf(S, key, r) PROVE t \in N
  <2>1. t \in S
    BY DEF AheadOf
  <2>2. Cardinality(AheadOf(S, key, t)) < c /\ Cardinality(AheadOf(S, key, t)) \in Nat
    BY <1>4, <2>1, AheadCount
  <2>3. Cardinality(AheadOf(S, key, t)) \notin C
    BY <1>2, <1>3, <2>2
  <2> QED BY <2>1, <2>3 DEF C
<1>6. AheadOf(S, key, r) \in SUBSET N
  BY <1>5
<1>7. IsFiniteSet(N) /\ Cardinality(N) \in Nat
  BY TopIsFew, FS_CardinalityType
<1>8. Cardinality(AheadOf(S, key, r)) <= Cardinality(N)
  BY <1>6, <1>7, FS_Subset
<1>9. c >= k
  BY <1>2, <1>4 DEF TopOf
<1> QED BY <1>2, <1>4, <1>7, <1>8, <1>9

-----------------------------------------------------------------------------
(* Prefixes, concatenations and sums *)

\* A sequence is built from its prefixes, an element at a time.
LEMMA PrefixStep ==
  ASSUME NEW S, NEW s \in Seq(S)
  PROVE  /\ SubSeq(s, 1, 0) = <<>> /\ SubSeq(s, 1, Len(s)) = s
         /\ \A i \in 0..Len(s) : SubSeq(s, 1, i) \in Seq(S) /\ Len(SubSeq(s, 1, i)) = i
         /\ \A i \in 1..Len(s) : SubSeq(s, 1, i) = Append(SubSeq(s, 1, i - 1), s[i])
<1>1. Len(s) \in Nat /\ DOMAIN s = 1..Len(s)
  BY LenNat
<1>2. SubSeq(s, 1, 0) = <<>> /\ SubSeq(s, 1, Len(s)) = s
  BY <1>1
<1>3. ASSUME NEW i \in 0..Len(s)
      PROVE  SubSeq(s, 1, i) \in Seq(S) /\ Len(SubSeq(s, 1, i)) = i
  BY <1>1
<1>4. ASSUME NEW i \in 1..Len(s)
      PROVE  SubSeq(s, 1, i) = Append(SubSeq(s, 1, i - 1), s[i])
  BY <1>1
<1> QED BY <1>2, <1>3, <1>4

\* An appended sequence.
LEMMA AppendIs ==
  ASSUME NEW S, NEW s \in Seq(S), NEW x \in S
  PROVE  /\ Append(s, x) \in Seq(S) /\ Len(Append(s, x)) = Len(s) + 1
         /\ DOMAIN Append(s, x) = 1..(Len(s) + 1)
         /\ Append(s, x)[Len(s) + 1] = x
         /\ \A i \in 1..Len(s) : Append(s, x)[i] = s[i]
         /\ SubSeq(Append(s, x), 1, Len(s)) = s
<1>1. Len(s) \in Nat /\ DOMAIN s = 1..Len(s)
  BY LenNat
<1>2. SubSeq(Append(s, x), 1, Len(s)) = s
  BY <1>1
<1> QED BY <1>1, <1>2

\* A set of sequences over S that has the empty one and all that appending
\* an element to one of its own makes has them all.
LEMMA BuiltUp ==
  ASSUME NEW S, NEW W, <<>> \in W,
         \A s \in Seq(S), x \in S : s \in W => Append(s, x) \in W
  PROVE  \A s \in Seq(S) : s \in W
<1> SUFFICES ASSUME NEW s \in Seq(S) PROVE s \in W
  OBVIOUS
<1> DEFINE n == Len(s)
           T == {i \in 0..n : SubSeq(s, 1, i) \in W}
<1>1. n \in Nat /\ \A i \in 1..n : s[i] \in S
  BY LenNat
<1>2. /\ SubSeq(s, 1, 0) = <<>> /\ SubSeq(s, 1, n) = s
      /\ \A i \in 0..n : SubSeq(s, 1, i) \in Seq(S)
      /\ \A i \in 1..n : SubSeq(s, 1, i) = Append(SubSeq(s, 1, i - 1), s[i])
  BY PrefixStep
<1>3. 0 \in T
  <2>1. SubSeq(s, 1, 0) \in W
    BY <1>2, Zenon
  <2> HIDE DEF n
  <2> QED BY <1>1, <2>1
<1>4. ASSUME NEW i \in 1..n, i - 1 \in T PROVE i \in T
  <2> DEFINE p == SubSeq(s, 1, i - 1)
  <2>1. i - 1 \in 0..n /\ i \in 0..n
    BY <1>1
  <2>2. p \in Seq(S) /\ p \in W /\ SubSeq(s, 1, i) = Append(p, s[i])
    BY <1>2, <1>4, <2>1
  <2> HIDE DEF p
  <2>3. Append(p, s[i]) \in W
    BY <1>1, <2>2
  <2> QED BY <2>1, <2>2, <2>3
<1>5. \A i \in 0..n : i \in T
  BY <1>1, <1>3, <1>4, CountUp
<1>6. SubSeq(s, 1, n) \in W
  BY <1>1, <1>5
<1> QED BY <1>2, <1>6, Zenon

\* One more element behind two lists.
LEMMA ConcatAppend ==
  ASSUME NEW S, NEW u \in Seq(S), NEW v \in Seq(S), NEW x \in S
  PROVE  u \o Append(v, x) = Append(u \o v, x)
OBVIOUS

\* A loop over one more element makes one more step.
LEMMA LoopAppend ==
  ASSUME NEW S, NEW base, NEW Q, NEW step, NEW c \in Seq(Q), NEW x \in Q,
         NEW f, IsLoop(f, base, step, c, S),
         NEW g, IsLoop(g, base, step, Append(c, x), S)
  PROVE  g[Len(c) + 1] = step[f[Len(c)]][x]
<1> DEFINE n == Len(c)
           r == Append(c, x)
           T == {i \in 0..n : f[i] = g[i]}
<1>1. /\ n \in Nat /\ Len(r) = n + 1 /\ r[n + 1] = x /\ \A i \in 1..n : r[i] = c[i]
  BY AppendIs, LenNat
<1>2. /\ f[0] = base /\ g[0] = base
      /\ \A i \in 1..n : f[i] = step[f[i - 1]][c[i]]
      /\ \A i \in 1..(n + 1) : g[i] = step[g[i - 1]][r[i]]
  BY <1>1 DEF IsLoop
<1> HIDE DEF n, r
<1>3. 0 \in T
  BY <1>1, <1>2
<1>4. ASSUME NEW i \in 1..n, i - 1 \in T PROVE i \in T
  <2>1. i \in 1..(n + 1) /\ i \in 0..n /\ f[i - 1] = g[i - 1] /\ r[i] = c[i]
    BY <1>1, <1>4
  <2>2. f[i] = g[i]
    BY <1>2, <2>1, Zenon
  <2> QED BY <2>1, <2>2
<1>5. \A i \in 0..n : i \in T
  BY <1>1, <1>3, <1>4, CountUp
<1>6. f[n] = g[n]
  BY <1>1, <1>5
<1>7. n + 1 \in 1..(n + 1) /\ (n + 1) - 1 = n
  BY <1>1
<1>8. g[n + 1] = step[g[(n + 1) - 1]][r[n + 1]]
  BY <1>2, <1>7, Zenon
<1>9. g[n + 1] = step[f[n]][x]
  BY <1>1, <1>6, <1>7, <1>8
<1> QED BY <1>9 DEF n

-----------------------------------------------------------------------------
(* Elements *)

\* No element of s stands in it twice.
Once(s) == \A i, j \in 1..Len(s) : s[i] = s[j] => i = j

\* The elements of a longer list, and when each stands there once.
LEMMA AppendSet ==
  ASSUME NEW S, NEW w \in Seq(S), NEW y \in S
  PROVE  /\ ToSet(Append(w, y)) = ToSet(w) \cup {y}
         /\ Once(Append(w, y)) => Once(w) /\ y \notin ToSet(w)
         /\ Once(w) /\ y \notin ToSet(w) => Once(Append(w, y))
<1> DEFINE r == Append(w, y)
           n == Len(w)
<1>1. /\ r \in Seq(S) /\ Len(r) = n + 1 /\ DOMAIN r = 1..(n + 1) /\ r[n + 1] = y
      /\ (\A i \in 1..n : r[i] = w[i]) /\ DOMAIN w = 1..n /\ n \in Nat
  BY AppendIs, LenNat
<1> HIDE DEF r, n
<1>2. /\ \A i \in 1..(n + 1) : i \in 1..n \/ i = n + 1
      /\ n + 1 \in 1..(n + 1)
      /\ \A i \in 1..n : i \in 1..(n + 1) /\ i # n + 1
  BY <1>1
<1>3. ToSet(r) = ToSet(w) \cup {y}
  BY <1>1, <1>2 DEF ToSet
<1>4. ASSUME Once(r) PROVE Once(w) /\ y \notin ToSet(w)
  <2>1. \A i, j \in 1..(n + 1) : r[i] = r[j] => i = j
    BY <1>1, <1>4 DEF Once
  <2>2. \A i, j \in 1..n : w[i] = w[j] => i = j
    BY <1>1, <1>2, <2>1
  <2>3. \A i \in 1..n : w[i] # y
    BY <1>1, <1>2, <2>1
  <2> QED BY <1>1, <2>2, <2>3 DEF ToSet, Once, n
<1>5. ASSUME Once(w), y \notin ToSet(w) PROVE Once(r)
  <2>1. /\ \A i, j \in 1..n : w[i] = w[j] => i = j
        /\ \A i \in 1..n : w[i] # y
    BY <1>1, <1>5 DEF ToSet, Once, n
  <2>2. \A i, j \in 1..(n + 1) : r[i] = r[j] => i = j
    BY <1>1, <1>2, <2>1
  <2> QED BY <1>1, <2>2 DEF Once
<1> QED BY <1>3, <1>4, <1>5 DEF r

\* The elements of a concatenation, and when each stands there once.
LEMMA ConcatSet ==
  ASSUME NEW S, NEW u \in Seq(S), NEW v \in Seq(S)
  PROVE  /\ ToSet(u \o v) = ToSet(u) \cup ToSet(v)
         /\ Once(u) /\ Once(v) /\ ToSet(u) \cap ToSet(v) = {} => Once(u \o v)
         /\ Once(u \o v) => Once(u) /\ Once(v) /\ ToSet(u) \cap ToSet(v) = {}
<1> DEFINE m == Len(u)
           n == Len(v)
           r == u \o v
<1>1. /\ m \in Nat /\ n \in Nat /\ DOMAIN u = 1..m /\ DOMAIN v = 1..n
      /\ Len(r) = m + n /\ DOMAIN r = 1..(m + n)
      /\ \A i \in 1..m : r[i] = u[i]
      /\ \A i \in 1..n : r[m + i] = v[i]
  BY LenNat
<1> HIDE DEF m, n, r
<1>2. /\ \A i \in 1..(m + n) : i \in 1..m \/ (i - m \in 1..n /\ i = m + (i - m))
      /\ \A i \in 1..m : i \in 1..(m + n)
      /\ \A i \in 1..n : m + i \in 1..(m + n)
      /\ \A i \in 1..m, j \in 1..n : i # m + j
      /\ \A i, j \in 1..n : m + i = m + j => i = j
  BY <1>1
<1>x. \A i \in 1..(m + n) : i \notin 1..m => r[i] = v[i - m] /\ i - m \in 1..n
  <2> SUFFICES ASSUME NEW i \in 1..(m + n), i \notin 1..m
               PROVE  r[i] = v[i - m] /\ i - m \in 1..n
    OBVIOUS
  <2> DEFINE j == i - m
  <2>1. j \in 1..n /\ i = m + j
    BY <1>1
  <2> HIDE DEF j
  <2>2. r[i] = v[j]
    BY <1>1, <2>1
  <2> QED BY <2>1, <2>2 DEF j
<1>3. ToSet(r) = ToSet(u) \cup ToSet(v)
  <2>1. \A y : (\E i \in 1..(m + n) : r[i] = y)
               => (\E i \in 1..m : u[i] = y) \/ (\E i \in 1..n : v[i] = y)
    BY <1>1, <1>x
  <2>2. ASSUME NEW i \in 1..m PROVE u[i] \in ToSet(r)
    <3>1. i \in DOMAIN r /\ r[i] = u[i]
      BY <1>1
    <3> QED BY <3>1 DEF ToSet
  <2>3. ASSUME NEW i \in 1..n PROVE v[i] \in ToSet(r)
    <3>1. m + i \in DOMAIN r /\ r[m + i] = v[i]
      BY <1>1
    <3> QED BY <3>1 DEF ToSet
  <2>4. ToSet(r) = {r[i] : i \in 1..(m + n)} /\ ToSet(u) = {u[i] : i \in 1..m}
        /\ ToSet(v) = {v[i] : i \in 1..n}
    BY <1>1 DEF ToSet
  <2>5. ASSUME NEW y \in ToSet(r) PROVE y \in ToSet(u) \cup ToSet(v)
    BY <2>1, <2>4
  <2>6. ToSet(u) \subseteq ToSet(r) /\ ToSet(v) \subseteq ToSet(r)
    BY <2>2, <2>3, <2>4
  <2> QED BY <2>5, <2>6
<1>4. ASSUME Once(u), Once(v), ToSet(u) \cap ToSet(v) = {} PROVE Once(r)
  <2>1. /\ \A i, j \in 1..m : u[i] = u[j] => i = j
        /\ \A i, j \in 1..n : v[i] = v[j] => i = j
        /\ \A i \in 1..m, j \in 1..n : u[i] # v[j]
    <3>1. /\ \A i, j \in 1..m : u[i] = u[j] => i = j
          /\ \A i, j \in 1..n : v[i] = v[j] => i = j
      BY <1>4 DEF Once, m, n
    <3>2. \A i \in 1..m, j \in 1..n : u[i] \in ToSet(u) /\ v[j] \in ToSet(v)
      BY <1>1 DEF ToSet
    <3> QED BY <1>4, <3>1, <3>2
  <2>2. ASSUME NEW i \in 1..(m + n), NEW j \in 1..(m + n), r[i] = r[j]
        PROVE  i = j
    <3>1. CASE i \in 1..m /\ j \in 1..m
      BY <1>1, <2>1, <2>2, <3>1
    <3>2. CASE i \in 1..m /\ j \notin 1..m
      <4>1. r[i] = u[i] /\ r[j] = v[j - m] /\ j - m \in 1..n
        BY <1>1, <1>x, <3>2
      <4> QED BY <2>1, <2>2, <3>2, <4>1
    <3>3. CASE i \notin 1..m /\ j \in 1..m
      <4>1. r[j] = u[j] /\ r[i] = v[i - m] /\ i - m \in 1..n
        BY <1>1, <1>x, <3>3
      <4> QED BY <2>1, <2>2, <3>3, <4>1
    <3>4. CASE i \notin 1..m /\ j \notin 1..m
      <4>1. r[i] = v[i - m] /\ i - m \in 1..n /\ r[j] = v[j - m] /\ j - m \in 1..n
        BY <1>x, <3>4
      <4>2. i - m = j - m
        BY <2>1, <2>2, <4>1
      <4> QED BY <1>1, <4>2
    <3> QED BY <3>1, <3>2, <3>3, <3>4
  <2> QED BY <1>1, <2>2 DEF Once
<1>5. ASSUME Once(r) PROVE Once(u) /\ Once(v) /\ ToSet(u) \cap ToSet(v) = {}
  <2>1. \A i, j \in 1..(m + n) : r[i] = r[j] => i = j
    BY <1>1, <1>5 DEF Once
  <2>2. \A i, j \in 1..m : u[i] = u[j] => i = j
    BY <1>1, <1>2, <2>1
  <2>3. \A i, j \in 1..n : v[i] = v[j] => i = j
    BY <1>1, <1>2, <2>1
  <2>4. \A i \in 1..m, j \in 1..n : u[i] # v[j]
    BY <1>1, <1>2, <2>1
  <2> QED BY <1>1, <2>2, <2>3, <2>4 DEF Once, ToSet, m, n
<1> QED BY <1>3, <1>4, <1>5 DEF r

-----------------------------------------------------------------------------
(* Sums and images *)

\* f is how a sum is made, element by element.
IsSum(f, s, N) ==
  /\ f \in [0..Len(s) -> N]
  /\ f[0] = 0
  /\ \A i \in 1..Len(s) : f[i] = f[i - 1] + s[i]

\* A sum, and the partial sums it is the last of.
LEMMA SumRuns ==
  ASSUME NEW N, 0 \in N, \A a, b \in N : a + b \in N, NEW s \in Seq(N)
  PROVE  \E f : IsSum(f, s, N) /\ SumSeq(s) = f[Len(s)]
<1> DEFINE n == Len(s)
           step == [a \in N |-> [b \in N |-> a + b]]
           Sum(f) == f = [i \in 0..n |-> IF i = 0 THEN 0 ELSE f[i - 1] + s[i]]
           sum == CHOOSE f : Sum(f)
<1>1. n \in Nat /\ \A i \in 1..n : s[i] \in N
  BY LenNat
<1>2. \E f : Sum(f)
  <2>1. step \in [N -> [N -> N]]
    OBVIOUS
  <2> HIDE DEF step
  <2>2. PICK f : IsLoop(f, 0, step, s, N)
    BY <2>1, LoopExists
  <2>3. ASSUME NEW i \in 1..n PROVE f[i] = f[i - 1] + s[i]
    <3>1. f[i - 1] \in N /\ s[i] \in N
      BY <1>1, <2>2 DEF IsLoop
    <3> QED BY <2>2, <3>1 DEF step, IsLoop
  <2>4. Sum(f)
    BY <1>1, <2>2, <2>3 DEF IsLoop
  <2> QED BY <2>4
<1>3. Sum(sum)
  BY <1>2
<1> HIDE DEF sum
<1> DEFINE T == {i \in 0..n : sum[i] \in N}
<1>4. 0 \in T
  BY <1>1, <1>3
<1>5. ASSUME NEW i \in 1..n, i - 1 \in T PROVE i \in T
  <2>1. i \in 0..n /\ i # 0
    BY <1>1
  <2>2. sum[i] = sum[i - 1] + s[i]
    BY <1>3, <2>1
  <2> QED BY <1>1, <1>5, <2>1, <2>2
<1>6. \A i \in 0..n : i \in T
  BY <1>1, <1>4, <1>5, CountUp
<1>7. IsSum(sum, s, N)
  <2>1. sum \in [0..n -> N] /\ sum[0] = 0
    BY <1>1, <1>3, <1>6
  <2>2. ASSUME NEW i \in 1..n PROVE sum[i] = sum[i - 1] + s[i]
    <3>1. i \in 0..n /\ i # 0
      BY <1>1
    <3> QED BY <1>3, <3>1
  <2> QED BY <2>1, <2>2 DEF IsSum
<1>8. SumSeq(s) = sum[n]
  BY DEF SumSeq, sum
<1> QED BY <1>7, <1>8

\* A sum stays in a set of numbers that has zero and is closed under addition.
LEMMA SumIn ==
  ASSUME NEW N, 0 \in N, \A a, b \in N : a + b \in N, NEW s \in Seq(N)
  PROVE  SumSeq(s) \in N
<1>1. Len(s) \in 0..Len(s)
  BY LenNat
<1> QED BY <1>1, SumRuns DEF IsSum

\* What is made that way is the sum.
LEMMA SumIs ==
  ASSUME NEW s \in Seq(Int), NEW f, IsSum(f, s, Int)
  PROVE  SumSeq(s) = f[Len(s)]
<1>1. PICK g : IsSum(g, s, Int) /\ SumSeq(s) = g[Len(s)]
  BY SumRuns
<1> DEFINE n == Len(s)
           T == {i \in 0..n : f[i] = g[i]}
<1>2. n \in Nat /\ 0 \in T
  BY <1>1, LenNat DEF IsSum
<1>3. ASSUME NEW i \in 1..n, i - 1 \in T PROVE i \in T
  BY <1>1, <1>2, <1>3 DEF IsSum
<1>4. \A i \in 0..n : i \in T
  BY <1>2, <1>3, CountUp
<1> QED BY <1>1, <1>2, <1>4

\* The empty sum is zero, and one more element is one more summand.
LEMMA SumAppend ==
  /\ SumSeq(<<>>) = 0
  /\ \A s \in Seq(Int), x \in Int : SumSeq(Append(s, x)) = SumSeq(s) + x
<1>1. SumSeq(<<>>) = 0
  <2>1. ASSUME NEW s \in Seq(Int), Len(s) = 0 PROVE SumSeq(s) = 0
    <3>1. PICK f : IsSum(f, s, Int) /\ SumSeq(s) = f[Len(s)]
      BY SumRuns
    <3> QED BY <2>1, <3>1 DEF IsSum
  <2>2. <<>> \in Seq(Int) /\ Len(<<>>) = 0
    OBVIOUS
  <2> QED BY <2>1, <2>2
<1>2. ASSUME NEW s \in Seq(Int), NEW x \in Int
      PROVE  SumSeq(Append(s, x)) = SumSeq(s) + x
  <2> DEFINE n == Len(s)
             r == Append(s, x)
  <2>1. /\ n \in Nat /\ r \in Seq(Int) /\ Len(r) = n + 1 /\ r[n + 1] = x
        /\ \A i \in 1..n : r[i] = s[i]
    BY LenNat
  <2>2. PICK f : IsSum(f, r, Int) /\ SumSeq(r) = f[n + 1]
    <3> HIDE DEF r
    <3> QED BY <2>1, SumRuns
  <2> HIDE DEF r
  <2> DEFINE g == [i \in 0..n |-> f[i]]
  <2>3. IsSum(g, s, Int)
    <3>1. g \in [0..n -> Int] /\ g[0] = 0
      BY <2>1, <2>2 DEF IsSum
    <3>2. ASSUME NEW i \in 1..n PROVE g[i] = g[i - 1] + s[i]
      <4>1. i \in 1..(n + 1) /\ i - 1 \in 0..n /\ i \in 0..n
        BY <2>1
      <4>2. f[i] = f[i - 1] + r[i]
        BY <2>1, <2>2, <4>1 DEF IsSum
      <4> QED BY <2>1, <4>1, <4>2
    <3> QED BY <3>1, <3>2 DEF IsSum
  <2>4. SumSeq(s) = g[n]
    BY <2>3, SumIs
  <2>5. f[n + 1] = f[n] + r[n + 1]
    <3>1. n + 1 \in 1..(n + 1) /\ (n + 1) - 1 = n
      BY <2>1
    <3> HIDE DEF n
    <3>2. f[n + 1] = f[(n + 1) - 1] + r[n + 1]
      BY <2>1, <2>2, <3>1 DEF IsSum
    <3> QED BY <3>1, <3>2
  <2>6. g[n] = f[n]
    BY <2>1
  <2> QED BY <2>1, <2>2, <2>4, <2>5, <2>6 DEF r
<1> QED BY <1>1, <1>2

\* What f makes of each element of s.
Mapped(s, f) == [i \in DOMAIN s |-> f[s[i]]]

\* The image of a list has its length.
LEMMA MapType ==
  ASSUME NEW S, NEW R, NEW f \in [S -> R]
  PROVE  /\ Mapped(<<>>, f) = <<>>
         /\ \A s \in Seq(S) : Mapped(s, f) \in Seq(R) /\ Len(Mapped(s, f)) = Len(s)
<1>1. \A s \in Seq(S) : Mapped(s, f) \in Seq(R) /\ Len(Mapped(s, f)) = Len(s)
  <2> SUFFICES ASSUME NEW s \in Seq(S)
               PROVE  Mapped(s, f) \in Seq(R) /\ Len(Mapped(s, f)) = Len(s)
    OBVIOUS
  <2>1. Len(s) \in Nat /\ DOMAIN s = 1..Len(s) /\ \A i \in 1..Len(s) : s[i] \in S
    BY LenNat
  <2> QED BY <2>1 DEF Mapped
<1>2. Mapped(<<>>, f) = <<>>
  BY DEF Mapped
<1> QED BY <1>1, <1>2

\* One more element is one more image.
LEMMA MapAppend ==
  ASSUME NEW S, NEW R, NEW f \in [S -> R], NEW s \in Seq(S), NEW x \in S
  PROVE  Mapped(Append(s, x), f) = Append(Mapped(s, f), f[x])
<1> DEFINE n == Len(s)
           r == Append(s, x)
           old == Mapped(s, f)
           t == Append(old, f[x])
           D == 1..(n + 1)
<1>0. \A w \in Seq(S) : Mapped(w, f) \in Seq(R) /\ Len(Mapped(w, f)) = Len(w)
  BY MapType
<1>1. /\ n \in Nat /\ DOMAIN s = 1..n /\ r \in Seq(S) /\ DOMAIN r = D /\ Len(r) = n + 1
      /\ r[n + 1] = x /\ \A i \in 1..n : r[i] = s[i]
  BY LenNat, AppendIs
<1>2. f[x] \in R /\ old \in Seq(R) /\ Len(old) = n
  BY <1>0
<1> HIDE DEF old
<1>3. /\ t \in Seq(R) /\ Len(t) = n + 1 /\ t[n + 1] = f[x]
      /\ \A i \in 1..n : t[i] = old[i]
  BY <1>2, AppendIs
<1>4. \A i \in 1..n : old[i] = f[s[i]]
  BY <1>1 DEF old, Mapped
<1>5. \A i \in D : i \in 1..n \/ i = n + 1
  BY <1>1
<1> HIDE DEF r, t, n
<1>6. Mapped(r, f) \in [D -> R] /\ t \in [D -> R]
  <2>1. Mapped(r, f) \in Seq(R) /\ Len(Mapped(r, f)) = n + 1
    BY <1>0, <1>1
  <2> QED BY <1>3, <2>1
<1>7. \A i \in D : Mapped(r, f)[i] = f[r[i]]
  BY <1>1 DEF Mapped
<1>8. \A i \in D : Mapped(r, f)[i] = t[i]
  <2> HIDE DEF D
  <2> QED BY <1>1, <1>3, <1>4, <1>5, <1>7
<1>9. Mapped(r, f) = t
  <2> DEFINE new == Mapped(r, f)
  <2>1. new \in [D -> R] /\ t \in [D -> R] /\ \A i \in D : new[i] = t[i]
    BY <1>6, <1>8
  <2> HIDE DEF new, D
  <2> QED BY <2>1 DEF new
<1> QED BY <1>9 DEF r, t, old

-----------------------------------------------------------------------------
(* Concatenations *)

\* f is how a concatenation is made, sequence by sequence.
IsFlat(f, s, S) ==
  /\ f \in [0..Len(s) -> Seq(S)]
  /\ f[0] = <<>>
  /\ \A i \in 1..Len(s) : f[i] = f[i - 1] \o s[i]

\* A concatenation, and the partial ones it is the last of.
LEMMA FlattenRuns ==
  ASSUME NEW S, NEW s \in Seq(Seq(S))
  PROVE  \E f : IsFlat(f, s, S) /\ FlattenSeq(s) = f[Len(s)]
<1> DEFINE n == Len(s)
           R == Seq(S)
           step == [a \in R |-> [b \in R |-> a \o b]]
           Flat(f) == f = [i \in 1..n |-> IF i = 1 THEN s[i] ELSE f[i - 1] \o s[i]]
           flat == CHOOSE f : Flat(f)
<1>1. n \in Nat /\ (\A i \in 1..n : s[i] \in R) /\ <<>> \in R
  BY LenNat
<1>2. \A a, b \in R : a \o b \in R
  OBVIOUS
<1>3. \A a \in R : <<>> \o a = a
  OBVIOUS
<1>x. step \in [R -> [R -> R]]
  BY <1>2
<1>y. s \in Seq(R)
  OBVIOUS
<1>4. PICK g : IsLoop(g, <<>>, step, s, R)
  <2> HIDE DEF R, step
  <2> QED BY <1>1, <1>x, <1>y, LoopExists
<1>5. ASSUME NEW i \in 1..n PROVE g[i] = g[i - 1] \o s[i] /\ g[i - 1] \in R
  <2> HIDE DEF R
  <2>0. i - 1 \in 0..n /\ s[i] \in R
    BY <1>1
  <2>1. g[i - 1] \in R
    BY <1>4, <2>0 DEF IsLoop
  <2>2. g[i] = step[g[i - 1]][s[i]]
    BY <1>4 DEF IsLoop
  <2> QED BY <2>0, <2>1, <2>2
<1>6. g[0] = <<>>
  BY <1>4 DEF IsLoop
<1>7. IsFlat(g, s, S)
  BY <1>4, <1>5, <1>6 DEF IsFlat, IsLoop
<1>8. CASE n = 0
  BY <1>1, <1>6, <1>7, <1>8 DEF FlattenSeq
<1>9. CASE n # 0
  <2> HIDE DEF R
  <2> DEFINE f == [i \in 1..n |-> g[i]]
  <2>1. Flat(f)
    <3>3. ASSUME NEW i \in 1..n
          PROVE  f[i] = IF i = 1 THEN s[i] ELSE f[i - 1] \o s[i]
      <4>1. CASE i = 1
        <5>1. g[i - 1] = <<>> /\ s[i] \in R
          BY <1>1, <1>6, <4>1
        <5>2. g[i] = s[i]
          BY <1>3, <1>5, <5>1
        <5>3. f[i] = g[i]
          OBVIOUS
        <5> QED BY <4>1, <5>2, <5>3, Zenon
      <4>2. CASE i # 1
        <5>1. i - 1 \in 1..n
          BY <1>1, <4>2
        <5>2. f[i] = g[i] /\ f[i - 1] = g[i - 1]
          BY <5>1
        <5> QED BY <1>5, <4>2, <5>2, Zenon
      <4> QED BY <4>1, <4>2, Zenon
    <3>4. f = [i \in 1..n |-> f[i]]
      OBVIOUS
    <3> QED BY <3>3, <3>4, Zenon
  <2>2. Flat(flat)
    BY <2>1, Zenon
  <2> HIDE DEF flat
  <2> DEFINE T == {0} \cup {i \in 1..n : flat[i] = g[i]}
  <2>3. ASSUME NEW i \in 1..n, i - 1 \in T PROVE i \in T
    <3>1. flat[i] = IF i = 1 THEN s[i] ELSE flat[i - 1] \o s[i]
      BY <2>2
    <3>2. CASE i = 1
      <4>1. g[i - 1] = <<>> /\ s[i] \in R
        BY <1>1, <1>6, <3>2
      <4>2. g[i] = s[i]
        BY <1>3, <1>5, <4>1
      <4>3. flat[i] = s[i]
        BY <3>1, <3>2, Zenon
      <4> QED BY <4>2, <4>3
    <3>3. CASE i # 1
      <4>1. flat[i - 1] = g[i - 1]
        BY <2>3, <3>3
      <4> QED BY <1>5, <3>1, <3>3, <4>1
    <3> QED BY <3>2, <3>3
  <2>4. \A i \in 0..n : i \in T
    BY <1>1, <2>3, CountUp
  <2>5. flat[n] = g[n]
    BY <1>1, <1>9, <2>4
  <2>6. FlattenSeq(s) = flat[n]
    BY <1>9 DEF FlattenSeq, flat
  <2> QED BY <1>7, <2>5, <2>6
<1> QED BY <1>8, <1>9

\* The concatenation of sequences over S is one.
LEMMA FlattenIn ==
  ASSUME NEW S, NEW s \in Seq(Seq(S))
  PROVE  FlattenSeq(s) \in Seq(S)
<1>1. Len(s) \in 0..Len(s)
  <2>1. Len(s) \in Nat
    BY LenNat
  <2> QED BY <2>1
<1>2. PICK f : IsFlat(f, s, S) /\ FlattenSeq(s) = f[Len(s)]
  BY FlattenRuns
<1> QED BY <1>1, <1>2 DEF IsFlat

\* Whatever adds up the same lists ends in their concatenation.
LEMMA FlattenIs ==
  ASSUME NEW S, NEW s \in Seq(Seq(S)), NEW f, IsFlat(f, s, S)
  PROVE  FlattenSeq(s) = f[Len(s)]
<1>1. PICK g : IsFlat(g, s, S) /\ FlattenSeq(s) = g[Len(s)]
  BY FlattenRuns
<1> DEFINE n == Len(s)
           T == {i \in 0..n : f[i] = g[i]}
<1>2. n \in Nat /\ 0 \in T
  BY <1>1, LenNat DEF IsFlat
<1>3. ASSUME NEW i \in 1..n, i - 1 \in T PROVE i \in T
  <2>1. f[i] = f[i - 1] \o s[i] /\ g[i] = g[i - 1] \o s[i]
    BY <1>1 DEF IsFlat
  <2>2. f[i - 1] = g[i - 1] /\ i \in 0..n
    BY <1>2, <1>3
  <2>3. f[i] = g[i]
    BY <2>1, <2>2, Zenon
  <2> QED BY <2>2, <2>3
<1>4. \A i \in 0..n : i \in T
  BY <1>2, <1>3, CountUp
<1> QED BY <1>1, <1>2, <1>4

\* The empty concatenation, and one more sequence.
LEMMA FlattenAppend ==
  ASSUME NEW S
  PROVE  /\ FlattenSeq(<<>>) = <<>>
         /\ \A s \in Seq(Seq(S)), x \in Seq(S) :
              FlattenSeq(Append(s, x)) = FlattenSeq(s) \o x
<1>1. FlattenSeq(<<>>) = <<>>
  BY DEF FlattenSeq
<1>2. ASSUME NEW s \in Seq(Seq(S)), NEW x \in Seq(S)
      PROVE  FlattenSeq(Append(s, x)) = FlattenSeq(s) \o x
  <2> DEFINE n == Len(s)
             R == Seq(S)
             r == Append(s, x)
  <2>0. s \in Seq(R) /\ x \in R
    OBVIOUS
  <2>1. /\ n \in Nat /\ r \in Seq(R) /\ Len(r) = n + 1 /\ r[n + 1] = x
        /\ \A i \in 1..n : r[i] = s[i]
    <3> HIDE DEF R
    <3> QED BY <2>0, LenNat
  <2> HIDE DEF r
  <2>2. PICK f : IsFlat(f, r, S) /\ FlattenSeq(r) = f[n + 1]
    BY <2>1, FlattenRuns
  <2> DEFINE g == [i \in 0..n |-> f[i]]
  <2>3. IsFlat(g, s, S)
    <3>1. g \in [0..n -> Seq(S)] /\ g[0] = <<>>
      BY <2>1, <2>2 DEF IsFlat
    <3>2. ASSUME NEW i \in 1..n PROVE g[i] = g[i - 1] \o s[i]
      <4>1. i \in 1..(n + 1) /\ i - 1 \in 0..n /\ i \in 0..n
        BY <2>1
      <4>2. f[i] = f[i - 1] \o r[i]
        BY <2>1, <2>2, <4>1 DEF IsFlat
      <4>3. g[i] = f[i] /\ g[i - 1] = f[i - 1] /\ r[i] = s[i]
        BY <2>1, <4>1
      <4> QED BY <4>2, <4>3
    <3> QED BY <3>1, <3>2 DEF IsFlat
  <2>4. FlattenSeq(s) = g[n]
    BY <2>3, FlattenIs
  <2>5. f[n + 1] = f[n] \o r[n + 1]
    <3>1. n + 1 \in 1..(n + 1) /\ (n + 1) - 1 = n
      BY <2>1
    <3> HIDE DEF n
    <3>2. f[n + 1] = f[(n + 1) - 1] \o r[n + 1]
      BY <2>1, <2>2, <3>1 DEF IsFlat
    <3> QED BY <3>1, <3>2
  <2>6. g[n] = f[n]
    BY <2>1
  <2> QED BY <2>1, <2>2, <2>4, <2>5, <2>6 DEF r
<1> QED BY <1>1, <1>2

\* The concatenation of f of each element of s.
FlatMap(s, f) == FlattenSeq([i \in DOMAIN s |-> f[s[i]]])

\* What no element stands for, and what one more adds.
LEMMA FlatMapAppend ==
  ASSUME NEW S, NEW R, NEW f \in [S -> Seq(R)]
  PROVE  /\ FlatMap(<<>>, f) = <<>>
         /\ \A s \in Seq(S) : FlatMap(s, f) \in Seq(R)
         /\ \A s \in Seq(S), x \in S : FlatMap(Append(s, x), f) = FlatMap(s, f) \o f[x]
<1> DEFINE Q == Seq(R)
<1>0. f \in [S -> Q] /\ Q = Seq(R)
  OBVIOUS
<1> HIDE DEF Q
<1>1. \A s : FlatMap(s, f) = FlattenSeq(Mapped(s, f))
  BY DEF FlatMap, Mapped
<1>2. Mapped(<<>>, f) = <<>>
  BY <1>0, MapType, ZenonT(40)
<1>3. \A s \in Seq(S) : Mapped(s, f) \in Seq(Q)
  BY <1>0, MapType, ZenonT(40)
<1>4. ASSUME NEW s \in Seq(S), NEW x \in S
      PROVE  Mapped(Append(s, x), f) = Append(Mapped(s, f), f[x])
  BY <1>0, MapAppend, ZenonT(30)
<1>5. FlatMap(<<>>, f) = <<>>
  BY <1>1, <1>2, FlattenAppend
<1>6. \A s \in Seq(S) : FlatMap(s, f) \in Seq(R)
  <2>1. \A t \in Seq(Q) : FlattenSeq(t) \in Seq(R)
    BY <1>0, FlattenIn
  <2> QED BY <1>1, <1>3, <2>1
<1>7. ASSUME NEW s \in Seq(S), NEW x \in S
      PROVE  FlatMap(Append(s, x), f) = FlatMap(s, f) \o f[x]
  <2>0. \A t \in Seq(Q), y \in Q : FlattenSeq(Append(t, y)) = FlattenSeq(t) \o y
    BY <1>0, FlattenAppend
  <2>1. FlattenSeq(Append(Mapped(s, f), f[x])) = FlattenSeq(Mapped(s, f)) \o f[x]
    <3>1. Mapped(s, f) \in Seq(Q) /\ f[x] \in Q
      BY <1>0, <1>3
    <3> QED BY <2>0, <3>1
  <2> QED BY <1>1, <1>4, <2>1, Zenon
<1> QED BY <1>5, <1>6, <1>7

\* Two lists stand for what each of them does.
LEMMA FlatMapConcat ==
  ASSUME NEW S, NEW R, NEW f \in [S -> Seq(R)], NEW u \in Seq(S), NEW v \in Seq(S)
  PROVE  FlatMap(u \o v, f) = FlatMap(u, f) \o FlatMap(v, f)
<1> DEFINE Splits(w) == FlatMap(u \o w, f) = FlatMap(u, f) \o FlatMap(w, f)
           W == {w \in Seq(S) : Splits(w)}
<1>1. /\ FlatMap(<<>>, f) = <<>>
      /\ \A s \in Seq(S) : FlatMap(s, f) \in Seq(R)
      /\ \A s \in Seq(S), x \in S : FlatMap(Append(s, x), f) = FlatMap(s, f) \o f[x]
  BY FlatMapAppend
<1>2. <<>> \in W
  <2>1. u \o <<>> = u /\ <<>> \in Seq(S)
    OBVIOUS
  <2>2. FlatMap(u, f) \o <<>> = FlatMap(u, f)
    <3>1. FlatMap(u, f) \in Seq(R)
      BY <1>1
    <3> QED BY <3>1
  <2>3. Splits(<<>>)
    BY <1>1, <2>1, <2>2, Zenon
  <2> HIDE DEF Splits
  <2> QED BY <2>1, <2>3
<1>3. ASSUME NEW w \in Seq(S), NEW x \in S, w \in W PROVE Append(w, x) \in W
  <2>1. u \o Append(w, x) = Append(u \o w, x) /\ u \o w \in Seq(S) /\ Append(w, x) \in Seq(S)
    OBVIOUS
  <2>2. FlatMap(Append(u \o w, x), f) = FlatMap(u \o w, f) \o f[x]
    BY <1>1, <2>1
  <2>3. FlatMap(Append(w, x), f) = FlatMap(w, f) \o f[x]
    BY <1>1
  <2>4. f[x] \in Seq(R) /\ FlatMap(u, f) \in Seq(R) /\ FlatMap(w, f) \in Seq(R)
    BY <1>1
  <2>5. FlatMap(u \o w, f) = FlatMap(u, f) \o FlatMap(w, f)
    BY <1>3
  <2>6. (FlatMap(u, f) \o FlatMap(w, f)) \o f[x] = FlatMap(u, f) \o (FlatMap(w, f) \o f[x])
    BY <2>4
  <2>7. Splits(Append(w, x))
    <3> HIDE DEF W
    <3> QED BY <2>1, <2>2, <2>3, <2>5, <2>6, Zenon
  <2> HIDE DEF Splits
  <2> QED BY <2>1, <2>7
<1> HIDE DEF W
<1>4. \A w \in Seq(S) : w \in W
  BY <1>2, <1>3, BuiltUp
<1>5. v \in W
  BY <1>4
<1> HIDE DEF Splits
<1>6. Splits(v)
  BY <1>5 DEF W
<1> QED BY <1>6 DEF Splits

\* Its elements are those of the f of the elements of s.
LEMMA FlatMapElements ==
  ASSUME NEW S, NEW R, NEW f \in [S -> Seq(R)], NEW s \in Seq(S)
  PROVE  ToSet(FlatMap(s, f)) = UNION {ToSet(f[x]) : x \in ToSet(s)}
<1> DEFINE W == {w \in Seq(S) : ToSet(FlatMap(w, f)) = UNION {ToSet(f[x]) : x \in ToSet(w)}}
<1>1. /\ FlatMap(<<>>, f) = <<>>
      /\ \A w \in Seq(S) : FlatMap(w, f) \in Seq(R)
      /\ \A w \in Seq(S), x \in S : FlatMap(Append(w, x), f) = FlatMap(w, f) \o f[x]
  BY FlatMapAppend
<1>2. <<>> \in W
  BY <1>1 DEF ToSet
<1>3. ASSUME NEW w \in Seq(S), NEW x \in S, w \in W PROVE Append(w, x) \in W
  <2>1. Append(w, x) \in Seq(S) /\ FlatMap(w, f) \in Seq(R) /\ f[x] \in Seq(R)
    BY <1>1
  <2>2. ToSet(Append(w, x)) = ToSet(w) \cup {x}
    BY AppendSet
  <2>3. ToSet(FlatMap(Append(w, x), f)) = ToSet(FlatMap(w, f)) \cup ToSet(f[x])
    <3>1. \A a, b \in Seq(R) : ToSet(a \o b) = ToSet(a) \cup ToSet(b)
      BY ConcatSet
    <3>2. ToSet(FlatMap(w, f) \o f[x]) = ToSet(FlatMap(w, f)) \cup ToSet(f[x])
      BY <2>1, <3>1
    <3> QED BY <1>1, <3>2
  <2>4. ToSet(FlatMap(w, f)) = UNION {ToSet(f[y]) : y \in ToSet(w)}
    BY <1>3
  <2>5. ToSet(FlatMap(Append(w, x), f)) = UNION {ToSet(f[y]) : y \in ToSet(Append(w, x))}
    <3> HIDE DEF W
    <3> QED BY <2>2, <2>3, <2>4
  <2> QED BY <2>1, <2>5
<1> HIDE DEF W
<1>4. \A w \in Seq(S) : w \in W
  BY <1>2, <1>3, BuiltUp
<1> QED BY <1>4 DEF W

-----------------------------------------------------------------------------
(* Selections *)

\* One more element to select from.
LEMMA SiftAppend ==
  ASSUME NEW S, NEW keep, NEW s \in Seq(S), NEW x \in S
  PROVE  Sift(Append(s, x), keep) = IF x \in keep THEN Append(Sift(s, keep), x)
                                    ELSE Sift(s, keep)
<1> DEFINE n == Len(s)
           r == Append(s, x)
<1>1. /\ n \in Nat /\ r \in Seq(S) /\ Len(r) = n + 1 /\ r[n + 1] = x
      /\ \A i \in 1..n : r[i] = s[i]
  BY LenNat, AppendIs
<1> HIDE DEF r
<1>2. PICK f : IsSift(f, r, keep, S)
  BY <1>1, SiftRuns
<1>3. PICK g : IsSift(g, s, keep, S)
  BY SiftRuns
<1>4. /\ f[0] = <<>> /\ g[0] = <<>>
      /\ Sift(r, keep) = f[n + 1] /\ Sift(s, keep) = g[n]
  BY <1>1, <1>2, <1>3 DEF IsSift
<1>5. \A i \in 1..n : g[i] = IF s[i] \in keep THEN Append(g[i - 1], s[i]) ELSE g[i - 1]
  BY <1>3 DEF IsSift
<1>6. \A i \in 1..(n + 1) :
         f[i] = IF r[i] \in keep THEN Append(f[i - 1], r[i]) ELSE f[i - 1]
  BY <1>1, <1>2 DEF IsSift
<1> HIDE DEF n
<1> DEFINE T == {i \in 0..n : f[i] = g[i]}
<1>7. 0 \in T
  BY <1>1, <1>4
<1>8. ASSUME NEW i \in 1..n, i - 1 \in T PROVE i \in T
  <2>1. i \in 1..(n + 1) /\ i \in 0..n /\ r[i] = s[i] /\ f[i - 1] = g[i - 1]
    BY <1>1, <1>8
  <2>2. f[i] = g[i]
    BY <1>5, <1>6, <2>1, Zenon
  <2> QED BY <2>1, <2>2
<1>9. f[n] = g[n]
  <2>1. \A i \in 0..n : i \in T
    BY <1>1, <1>7, <1>8, CountUp
  <2> QED BY <1>1, <2>1
<1>10. n + 1 \in 1..(n + 1) /\ (n + 1) - 1 = n
  BY <1>1
<1>11. f[n + 1] = IF r[n + 1] \in keep THEN Append(f[(n + 1) - 1], r[n + 1])
                  ELSE f[(n + 1) - 1]
  BY <1>6, <1>10, Zenon
<1> QED BY <1>1, <1>4, <1>9, <1>10, <1>11 DEF r

\* Nothing is selected from nothing.
LEMMA SiftEmpty == \A keep : Sift(<<>>, keep) = <<>>
<1> SUFFICES ASSUME NEW keep PROVE Sift(<<>>, keep) = <<>>
  OBVIOUS
<1>1. ASSUME NEW s \in Seq(Int), Len(s) = 0 PROVE Sift(s, keep) = <<>>
  <2>1. PICK f : IsSift(f, s, keep, Int)
    BY SiftRuns
  <2> QED BY <1>1, <2>1 DEF IsSift
<1>2. <<>> \in Seq(Int) /\ Len(<<>>) = 0
  OBVIOUS
<1> QED BY <1>1, <1>2

\* Selecting distributes over concatenation.
LEMMA SiftConcat ==
  ASSUME NEW S, NEW keep, NEW u \in Seq(S), NEW v \in Seq(S)
  PROVE  Sift(u \o v, keep) = Sift(u, keep) \o Sift(v, keep)
<1> DEFINE n == Len(v)
           Splits(w) == Sift(u \o w, keep) = Sift(u, keep) \o Sift(w, keep)
           T == {i \in 0..n : Splits(SubSeq(v, 1, i))}
<1>1. /\ n \in Nat /\ (\A i \in 1..n : v[i] \in S)
      /\ \A w \in Seq(S) : Sift(w, keep) \in Seq(S)
  <2>1. \A w \in Seq(S) : Sift(w, keep) \in Seq(S \cap keep)
    BY SiftIn
  <2>2. Seq(S \cap keep) \subseteq Seq(S)
    OBVIOUS
  <2> QED BY <2>1, <2>2, LenNat
<1>2. /\ SubSeq(v, 1, 0) = <<>> /\ SubSeq(v, 1, n) = v
      /\ \A i \in 0..n : SubSeq(v, 1, i) \in Seq(S)
      /\ \A i \in 1..n : SubSeq(v, 1, i) = Append(SubSeq(v, 1, i - 1), v[i])
  BY PrefixStep
<1>a. \A s \in Seq(S), x \in S :
         Sift(Append(s, x), keep) = IF x \in keep THEN Append(Sift(s, keep), x)
                                    ELSE Sift(s, keep)
  BY SiftAppend
<1>3. 0 \in T
  <2>1. \A w \in Seq(S) : w \o <<>> = w
    OBVIOUS
  <2>2. u \o <<>> = u /\ Sift(u, keep) \o <<>> = Sift(u, keep)
    BY <1>1, <2>1
  <2>3. Splits(<<>>)
    BY <2>2, SiftEmpty, Zenon
  <2> HIDE DEF Splits
  <2>4. Splits(SubSeq(v, 1, 0))
    BY <1>2, <2>3, Zenon
  <2> HIDE DEF n
  <2> QED BY <1>1, <2>4
<1>4. ASSUME NEW i \in 1..n, i - 1 \in T PROVE i \in T
  <2> DEFINE p == SubSeq(v, 1, i - 1)
             a == Sift(u, keep)
             b == Sift(p, keep)
  <2>1. i - 1 \in 0..n /\ i \in 0..n /\ v[i] \in S
    BY <1>1
  <2>2. p \in Seq(S) /\ SubSeq(v, 1, i) = Append(p, v[i]) /\ Splits(p)
    BY <1>2, <1>4, <2>1
  <2> HIDE DEF p
  <2>3. u \o Append(p, v[i]) = Append(u \o p, v[i]) /\ u \o p \in Seq(S)
    BY <2>1, <2>2
  <2>4. Sift(Append(u \o p, v[i]), keep)
          = IF v[i] \in keep THEN Append(Sift(u \o p, keep), v[i]) ELSE Sift(u \o p, keep)
    BY <1>a, <2>1, <2>3
  <2>5. Sift(Append(p, v[i]), keep) = IF v[i] \in keep THEN Append(b, v[i]) ELSE b
    BY <1>a, <2>1, <2>2
  <2>6. a \in Seq(S) /\ b \in Seq(S)
    BY <1>1, <2>2
  <2>7. Sift(u \o p, keep) = a \o b
    BY <2>2
  <2>8. Splits(Append(p, v[i]))
    <3> HIDE DEF a, b
    <3>1. a \o Append(b, v[i]) = Append(a \o b, v[i])
      BY <2>1, <2>6
    <3>2. CASE v[i] \in keep
      <4>1. Sift(u \o Append(p, v[i]), keep) = a \o Sift(Append(p, v[i]), keep)
        BY <2>3, <2>4, <2>5, <2>7, <3>1, <3>2, Zenon
      <4> QED BY <4>1 DEF a
    <3>3. CASE v[i] \notin keep
      <4>1. Sift(u \o Append(p, v[i]), keep) = a \o Sift(Append(p, v[i]), keep)
        BY <2>3, <2>4, <2>5, <2>7, <3>3, Zenon
      <4> QED BY <4>1 DEF a
    <3> QED BY <3>2, <3>3
  <2> HIDE DEF Splits
  <2> QED BY <2>1, <2>2, <2>8
<1>5. \A i \in 0..n : i \in T
  BY <1>1, <1>3, <1>4, CountUp
<1>6. Splits(v)
  <2> HIDE DEF Splits
  <2>1. Splits(SubSeq(v, 1, n))
    BY <1>1, <1>5
  <2> QED BY <1>2, <2>1, Zenon
<1> QED BY <1>6

\* Selecting what is all there changes nothing.
LEMMA SiftAll ==
  ASSUME NEW S, NEW keep, NEW s \in Seq(S), \A i \in 1..Len(s) : s[i] \in keep
  PROVE  Sift(s, keep) = s
<1>1. Len(s) \in Nat /\ Len(s) \in 0..Len(s)
  BY LenNat
<1>2. \A k \in 0..Len(s) : (\A i \in 1..Len(s) : s[i] \in keep <=> i <= k) =>
         /\ Sift(s, keep) \in Seq(S) /\ Len(Sift(s, keep)) = k
         /\ \A j \in 1..k : Sift(s, keep)[j] = s[j]
  BY SiftPrefix
<1>3. \A i \in 1..Len(s) : s[i] \in keep <=> i <= Len(s)
  BY <1>1
<1>4. /\ Sift(s, keep) \in Seq(S) /\ Len(Sift(s, keep)) = Len(s)
      /\ \A j \in 1..Len(s) : Sift(s, keep)[j] = s[j]
  BY <1>1, <1>2, <1>3
<1> QED BY <1>1, <1>4

\* Two ways to say what is kept of s.
LEMMA SiftAgrees ==
  ASSUME NEW S, NEW keep, NEW other, NEW s \in Seq(S),
         \A i \in 1..Len(s) : s[i] \in keep <=> s[i] \in other
  PROVE  Sift(s, keep) = Sift(s, other)
<1> DEFINE W == {w \in Seq(S) : (\A i \in 1..Len(w) : w[i] \in keep <=> w[i] \in other)
                                  => Sift(w, keep) = Sift(w, other)}
<1>1. <<>> \in W
  BY SiftEmpty
<1>2. ASSUME NEW w \in Seq(S), NEW x \in S, w \in W PROVE Append(w, x) \in W
  <2> DEFINE r == Append(w, x)
  <2>1. /\ r \in Seq(S) /\ Len(w) \in Nat /\ Len(r) = Len(w) + 1 /\ r[Len(w) + 1] = x
        /\ \A i \in 1..Len(w) : r[i] = w[i]
    BY AppendIs, LenNat
  <2>2. SUFFICES ASSUME \A i \in 1..Len(r) : r[i] \in keep <=> r[i] \in other
                 PROVE  Sift(r, keep) = Sift(r, other)
    BY <2>1
  <2> HIDE DEF r
  <2>3. \A i \in 1..Len(w) : i \in 1..Len(r)
    BY <2>1
  <2>4. \A i \in 1..Len(w) : w[i] \in keep <=> w[i] \in other
    BY <2>1, <2>2, <2>3
  <2>5. x \in keep <=> x \in other
    <3>1. Len(w) + 1 \in 1..Len(r)
      BY <2>1
    <3> QED BY <2>1, <2>2, <3>1
  <2>6. Sift(w, keep) = Sift(w, other)
    BY <1>2, <2>4
  <2>7. /\ Sift(r, keep) = IF x \in keep THEN Append(Sift(w, keep), x) ELSE Sift(w, keep)
        /\ Sift(r, other) = IF x \in other THEN Append(Sift(w, other), x) ELSE Sift(w, other)
    BY SiftAppend DEF r
  <2> QED BY <2>5, <2>6, <2>7
<1> HIDE DEF W
<1>3. \A w \in Seq(S) : w \in W
  BY <1>1, <1>2, BuiltUp
<1>4. s \in W
  BY <1>3
<1> QED BY <1>4 DEF W

-----------------------------------------------------------------------------
(* What the elements of a list are worth *)

\* What a list is worth, at a value for each of its elements.
Worth(s, val) == SumSeq([i \in DOMAIN s |-> val[s[i]]])

\* The worth of no element, and of one more.
LEMMA WorthAppend ==
  ASSUME NEW S, NEW val \in [S -> Int]
  PROVE  /\ Worth(<<>>, val) = 0
         /\ \A s \in Seq(S) : Worth(s, val) \in Int
         /\ \A s \in Seq(S), x \in S : Worth(Append(s, x), val) = Worth(s, val) + val[x]
<1>1. \A s : Worth(s, val) = SumSeq(Mapped(s, val))
  BY DEF Worth, Mapped
<1>2. /\ Mapped(<<>>, val) = <<>>
      /\ \A s \in Seq(S) : Mapped(s, val) \in Seq(Int)
  BY MapType
<1>3. Worth(<<>>, val) = 0
  BY <1>1, <1>2, SumAppend
<1>4. \A s \in Seq(S) : Worth(s, val) \in Int
  <2>1. \A t \in Seq(Int) : SumSeq(t) \in Int
    BY SumIn
  <2> QED BY <1>1, <1>2, <2>1
<1>5. ASSUME NEW s \in Seq(S), NEW x \in S
      PROVE  Worth(Append(s, x), val) = Worth(s, val) + val[x]
  <2>1. SumSeq(Append(Mapped(s, val), val[x])) = SumSeq(Mapped(s, val)) + val[x]
    <3>1. Mapped(s, val) \in Seq(Int) /\ val[x] \in Int
      BY <1>2
    <3> QED BY <3>1, SumAppend
  <2>2. Mapped(Append(s, x), val) = Append(Mapped(s, val), val[x])
    BY MapAppend
  <2> QED BY <1>1, <2>1, <2>2
<1> QED BY <1>3, <1>4, <1>5

\* Lists are worth together what each is worth.
LEMMA WorthConcat ==
  ASSUME NEW S, NEW val \in [S -> Int], NEW u \in Seq(S), NEW v \in Seq(S)
  PROVE  Worth(u \o v, val) = Worth(u, val) + Worth(v, val)
<1> DEFINE Adds(w) == Worth(u \o w, val) = Worth(u, val) + Worth(w, val)
           W == {w \in Seq(S) : Adds(w)}
<1>1. /\ Worth(<<>>, val) = 0
      /\ \A s \in Seq(S) : Worth(s, val) \in Int
      /\ \A s \in Seq(S), x \in S : Worth(Append(s, x), val) = Worth(s, val) + val[x]
  BY WorthAppend
<1>2. <<>> \in W
  <2>1. u \o <<>> = u /\ <<>> \in Seq(S)
    OBVIOUS
  <2> QED BY <1>1, <2>1
<1>3. ASSUME NEW w \in Seq(S), NEW x \in S, w \in W PROVE Append(w, x) \in W
  <2>1. u \o Append(w, x) = Append(u \o w, x) /\ u \o w \in Seq(S) /\ Append(w, x) \in Seq(S)
    OBVIOUS
  <2>2. Worth(Append(u \o w, x), val) = Worth(u \o w, val) + val[x]
    BY <1>1, <2>1
  <2>3. Worth(Append(w, x), val) = Worth(w, val) + val[x]
    BY <1>1
  <2>4. val[x] \in Int /\ Worth(u, val) \in Int /\ Worth(w, val) \in Int
    BY <1>1
  <2>5. Worth(u \o w, val) = Worth(u, val) + Worth(w, val)
    BY <1>3
  <2> HIDE DEF W
  <2>6. Adds(Append(w, x))
    BY <2>1, <2>2, <2>3, <2>4, <2>5
  <2> QED BY <2>1, <2>6 DEF W
<1> HIDE DEF W
<1>4. \A w \in Seq(S) : w \in W
  BY <1>2, <1>3, BuiltUp
<1> QED BY <1>4 DEF W

\* A list of things worth nothing less than zero is worth no less than zero.
LEMMA WorthNat ==
  ASSUME NEW S, NEW val \in [S -> Nat], NEW s \in Seq(S)
  PROVE  Worth(s, val) \in Nat
<1> DEFINE W == {w \in Seq(S) : Worth(w, val) \in Nat}
<1>0. val \in [S -> Int]
  OBVIOUS
<1>1. /\ Worth(<<>>, val) = 0
      /\ \A w \in Seq(S), x \in S : Worth(Append(w, x), val) = Worth(w, val) + val[x]
  BY <1>0, WorthAppend
<1>2. <<>> \in W
  BY <1>1
<1>3. ASSUME NEW w \in Seq(S), NEW x \in S, w \in W PROVE Append(w, x) \in W
  <2>1. Append(w, x) \in Seq(S) /\ Worth(w, val) \in Nat /\ val[x] \in Nat
    BY <1>3
  <2>2. Worth(Append(w, x), val) = Worth(w, val) + val[x]
    BY <1>1
  <2>3. Worth(Append(w, x), val) \in Nat
    BY <2>1, <2>2
  <2> QED BY <2>1, <2>3
<1> HIDE DEF W
<1>4. \A w \in Seq(S) : w \in W
  BY <1>2, <1>3, BuiltUp
<1> QED BY <1>4 DEF W

\* A list is worth something when one of its elements is.
LEMMA WorthSome ==
  ASSUME NEW S, NEW val \in [S -> Nat]
  PROVE  \A s \in Seq(S) : Worth(s, val) > 0 <=> \E x \in ToSet(s) : val[x] > 0
<1> DEFINE W == {s \in Seq(S) : Worth(s, val) \in Nat
                                /\ (Worth(s, val) > 0 <=> \E x \in ToSet(s) : val[x] > 0)}
<1>0. val \in [S -> Int]
  OBVIOUS
<1>1. <<>> \in W
  <2>1. Worth(<<>>, val) = 0 /\ ToSet(<<>>) = {} /\ <<>> \in Seq(S)
    BY <1>0, WorthAppend DEF ToSet
  <2> QED BY <2>1
<1>2. ASSUME NEW s \in Seq(S), NEW x \in S, s \in W PROVE Append(s, x) \in W
  <2>1. Worth(Append(s, x), val) = Worth(s, val) + val[x]
    BY <1>0, WorthAppend
  <2>2. ToSet(Append(s, x)) = ToSet(s) \cup {x}
    BY AppendSet
  <2>3. Append(s, x) \in Seq(S) /\ val[x] \in Nat /\ Worth(s, val) \in Nat
    BY <1>2
  <2> DEFINE a == Worth(s, val)
             b == val[x]
             some(q) == \E y \in ToSet(q) : val[y] > 0
  <2>4. a > 0 <=> some(s)
    BY <1>2
  <2>5. some(Append(s, x)) <=> some(s) \/ b > 0
    BY <2>2
  <2>6. a \in Nat /\ b \in Nat /\ Worth(Append(s, x), val) = a + b
    BY <2>1, <2>3
  <2> HIDE DEF some, a, b
  <2>7. Worth(Append(s, x), val) > 0 <=> some(Append(s, x))
    BY <2>4, <2>5, <2>6
  <2>8. Worth(Append(s, x), val) \in Nat
    BY <2>6
  <2> QED BY <2>3, <2>7, <2>8 DEF some
<1> HIDE DEF W
<1>3. \A s \in Seq(S) : s \in W
  BY <1>1, <1>2, BuiltUp
<1> QED BY <1>3 DEF W

\* Values that agree on the elements of s are worth the same.
LEMMA WorthAgrees ==
  ASSUME NEW S, NEW a \in [S -> Int], NEW b \in [S -> Int], NEW s \in Seq(S),
         \A i \in 1..Len(s) : a[s[i]] = b[s[i]]
  PROVE  Worth(s, a) = Worth(s, b)
<1>1. DOMAIN s = 1..Len(s)
  BY LenNat
<1>2. [i \in DOMAIN s |-> a[s[i]]] = [i \in DOMAIN s |-> b[s[i]]]
  BY <1>1
<1> QED BY <1>2 DEF Worth

\* The value val for what is in keep, nothing for the rest.
Within(S, val, keep) == [x \in S |-> IF x \in keep THEN val[x] ELSE 0]

\* a is b and c together, element by element.
IsTogether(S, a, b, c) ==
  /\ a \in [S -> Int] /\ b \in [S -> Int] /\ c \in [S -> Int]
  /\ \A x \in S : a[x] = b[x] + c[x]

\* Then a list is worth at a what it is worth at b and at c together.
LEMMA WorthSplits ==
  ASSUME NEW S, NEW a, NEW b, NEW c, IsTogether(S, a, b, c), NEW s \in Seq(S)
  PROVE  Worth(s, a) = Worth(s, b) + Worth(s, c)
<1> DEFINE W == {w \in Seq(S) : Worth(w, a) = Worth(w, b) + Worth(w, c)}
<1>0. /\ a \in [S -> Int] /\ b \in [S -> Int] /\ c \in [S -> Int]
      /\ \A x \in S : a[x] = b[x] + c[x]
  BY DEF IsTogether
<1>1. \A v \in [S -> Int] :
      /\ Worth(<<>>, v) = 0
      /\ \A w \in Seq(S) : Worth(w, v) \in Int
      /\ \A w \in Seq(S), x \in S : Worth(Append(w, x), v) = Worth(w, v) + v[x]
  BY WorthAppend
<1>2. <<>> \in W
  <2>1. Worth(<<>>, a) = 0 /\ Worth(<<>>, b) = 0 /\ Worth(<<>>, c) = 0
    BY <1>0, <1>1
  <2>2. <<>> \in Seq(S)
    OBVIOUS
  <2> QED BY <2>1, <2>2
<1>3. ASSUME NEW w \in Seq(S), NEW x \in S, w \in W PROVE Append(w, x) \in W
  <2>1. Append(w, x) \in Seq(S)
    OBVIOUS
  <2>2. /\ Worth(Append(w, x), a) = Worth(w, a) + a[x]
        /\ Worth(Append(w, x), b) = Worth(w, b) + b[x]
        /\ Worth(Append(w, x), c) = Worth(w, c) + c[x]
    BY <1>0, <1>1
  <2>3. /\ Worth(w, a) \in Int /\ Worth(w, b) \in Int /\ Worth(w, c) \in Int
        /\ a[x] \in Int /\ b[x] \in Int /\ c[x] \in Int
    BY <1>0, <1>1
  <2>4. Worth(w, a) = Worth(w, b) + Worth(w, c) /\ a[x] = b[x] + c[x]
    BY <1>0, <1>3
  <2>5. Worth(Append(w, x), a) = Worth(Append(w, x), b) + Worth(Append(w, x), c)
    BY <2>2, <2>3, <2>4
  <2> QED BY <2>1, <2>5
<1> HIDE DEF W
<1>4. \A w \in Seq(S) : w \in W
  BY <1>2, <1>3, BuiltUp
<1>5. s \in W
  BY <1>4
<1> QED BY <1>5 DEF W

\* A selection is worth what its elements are worth in the whole list.
LEMMA WorthSift ==
  ASSUME NEW S, NEW val \in [S -> Int], NEW keep, NEW s \in Seq(S)
  PROVE  Worth(Sift(s, keep), val) = Worth(s, Within(S, val, keep))
<1> DEFINE part == Within(S, val, keep)
           W == {w \in Seq(S) : Worth(Sift(w, keep), val) = Worth(w, part)}
<1>0. part \in [S -> Int] /\ \A x \in S : part[x] = IF x \in keep THEN val[x] ELSE 0
  BY DEF Within
<1> HIDE DEF part
<1>1. \A v \in [S -> Int] :
      /\ Worth(<<>>, v) = 0
      /\ \A w \in Seq(S) : Worth(w, v) \in Int
      /\ \A w \in Seq(S), x \in S : Worth(Append(w, x), v) = Worth(w, v) + v[x]
  BY WorthAppend
<1>2. <<>> \in W
  <2>1. Worth(Sift(<<>>, keep), val) = Worth(<<>>, part)
    BY <1>0, <1>1, SiftEmpty
  <2>2. <<>> \in Seq(S)
    OBVIOUS
  <2> QED BY <2>1, <2>2
<1>3. ASSUME NEW w \in Seq(S), NEW x \in S, w \in W PROVE Append(w, x) \in W
  <2>1. Append(w, x) \in Seq(S)
    OBVIOUS
  <2>2. Sift(Append(w, x), keep) = IF x \in keep THEN Append(Sift(w, keep), x)
                                   ELSE Sift(w, keep)
    BY SiftAppend
  <2>3. Sift(w, keep) \in Seq(S)
    <3>1. Sift(w, keep) \in Seq(S \cap keep)
      BY SiftIn
    <3> QED BY <3>1
  <2>4. Worth(Append(w, x), part) = Worth(w, part) + part[x]
    BY <1>0, <1>1
  <2>5. Worth(Append(Sift(w, keep), x), val) = Worth(Sift(w, keep), val) + val[x]
    BY <1>1, <2>3
  <2>6. Worth(Sift(w, keep), val) = Worth(w, part) /\ Worth(w, part) \in Int
    BY <1>0, <1>1, <1>3
  <2>7. Worth(Sift(Append(w, x), keep), val) = Worth(Append(w, x), part)
    <3>1. CASE x \in keep
      BY <1>0, <2>2, <2>4, <2>5, <2>6, <3>1
    <3>2. CASE x \notin keep
      BY <1>0, <2>2, <2>4, <2>6, <3>2
    <3> QED BY <3>1, <3>2
  <2> QED BY <2>1, <2>7
<1> HIDE DEF W
<1>4. \A w \in Seq(S) : w \in W
  BY <1>2, <1>3, BuiltUp
<1> QED BY <1>4 DEF W, part

\* A selection is worth no more than the list, when nothing is worth less
\* than zero.
LEMMA SiftLess ==
  ASSUME NEW S, NEW val \in [S -> Nat], NEW keep, NEW s \in Seq(S)
  PROVE  Worth(Sift(s, keep), val) \in Nat /\ Worth(Sift(s, keep), val) <= Worth(s, val)
<1> DEFINE W == {w \in Seq(S) : /\ Worth(Sift(w, keep), val) \in Nat
                                /\ Worth(Sift(w, keep), val) <= Worth(w, val)}
<1>0. val \in [S -> Int]
  OBVIOUS
<1>1. /\ Worth(<<>>, val) = 0
      /\ \A w \in Seq(S), x \in S : Worth(Append(w, x), val) = Worth(w, val) + val[x]
  BY <1>0, WorthAppend
<1>2. <<>> \in W
  BY <1>1, SiftEmpty
<1>3. ASSUME NEW w \in Seq(S), NEW x \in S, w \in W PROVE Append(w, x) \in W
  <2> DEFINE v == Sift(w, keep)
             r == Append(w, x)
  <2>1. v \in Seq(S)
    <3>1. v \in Seq(S \cap keep)
      BY SiftIn
    <3> HIDE DEF v
    <3> QED BY <3>1
  <2>2. r \in Seq(S) /\ Worth(r, val) = Worth(w, val) + val[x] /\ Worth(w, val) \in Nat
    BY <1>1, WorthNat
  <2>3. Sift(r, keep) = IF x \in keep THEN Append(v, x) ELSE v
    BY SiftAppend
  <2>4. Worth(v, val) \in Nat /\ Worth(v, val) <= Worth(w, val) /\ val[x] \in Nat
    BY <1>3
  <2> HIDE DEF v, r, W
  <2>5. Worth(Append(v, x), val) = Worth(v, val) + val[x]
    BY <1>1, <2>1
  <2>6. /\ Worth(Sift(r, keep), val) \in Nat
        /\ Worth(Sift(r, keep), val) <= Worth(r, val)
    <3>1. CASE x \in keep
      BY <2>2, <2>3, <2>4, <2>5, <3>1
    <3>2. CASE x \notin keep
      BY <2>2, <2>3, <2>4, <3>2
    <3> QED BY <3>1, <3>2
  <2> QED BY <2>2, <2>6 DEF W, r
<1> HIDE DEF W
<1>4. \A w \in Seq(S) : w \in W
  BY <1>2, <1>3, BuiltUp
<1> QED BY <1>4 DEF W

-----------------------------------------------------------------------------
(* Lists that name each element once *)

\* In such a list one of its elements counts once, any other not at all.
LEMMA WorthSingle ==
  ASSUME NEW S, NEW val \in [S -> Int], NEW s \in Seq(S), Once(s), NEW x \in S
  PROVE  Worth(s, Within(S, val, {x})) = IF x \in ToSet(s) THEN val[x] ELSE 0
<1> DEFINE one == Within(S, val, {x})
           W == {w \in Seq(S) : Once(w) =>
                   Worth(w, one) = IF x \in ToSet(w) THEN val[x] ELSE 0}
<1>0. one \in [S -> Int] /\ \A y \in S : one[y] = IF y = x THEN val[x] ELSE 0
  BY DEF Within
<1> HIDE DEF one
<1>1. /\ Worth(<<>>, one) = 0
      /\ \A w \in Seq(S), y \in S : Worth(Append(w, y), one) = Worth(w, one) + one[y]
  BY <1>0, WorthAppend
<1>2. <<>> \in W
  BY <1>1 DEF ToSet
<1>3. ASSUME NEW w \in Seq(S), NEW y \in S, w \in W PROVE Append(w, y) \in W
  <2> DEFINE r == Append(w, y)
  <2>1. r \in Seq(S)
    OBVIOUS
  <2>2. ToSet(r) = ToSet(w) \cup {y}
    BY AppendSet
  <2>3. ASSUME Once(r) PROVE Once(w) /\ y \notin ToSet(w)
    BY <2>3, AppendSet
  <2> HIDE DEF r
  <2>4. Worth(r, one) = Worth(w, one) + one[y]
    BY <1>1 DEF r
  <2>5. ASSUME Once(r) PROVE Worth(r, one) = IF x \in ToSet(r) THEN val[x] ELSE 0
    <3>1. Worth(w, one) = IF x \in ToSet(w) THEN val[x] ELSE 0
      BY <1>3, <2>3, <2>5
    <3>2. val[x] \in Int
      OBVIOUS
    <3>3. CASE x = y
      BY <1>0, <2>2, <2>3, <2>4, <2>5, <3>1, <3>2, <3>3
    <3>4. CASE x # y
      BY <1>0, <2>2, <2>4, <3>1, <3>2, <3>4
    <3> QED BY <3>3, <3>4
  <2> QED BY <2>1, <2>5 DEF r
<1> HIDE DEF W
<1>4. \A w \in Seq(S) : w \in W
  BY <1>2, <1>3, BuiltUp
<1> QED BY <1>4 DEF W, one

\* A list of elements of s is worth what these are worth in s.
LEMMA WorthExchange ==
  ASSUME NEW S, NEW val \in [S -> Int], NEW s \in Seq(S), Once(s),
         NEW u \in Seq(S), Once(u), ToSet(u) \subseteq ToSet(s)
  PROVE  Worth(s, Within(S, val, ToSet(u))) = Worth(u, val)
<1> DEFINE W == {w \in Seq(S) : (Once(w) /\ ToSet(w) \subseteq ToSet(s)) =>
                   Worth(s, Within(S, val, ToSet(w))) = Worth(w, val)}
<1>0. \A keep : Within(S, val, keep) \in [S -> Int]
  BY DEF Within
<1>1. /\ Worth(<<>>, val) = 0
      /\ \A w \in Seq(S) : Worth(w, val) \in Int
      /\ \A w \in Seq(S), y \in S : Worth(Append(w, y), val) = Worth(w, val) + val[y]
  BY WorthAppend
<1>2. <<>> \in W
  <2> DEFINE none == Within(S, val, {})
             Z == {w \in Seq(S) : Worth(w, none) = 0}
  <2>1. none \in [S -> Int] /\ \A x \in S : none[x] = 0
    BY DEF Within
  <2> HIDE DEF none
  <2>2. /\ Worth(<<>>, none) = 0
        /\ \A w \in Seq(S), y \in S : Worth(Append(w, y), none) = Worth(w, none) + none[y]
    BY <2>1, WorthAppend
  <2>3. <<>> \in Z
    BY <2>2
  <2>4. ASSUME NEW w \in Seq(S), NEW y \in S, w \in Z PROVE Append(w, y) \in Z
    BY <2>1, <2>2, <2>4
  <2> HIDE DEF Z
  <2>5. s \in Z
    BY <2>3, <2>4, BuiltUp
  <2>6. ToSet(<<>>) = {}
    BY DEF ToSet
  <2>7. Worth(s, Within(S, val, ToSet(<<>>))) = Worth(<<>>, val)
    BY <1>1, <2>5, <2>6 DEF Z, none
  <2>8. <<>> \in Seq(S)
    OBVIOUS
  <2> QED BY <2>7, <2>8
<1>3. ASSUME NEW w \in Seq(S), NEW y \in S, w \in W PROVE Append(w, y) \in W
  <2> DEFINE r == Append(w, y)
             old == Within(S, val, ToSet(w))
             one == Within(S, val, {y})
             new == Within(S, val, ToSet(r))
  <2>1. r \in Seq(S)
    OBVIOUS
  <2>2. ToSet(r) = ToSet(w) \cup {y}
    BY AppendSet
  <2>3. ASSUME Once(r) PROVE Once(w) /\ y \notin ToSet(w)
    BY <2>3, AppendSet
  <2> HIDE DEF r
  <2>4. ASSUME Once(r), ToSet(r) \subseteq ToSet(s) PROVE Worth(s, new) = Worth(r, val)
    <3>1. y \notin ToSet(w) /\ y \in ToSet(s)
      BY <2>2, <2>3, <2>4
    <3>2. Worth(s, new) = Worth(s, old) + Worth(s, one)
      <4>1. IsTogether(S, new, old, one)
        <5> SUFFICES ASSUME NEW x \in S PROVE new[x] = old[x] + one[x]
          BY <1>0 DEF IsTogether
        <5>1. /\ new[x] = IF x \in ToSet(w) \cup {y} THEN val[x] ELSE 0
              /\ old[x] = IF x \in ToSet(w) THEN val[x] ELSE 0
              /\ one[x] = IF x = y THEN val[x] ELSE 0
              /\ val[x] \in Int
          BY <2>2 DEF Within
        <5> QED BY <3>1, <5>1
      <4> HIDE DEF old, one, new, W
      <4> QED BY <4>1, WorthSplits
    <3> HIDE DEF old, one, new
    <3>5. Worth(s, old) = Worth(w, val)
      BY <1>3, <2>2, <2>3, <2>4 DEF old
    <3>6. Worth(s, one) = val[y]
      BY <3>1, WorthSingle DEF one
    <3>7. Worth(r, val) = Worth(w, val) + val[y]
      BY <1>1 DEF r
    <3> QED BY <3>2, <3>5, <3>6, <3>7
  <2> QED BY <2>1, <2>4 DEF r
<1> HIDE DEF W
<1>4. \A w \in Seq(S) : w \in W
  BY <1>2, <1>3, BuiltUp
<1> QED BY <1>4 DEF W

\* A finite set has an enumeration, and SetToSeq returns one.
LEMMA SetToSeqIn ==
  ASSUME NEW S, IsFiniteSet(S)
  PROVE  SetToSeq(S) \in Seq(S)
<1> DEFINE n == Cardinality(S)
<1>1. n \in Nat /\ \E f : f \in Bijection(1..n, S)
  BY FS_CardinalityType DEF ExistsBijection
<1>2. \E f \in [1..n -> S] : IsInjective(f)
  BY <1>1 DEF Bijection, Injection, IsInjective
<1>3. SetToSeq(S) \in [1..n -> S]
  BY <1>2 DEF SetToSeq
<1> QED BY <1>1, <1>3

\* SetToSeq lists each element of a finite set once.
LEMMA SetToSeqOnce ==
  ASSUME NEW S, IsFiniteSet(S)
  PROVE  SetToSeq(S) \in Seq(S) /\ Once(SetToSeq(S)) /\ ToSet(SetToSeq(S)) = S
<1> DEFINE n == Cardinality(S)
           f == SetToSeq(S)
<1>1. n \in Nat /\ \E g : g \in Bijection(1..n, S)
  BY FS_CardinalityType DEF ExistsBijection
<1>2. \E g \in [1..n -> S] : IsInjective(g)
  BY <1>1 DEF Bijection, Injection, IsInjective
<1>3. f \in [1..n -> S] /\ IsInjective(f)
  BY <1>2 DEF SetToSeq
<1> HIDE DEF f
<1>4. f \in Seq(S) /\ Len(f) = n /\ DOMAIN f = 1..n
  BY <1>1, <1>3
<1>5. f \in Injection(1..n, S)
  BY <1>3 DEF Injection, IsInjective
<1>6. IsFiniteSet(1..n) /\ Cardinality(1..n) = n
  <2>1. 0 - 1 + 1 = 0 /\ 1 \in Int /\ n \in Int /\ (1 > n => n = 0)
    BY <1>1
  <2>2. IsFiniteSet(1..n) /\ Cardinality(1..n) = IF 1 > n THEN 0 ELSE n - 1 + 1
    BY <2>1, FS_Interval
  <2> QED BY <1>1, <2>1, <2>2
<1>7. f \in Surjection(1..n, S)
  BY <1>5, <1>6, FS_Injection
<1>8. \A x \in S : \E i \in 1..n : f[i] = x
  BY <1>7 DEF Surjection
<1>9. ToSet(f) = S
  BY <1>3, <1>4, <1>8 DEF ToSet
<1>10. Once(f)
  BY <1>3, <1>4 DEF Once, IsInjective
<1> QED BY <1>4, <1>9, <1>10 DEF f
=============================================================================
