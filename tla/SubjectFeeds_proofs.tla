------------------------- MODULE SubjectFeeds_proofs ------------------------
(***************************************************************************)
(* The feed index, for every chain, every window and epoch, every history  *)
(* bound and saved depth: it is what the last blocks of the chain add up   *)
(* to, through rollbacks, rebuilds and restarts, and what the pages make   *)
(* of it follows.                                                          *)
(***************************************************************************)
EXTENDS SubjectFeeds, SequenceLemmas

Block == [slot : Nat, hash : Hashes]
Targets == Subjects \cup {Nobody}

-----------------------------------------------------------------------------
(* Lists of lists, and two ends to cut *)

\* The lists after the first a, put together.
From(lists, a) == FlattenSeq(SubSeq(lists, a + 1, Len(lists)))

\* FlattenSeq as a FlatMap.
LEMMA FlattenIsMap ==
  ASSUME NEW S, NEW u \in Seq(Seq(S))
  PROVE  FlattenSeq(u) = FlatMap(u, [x \in Seq(S) |-> x])
<1> DEFINE f == [x \in Seq(S) |-> x]
<1>1. \A i \in DOMAIN u : f[u[i]] = u[i]
  BY ElementIn
<1> HIDE DEF f
<1>2. [i \in DOMAIN u |-> f[u[i]]] = u
  <2>1. u = [i \in DOMAIN u |-> u[i]]
    OBVIOUS
  <2> QED BY <1>1, <2>1
<1> QED BY <1>2 DEF FlatMap, f

LEMMA FlattenConcat ==
  ASSUME NEW S, NEW u \in Seq(Seq(S)), NEW v \in Seq(Seq(S))
  PROVE  FlattenSeq(u \o v) = FlattenSeq(u) \o FlattenSeq(v)
<1> DEFINE f == [x \in Seq(S) |-> x]
           Q == Seq(S)
<1>1. f \in [Q -> Seq(S)] /\ u \in Seq(Q) /\ v \in Seq(Q) /\ u \o v \in Seq(Q)
  OBVIOUS
<1>2. /\ FlattenSeq(u) = FlatMap(u, f) /\ FlattenSeq(v) = FlatMap(v, f)
      /\ FlattenSeq(u \o v) = FlatMap(u \o v, f)
  BY <1>1, FlattenIsMap, ZenonT(30)
<1> HIDE DEF f, Q
<1>3. FlatMap(u \o v, f) = FlatMap(u, f) \o FlatMap(v, f)
  BY <1>1, FlatMapConcat, ZenonT(30)
<1> QED BY <1>2, <1>3

LEMMA FlattenElements ==
  ASSUME NEW S, NEW u \in Seq(Seq(S))
  PROVE  ToSet(FlattenSeq(u)) = UNION {ToSet(x) : x \in ToSet(u)}
<1> DEFINE f == [x \in Seq(S) |-> x]
           Q == Seq(S)
<1>1. f \in [Q -> Seq(S)] /\ u \in Seq(Q) /\ FlattenSeq(u) = FlatMap(u, f)
  BY FlattenIsMap
<1>2. \A x \in ToSet(u) : f[x] = x
  BY <1>1, ElementIn DEF ToSet
<1> HIDE DEF f, Q
<1>3. ToSet(FlatMap(u, f)) = UNION {ToSet(f[x]) : x \in ToSet(u)}
  BY <1>1, FlatMapElements, ZenonT(30)
<1> QED BY <1>1, <1>2, <1>3

\* The greater of two integers and the lesser of two naturals.
LEMMA GreaterIs ==
  ASSUME NEW a \in Int, NEW b \in Int
  PROVE  Max({a, b}) = IF a > b THEN a ELSE b
<1> DEFINE T == {a, b}
           m == IF a > b THEN a ELSE b
<1>1. m \in T /\ \A y \in T : m >= y
  OBVIOUS
<1>2. ASSUME NEW x \in T, \A y \in T : x >= y PROVE x = m
  <2>1. x \in Int /\ x >= a /\ x >= b /\ (x = a \/ x = b)
    BY <1>2
  <2> QED BY <2>1
<1> HIDE DEF T, m
<1>3. Max(T) = m
  BY <1>1, <1>2 DEF Max
<1> QED BY <1>3 DEF T, m

LEMMA LesserIs ==
  ASSUME NEW a \in Nat, NEW b \in Nat
  PROVE  Min({a, b}) = IF a < b THEN a ELSE b
<1> DEFINE m == Min({a, b})
<1>1. {a, b} \subseteq Nat /\ {a, b} # {}
  OBVIOUS
<1>2. m \in {a, b} /\ \A y \in {a, b} : m <= y
  BY <1>1, MinIndex
<1>3. m <= a /\ m <= b /\ (m = a \/ m = b)
  BY <1>2
<1> HIDE DEF m
<1>4. m = IF a < b THEN a ELSE b
  BY <1>3
<1> QED BY <1>4 DEF m

\* Sequences of one length and the same elements.
LEMMA SameElements ==
  ASSUME NEW S, NEW u \in Seq(S), NEW v \in Seq(S), Len(u) = Len(v),
         \A i \in 1..Len(u) : u[i] = v[i]
  PROVE  u = v
OBVIOUS

\* A part of a sequence.
LEMMA SliceIs ==
  ASSUME NEW S, NEW s \in Seq(S), NEW a \in Nat, NEW b \in 0..Len(s)
  PROVE  LET t == SubSeq(s, a + 1, b)
         IN  /\ t \in Seq(S) /\ Len(t) = IF a < b THEN b - a ELSE 0
             /\ \A i \in 1..Len(t) : t[i] = s[a + i]
             /\ ~(a < b) => t = <<>>
<1>1. Len(s) \in Nat /\ b \in Nat /\ b <= Len(s)
  BY LenNat
<1>2. CASE a < b
  <2>1. \A i \in (a + 1)..b : s[i] \in S
    BY <1>1
  <2>2. Len(SubSeq(s, a + 1, b)) = b - a /\ \A i \in 1..(b - a) : SubSeq(s, a + 1, b)[i] = s[a + i]
    BY <1>1, <1>2
  <2>3. SubSeq(s, a + 1, b) \in Seq(S)
    BY <1>1, <1>2, <2>1
  <2> QED BY <1>2, <2>2, <2>3
<1>3. CASE ~(a < b)
  <2>1. SubSeq(s, a + 1, b) = <<>>
    BY <1>1, <1>3
  <2> QED BY <1>3, <2>1
<1> QED BY <1>2, <1>3

\* A sequence after its first a, split behind its p-th element.
LEMMA SplitAt ==
  ASSUME NEW S, NEW s \in Seq(S), NEW a \in Nat, NEW p \in 0..Len(s)
  PROVE  LET front == SubSeq(SubSeq(s, 1, p), a + 1, p)
             back == SubSeq(s, (IF a > p THEN a ELSE p) + 1, Len(s))
         IN  /\ SubSeq(s, a + 1, Len(s)) = front \o back
             /\ front \in Seq(S) /\ back \in Seq(S)
<1> DEFINE n == Len(s)
           q == IF a > p THEN a ELSE p
           head == SubSeq(s, 1, p)
           front == SubSeq(head, a + 1, p)
           back == SubSeq(s, q + 1, n)
           all == SubSeq(s, a + 1, n)
<1>1. n \in Nat /\ p \in Nat /\ p <= n /\ q \in Nat /\ n \in 0..n
  BY LenNat
<1>2. head \in Seq(S) /\ Len(head) = p /\ \A i \in 1..p : head[i] = s[i]
  <2>1. head \in Seq(S) /\ Len(head) = p
    BY PrefixStep
  <2>2. \A i \in 1..p : head[i] = s[i]
    BY <1>1
  <2> QED BY <2>1, <2>2
<1> HIDE DEF head
<1>3. /\ front \in Seq(S) /\ Len(front) = IF a < p THEN p - a ELSE 0
      /\ \A i \in 1..Len(front) : front[i] = head[a + i]
  <2>1. p \in 0..Len(head)
    BY <1>1, <1>2
  <2> QED BY <1>2, <2>1, SliceIs
<1> HIDE DEF q
<1>4. /\ back \in Seq(S) /\ Len(back) = IF q < n THEN n - q ELSE 0
      /\ \A i \in 1..Len(back) : back[i] = s[q + i]
  BY <1>1, SliceIs
<1>5. /\ all \in Seq(S) /\ Len(all) = IF a < n THEN n - a ELSE 0
      /\ \A i \in 1..Len(all) : all[i] = s[a + i]
  BY <1>1, SliceIs
<1> HIDE DEF front, back, all, n
<1>6. q = IF a > p THEN a ELSE p
  BY DEF q
<1>7. front \o back \in Seq(S) /\ Len(front \o back) = Len(all)
  <2>0. front \in Seq(S) /\ back \in Seq(S)
    BY <1>3, <1>4
  <2>1. front \o back \in Seq(S) /\ Len(front \o back) = Len(front) + Len(back)
    BY <2>0
  <2>2. Len(front) = IF a < p THEN p - a ELSE 0
    BY <1>3
  <2>3. Len(back) = IF q < n THEN n - q ELSE 0
    BY <1>4
  <2>4. Len(all) = IF a < n THEN n - a ELSE 0
    BY <1>5
  <2>5. Len(front) + Len(back) = Len(all)
    BY <1>1, <1>6, <2>2, <2>3, <2>4
  <2> QED BY <2>1, <2>5
<1>8. ASSUME NEW i \in 1..Len(all) PROVE (front \o back)[i] = all[i]
  <2>1. i \in Nat /\ i >= 1 /\ all[i] = s[a + i] /\ a < n /\ i <= n - a
    BY <1>1, <1>5
  <2>2. CASE i <= Len(front)
    <3>1. i \in 1..Len(front) /\ a < p /\ a + i \in 1..p
      BY <1>1, <1>3, <2>1, <2>2
    <3>2. (front \o back)[i] = front[i]
      BY <1>3, <1>4, <3>1
    <3> QED BY <1>2, <1>3, <2>1, <3>1, <3>2
  <2>3. CASE ~(i <= Len(front))
    <3>1. i - Len(front) \in 1..Len(back) /\ q + (i - Len(front)) = a + i
      <4>1. Len(front) = IF a < p THEN p - a ELSE 0
        BY <1>3
      <4>2. Len(back) = IF q < n THEN n - q ELSE 0
        BY <1>4
      <4> QED BY <1>1, <1>6, <2>1, <2>3, <4>1, <4>2
    <3>2. (front \o back)[i] = back[i - Len(front)]
      BY <1>3, <1>4, <2>3, <3>1, SMTT(30)
    <3> QED BY <1>4, <2>1, <3>1, <3>2
  <2> QED BY <2>2, <2>3
<1>9. front \o back = all
  <2>1. \A i \in 1..Len(front \o back) : (front \o back)[i] = all[i]
    BY <1>7, <1>8
  <2> DEFINE w == front \o back
  <2>2. w \in Seq(S) /\ Len(w) = Len(all) /\ \A i \in 1..Len(w) : w[i] = all[i]
    BY <1>7, <2>1
  <2> HIDE DEF w
  <2>3. w = all
    BY <1>5, <2>2, SameElements
  <2> QED BY <2>3 DEF w
<1> QED BY <1>3, <1>4, <1>9 DEF front, back, all, head, q, n

\* The same of lists.
LEMMA FromSplits ==
  ASSUME NEW S, NEW lists \in Seq(Seq(S)), NEW a \in Nat, NEW p \in 0..Len(lists)
  PROVE  LET front == From(SubSeq(lists, 1, p), a)
             back == From(lists, IF a > p THEN a ELSE p)
         IN  From(lists, a) = front \o back /\ front \in Seq(S) /\ back \in Seq(S)
<1> DEFINE f == SubSeq(SubSeq(lists, 1, p), a + 1, p)
           b == SubSeq(lists, (IF a > p THEN a ELSE p) + 1, Len(lists))
<1>1. SubSeq(lists, a + 1, Len(lists)) = f \o b /\ f \in Seq(Seq(S)) /\ b \in Seq(Seq(S))
  BY SplitAt, ZenonT(30)
<1>2. Len(SubSeq(lists, 1, p)) = p
  BY LenNat
<1> HIDE DEF f, b
<1>3. FlattenSeq(f \o b) = FlattenSeq(f) \o FlattenSeq(b)
  BY <1>1, FlattenConcat
<1>4. FlattenSeq(f) \in Seq(S) /\ FlattenSeq(b) \in Seq(S)
  BY <1>1, FlattenIn
<1> QED BY <1>1, <1>2, <1>3, <1>4 DEF From, f, b

\* One more list.
LEMMA FromAppend ==
  ASSUME NEW S, NEW lists \in Seq(Seq(S)), NEW x \in Seq(S), NEW a \in 0..Len(lists)
  PROVE  From(Append(lists, x), a) = From(lists, a) \o x
<1> DEFINE Q == Seq(S)
           u == SubSeq(lists, a + 1, Len(lists))
<1>1. Len(lists) \in Nat /\ lists \in Seq(Q) /\ x \in Q
  BY LenNat
<1> HIDE DEF Q
<1>2. u \in Seq(Q) /\ SubSeq(Append(lists, x), a + 1, Len(Append(lists, x))) = Append(u, x)
  <2> DEFINE n == Len(lists)
             more == Append(lists, x)
             v == SubSeq(more, a + 1, n + 1)
             w == Append(u, x)
  <2>1. /\ more \in Seq(Q) /\ Len(more) = n + 1 /\ more[n + 1] = x
        /\ \A i \in 1..n : more[i] = lists[i]
    BY <1>1, AppendIs
  <2>2. n \in Nat /\ a \in Nat /\ a <= n /\ n \in 0..n /\ n + 1 \in 0..(n + 1)
    BY <1>1
  <2> HIDE DEF more
  <2>3. /\ v \in Seq(Q) /\ Len(v) = n + 1 - a /\ \A i \in 1..Len(v) : v[i] = more[a + i]
    <3>1. n + 1 \in 0..Len(more) /\ a < n + 1
      BY <2>1, <2>2
    <3> HIDE DEF n
    <3> QED BY <2>1, <2>2, <3>1, SliceIs
  <2>4. /\ u \in Seq(Q) /\ Len(u) = n - a /\ \A i \in 1..Len(u) : u[i] = lists[a + i]
    <3>1. /\ u \in Seq(Q) /\ Len(u) = IF a < n THEN n - a ELSE 0
          /\ \A i \in 1..Len(u) : u[i] = lists[a + i]
      BY <1>1, <2>2, SliceIs
    <3> HIDE DEF u, n
    <3> QED BY <2>2, <3>1
  <2> HIDE DEF u, v, n
  <2>5. /\ w \in Seq(Q) /\ Len(w) = Len(u) + 1 /\ w[Len(u) + 1] = x
        /\ \A i \in 1..Len(u) : w[i] = u[i]
    BY <1>1, <2>4, AppendIs
  <2> HIDE DEF w
  <2>6. ASSUME NEW i \in 1..Len(v) PROVE v[i] = w[i]
    <3>1. CASE i = n - a + 1
      <4>1. a + i = n + 1 /\ i = Len(u) + 1
        BY <2>2, <2>4, <3>1
      <4> QED BY <2>1, <2>3, <2>5, <4>1
    <3>2. CASE i # n - a + 1
      <4>1. i \in 1..Len(u) /\ a + i \in 1..n
        <5>1. Len(v) = n + 1 - a /\ Len(u) = n - a
          BY <2>3, <2>4
        <5> QED BY <2>2, <3>2, <5>1
      <4> QED BY <2>1, <2>3, <2>4, <2>5, <4>1
    <3> QED BY <3>1, <3>2
  <2>7. Len(v) = Len(w)
    BY <2>2, <2>3, <2>4, <2>5
  <2>8. v = w
    BY <2>3, <2>5, <2>6, <2>7, SameElements
  <2> QED BY <2>1, <2>4, <2>8 DEF v, w, more, n
<1> HIDE DEF u
<1>3. FlattenSeq(Append(u, x)) = FlattenSeq(u) \o x
  BY <1>2, FlattenAppend DEF Q
<1> QED BY <1>2, <1>3 DEF From, u

\* What the lists hold.
LEMMA FromElements ==
  ASSUME NEW S, NEW lists \in Seq(Seq(S)), NEW a \in Nat
  PROVE  /\ From(lists, a) \in Seq(S)
         /\ \A e \in ToSet(From(lists, a)) :
              \E i \in (a + 1)..Len(lists) : e \in ToSet(lists[i])
         /\ \A i \in (a + 1)..Len(lists) : ToSet(lists[i]) \subseteq ToSet(From(lists, a))
<1> DEFINE Q == Seq(S)
           n == Len(lists)
           u == SubSeq(lists, a + 1, n)
<1>1. n \in Nat /\ lists \in Seq(Q)
  BY LenNat
<1> HIDE DEF Q
<1>2. u \in Seq(Q)
  BY <1>1
<1>3. ToSet(u) = {lists[i] : i \in (a + 1)..n}
  <2>1. /\ Len(u) = IF a < n THEN n - a ELSE 0
        /\ \A i \in 1..Len(u) : u[i] = lists[a + i]
    <3>1. n \in 0..n
      BY <1>1
    <3> QED BY <1>1, <3>1, SliceIs
  <2>2. DOMAIN u = 1..Len(u) /\ Len(u) \in Nat
    BY <1>2, LenNat
  <2> HIDE DEF u, n
  <2>3. ASSUME NEW x \in ToSet(u) PROVE x \in {lists[i] : i \in (a + 1)..n}
    <3>1. PICK i \in 1..Len(u) : x = u[i]
      BY <2>2 DEF ToSet
    <3>2. a + i \in (a + 1)..n
      BY <1>1, <2>1, <2>2
    <3> QED BY <2>1, <3>1, <3>2
  <2>4. ASSUME NEW j \in (a + 1)..n PROVE lists[j] \in ToSet(u)
    <3>1. j - a \in 1..Len(u) /\ a + (j - a) = j
      BY <1>1, <2>1
    <3>2. lists[j] = u[j - a]
      BY <2>1, <3>1
    <3> QED BY <2>2, <3>1, <3>2 DEF ToSet
  <2> QED BY <2>3, <2>4
<1> HIDE DEF u, n
<1>4. FlattenSeq(u) \in Seq(S) /\ ToSet(FlattenSeq(u)) = UNION {ToSet(x) : x \in ToSet(u)}
  <2>1. u \in Seq(Seq(S))
    BY <1>2 DEF Q
  <2>2. FlattenSeq(u) \in Seq(S)
    BY <2>1, FlattenIn, ZenonT(30)
  <2>3. ToSet(FlattenSeq(u)) = UNION {ToSet(x) : x \in ToSet(u)}
    BY <2>1, FlattenElements, ZenonT(30)
  <2> QED BY <2>2, <2>3
<1>5. From(lists, a) = FlattenSeq(u)
  BY DEF From, u, n
<1>6. ToSet(FlattenSeq(u)) = UNION {ToSet(lists[i]) : i \in (a + 1)..n}
  BY <1>3, <1>4
<1>7. \A e \in ToSet(From(lists, a)) : \E i \in (a + 1)..n : e \in ToSet(lists[i])
  BY <1>5, <1>6
<1>8. \A i \in (a + 1)..n : ToSet(lists[i]) \subseteq ToSet(From(lists, a))
  BY <1>5, <1>6
<1> QED BY <1>4, <1>5, <1>7, <1>8 DEF n

-----------------------------------------------------------------------------
(* partition_point *)

\* Entries have slots.
AllHaveSlots(S) == \A e \in S : e.slot \in Nat

LEMMA PointIs ==
  ASSUME NEW S, AllHaveSlots(S), NEW list \in Seq(S), NEW slot \in Nat, NEW n \in 0..Len(list),
         \A i \in 1..Len(list) : IF i <= n THEN list[i].slot < slot ELSE list[i].slot >= slot
  PROVE  PartitionPoint(list, slot) = n
<1> DEFINE Ok(m) == /\ \A i \in 1..m : list[i].slot < slot
                    /\ m < Len(list) => list[m + 1].slot >= slot
<1>1. Len(list) \in Nat /\ \A i \in 1..Len(list) : list[i].slot \in Nat
  BY LenNat, ElementIn DEF AllHaveSlots
<1>2. Ok(n)
  BY <1>1
<1>3. ASSUME NEW m \in 0..Len(list), Ok(m) PROVE m = n
  <2>1. CASE m < n
    <3>1. m + 1 \in 1..Len(list) /\ m + 1 <= n /\ m < Len(list)
      BY <1>1, <2>1
    <3>2. list[m + 1].slot < slot /\ list[m + 1].slot >= slot
      BY <1>3, <3>1
    <3> QED BY <1>1, <3>1, <3>2
  <2>2. CASE n < m
    <3>1. n + 1 \in 1..Len(list) /\ ~(n + 1 <= n) /\ n + 1 \in 1..m
      BY <1>1, <2>2
    <3>2. list[n + 1].slot < slot /\ list[n + 1].slot >= slot
      BY <1>3, <3>1
    <3> QED BY <1>1, <3>1, <3>2
  <2> QED BY <1>1, <2>1, <2>2
<1> HIDE DEF Ok
<1>4. (CHOOSE m \in 0..Len(list) : Ok(m)) = n
  BY <1>2, <1>3
<1> QED BY <1>4 DEF PartitionPoint, Ok

\* A list that a slot splits is cut there, at either end.
LEMMA CutAt ==
  ASSUME NEW S, AllHaveSlots(S), NEW u \in Seq(S), NEW v \in Seq(S), NEW slot \in Nat,
         \A e \in ToSet(u) : e.slot < slot, \A e \in ToSet(v) : e.slot >= slot
  PROVE  /\ SubSeq(u \o v, 1, PartitionPoint(u \o v, slot)) = u
         /\ DropBefore(u \o v, slot) = v
<1> DEFINE w == u \o v
           n == Len(u)
<1>1. /\ w \in Seq(S) /\ Len(w) = n + Len(v) /\ n \in Nat /\ Len(v) \in Nat
      /\ \A i \in 1..n : w[i] = u[i]
      /\ \A i \in 1..Len(v) : w[n + i] = v[i]
  BY LenNat
<1>2. /\ \A i \in 1..n : u[i].slot < slot
      /\ \A i \in 1..Len(v) : v[i].slot >= slot
  BY LenNat DEF ToSet
<1>3. SubSeq(w, 1, n) = u /\ SubSeq(w, n + 1, Len(w)) = v
  <2>1. SubSeq(w, 1, n) = u
    BY <1>1
  <2>2. n \in Nat /\ Len(w) \in 0..Len(w)
    BY <1>1
  <2> DEFINE t == SubSeq(w, n + 1, Len(w))
  <2>3. /\ t \in Seq(S) /\ Len(t) = IF n < Len(w) THEN Len(w) - n ELSE 0
        /\ \A i \in 1..Len(t) : t[i] = w[n + i]
    BY <1>1, <2>2, SliceIs
  <2> HIDE DEF t, w, n
  <2>4. Len(t) = Len(v)
    BY <1>1, <2>3
  <2>5. t = v
    BY <1>1, <2>3, <2>4, SameElements
  <2> QED BY <2>1, <2>5 DEF t
<1> HIDE DEF w, n
<1>4. ASSUME NEW i \in 1..Len(w)
      PROVE  IF i <= n THEN w[i].slot < slot ELSE w[i].slot >= slot
  <2>1. CASE i <= n
    BY <1>1, <1>2, <2>1
  <2>2. CASE ~(i <= n)
    <3>1. i - n \in 1..Len(v) /\ n + (i - n) = i
      BY <1>1, <2>2
    <3>2. w[i] = v[i - n]
      BY <1>1, <3>1
    <3> QED BY <1>2, <2>2, <3>1, <3>2
  <2> QED BY <2>1, <2>2
<1>5. n \in 0..Len(w)
  BY <1>1
<1>6. PartitionPoint(w, slot) = n
  BY <1>1, <1>4, <1>5, PointIs
<1> QED BY <1>3, <1>6 DEF DropBefore, w

-----------------------------------------------------------------------------
(* Chains, and what their blocks add to the index *)

\* A chain that a node delivers: slots increase.
IsChain(c) ==
  /\ c \in Seq(Block)
  /\ \A i, j \in 1..Len(c) : i < j => c[i].slot < c[j].slot

\* Lists of entries, one for each block of c, with the block's slot.
IsDated(lists, c, S) ==
  /\ lists \in Seq(Seq(S)) /\ Len(lists) = Len(c)
  /\ \A i \in 1..Len(c) : \A e \in ToSet(lists[i]) : e.slot = c[i].slot

LEMMA ChainIs ==
  ASSUME NEW c, IsChain(c)
  PROVE  /\ c \in Seq(Block) /\ Len(c) \in Nat /\ DOMAIN c = 1..Len(c)
         /\ \A i \in 1..Len(c) : c[i] \in Block /\ c[i].slot \in Nat /\ c[i].hash \in Hashes
<1>1. c \in Seq(Block) /\ Len(c) \in Nat /\ DOMAIN c = 1..Len(c)
  BY LenNat DEF IsChain
<1>2. ASSUME NEW i \in 1..Len(c) PROVE c[i] \in Block /\ c[i].slot \in Nat /\ c[i].hash \in Hashes
  <2>1. c[i] \in Block
    BY <1>1, ElementIn
  <2> QED BY <2>1 DEF Block
<1> QED BY <1>1, <1>2

LEMMA PrefixIs ==
  ASSUME NEW c, IsChain(c), NEW n \in 0..Len(c)
  PROVE  /\ Len(c) \in Nat /\ Prefix(c, n) \in Seq(Block) /\ Len(Prefix(c, n)) = n
         /\ \A i \in 1..n : Prefix(c, n)[i] = c[i]
         /\ \A i \in 0..n : Prefix(Prefix(c, n), i) = Prefix(c, i)
         /\ IsChain(Prefix(c, n))
<1> DEFINE p == Prefix(c, n)
<1>1. c \in Seq(Block) /\ Len(c) \in Nat
  BY LenNat DEF IsChain
<1>2. p \in Seq(Block) /\ Len(p) = n
  BY <1>1, PrefixStep DEF Prefix
<1>3. \A i \in 1..n : p[i] = c[i]
  BY <1>1 DEF Prefix
<1>4. ASSUME NEW i \in 0..n PROVE Prefix(p, i) = Prefix(c, i)
  <2> HIDE DEF p
  <2>1. i \in 0..Len(p) /\ i \in 0..Len(c)
    BY <1>1, <1>2
  <2>2. /\ SubSeq(p, 1, i) \in Seq(Block) /\ Len(SubSeq(p, 1, i)) = i
        /\ SubSeq(c, 1, i) \in Seq(Block) /\ Len(SubSeq(c, 1, i)) = i
    BY <1>1, <1>2, <2>1, PrefixStep
  <2>3. ASSUME NEW j \in 1..i PROVE SubSeq(p, 1, i)[j] = SubSeq(c, 1, i)[j]
    <3>1. SubSeq(p, 1, i)[j] = p[j]
      BY <1>2, <2>1
    <3>2. SubSeq(c, 1, i)[j] = c[j]
      BY <1>1, <2>1
    <3>3. j \in 1..n
      BY <2>1
    <3> QED BY <1>3, <3>1, <3>2, <3>3
  <2>4. SubSeq(p, 1, i) = SubSeq(c, 1, i)
    BY <2>2, <2>3, SameElements
  <2> QED BY <2>4 DEF Prefix
<1> HIDE DEF p
<1>5. IsChain(p)
  BY <1>1, <1>2, <1>3 DEF IsChain
<1> QED BY <1>1, <1>2, <1>3, <1>4, <1>5 DEF p

LEMMA DatedPrefix ==
  ASSUME NEW S, NEW c, IsChain(c), NEW lists, IsDated(lists, c, S), NEW n \in 0..Len(c)
  PROVE  IsDated(SubSeq(lists, 1, n), Prefix(c, n), S)
<1> DEFINE Q == Seq(S)
           u == SubSeq(lists, 1, n)
<1>1. lists \in Seq(Q) /\ Len(lists) = Len(c) /\ n \in 0..Len(lists) /\ Len(c) \in Nat
  BY PrefixIs DEF IsDated
<1> HIDE DEF Q
<1>2. u \in Seq(Q) /\ Len(u) = n
  BY <1>1, PrefixStep
<1>3. \A i \in 1..n : u[i] = lists[i] /\ i \in 1..Len(c)
  BY <1>1
<1> HIDE DEF u
<1>4. Len(Prefix(c, n)) = n /\ \A i \in 1..n : Prefix(c, n)[i] = c[i]
  BY PrefixIs
<1> QED BY <1>2, <1>3, <1>4 DEF IsDated, u, Q

\* Where a slot splits a chain.
LEMMA PointSplits ==
  ASSUME NEW c, IsChain(c), NEW slot \in Nat
  PROVE  LET n == PartitionPoint(c, slot)
         IN  /\ n \in 0..Len(c)
             /\ \A i \in 1..Len(c) : IF i <= n THEN c[i].slot < slot ELSE c[i].slot >= slot
<1> DEFINE T == {i \in 1..Len(c) : c[i].slot >= slot}
           Splits(n) == \A i \in 1..Len(c) : IF i <= n THEN c[i].slot < slot ELSE c[i].slot >= slot
<1>1. c \in Seq(Block) /\ Len(c) \in Nat /\ \A i \in 1..Len(c) : c[i].slot \in Nat
  BY ChainIs
<1>2. \E n \in 0..Len(c) : Splits(n)
  <2>1. CASE T = {}
    <3>1. \A i \in 1..Len(c) : c[i].slot < slot /\ i <= Len(c)
      BY <1>1, <2>1
    <3>2. Len(c) \in 0..Len(c)
      BY <1>1
    <3>3. Splits(Len(c))
      BY <3>1
    <3> HIDE DEF Splits
    <3> QED BY <3>2, <3>3
  <2>2. CASE T # {}
    <3>1. T \subseteq Nat
      OBVIOUS
    <3>2. PICK m \in T : \A y \in T : m <= y
      <4> HIDE DEF T
      <4> QED BY <2>2, <3>1, MinNat
    <3>3. m \in 1..Len(c) /\ c[m].slot >= slot
      BY <3>2
    <3>4. ASSUME NEW i \in 1..Len(c), i <= m - 1 PROVE c[i].slot < slot
      <4>1. ~(m <= i)
        BY <1>1, <3>3, <3>4
      <4>2. i \notin T
        BY <3>2, <4>1
      <4> QED BY <1>1, <4>2
    <3>5. ASSUME NEW i \in 1..Len(c), ~(i <= m - 1) PROVE c[i].slot >= slot
      <4>1. i = m \/ m < i
        BY <1>1, <3>3, <3>5
      <4>2. c[m].slot \in Nat /\ c[i].slot \in Nat
        BY <1>1, <3>3
      <4>3. m < i => c[m].slot < c[i].slot
        BY <3>3 DEF IsChain
      <4> QED BY <3>3, <4>1, <4>2, <4>3
    <3>6. m - 1 \in 0..Len(c)
      BY <1>1, <3>3
    <3> QED BY <3>4, <3>5, <3>6
  <2> QED BY <2>1, <2>2
<1>3. PICK n \in 0..Len(c) : Splits(n)
  BY <1>2
<1>4. AllHaveSlots(Block)
  BY DEF AllHaveSlots, Block
<1>5. PartitionPoint(c, slot) = n
  BY <1>1, <1>3, <1>4, PointIs
<1> QED BY <1>3, <1>5

\* What a rollback keeps of the entries since some block.
LEMMA CutKeeps ==
  ASSUME NEW S, AllHaveSlots(S), NEW c, IsChain(c), NEW lists, IsDated(lists, c, S),
         NEW a \in Nat, NEW n \in 1..Len(c)
  PROVE  KeepUpTo(From(lists, a), c[n].slot) = From(SubSeq(lists, 1, n), Min({a, n}))
<1> DEFINE u == From(SubSeq(lists, 1, n), a)
           m == IF a > n THEN a ELSE n
           v == From(lists, m)
           slot == c[n].slot
           head == SubSeq(lists, 1, n)
<1>1. /\ lists \in Seq(Seq(S)) /\ Len(lists) = Len(c) /\ Len(c) \in Nat /\ n \in 0..Len(c)
      /\ slot \in Nat /\ \A i \in 1..Len(c) : c[i].slot \in Nat
  <2>1. c \in Seq(Block) /\ Len(c) \in Nat /\ \A i \in 1..Len(c) : c[i].slot \in Nat
    BY ChainIs
  <2>2. n \in 0..Len(c)
    BY <2>1
  <2> QED BY <2>1, <2>2 DEF IsDated
<1>2. From(lists, a) = u \o v /\ u \in Seq(S) /\ v \in Seq(S)
  <2>1. n \in 0..Len(lists)
    BY <1>1
  <2> QED BY <1>1, <2>1, FromSplits, ZenonT(30)
<1>3. /\ head \in Seq(Seq(S)) /\ Len(head) = n
      /\ \A i \in 1..n : \A e \in ToSet(head[i]) : e.slot = c[i].slot
  <2>1. IsDated(head, Prefix(c, n), S)
    BY <1>1, DatedPrefix
  <2>2. Len(Prefix(c, n)) = n /\ \A i \in 1..n : Prefix(c, n)[i] = c[i]
    BY <1>1, PrefixIs
  <2> QED BY <2>1, <2>2 DEF IsDated
<1> HIDE DEF head
<1>4. ASSUME NEW e \in ToSet(u) PROVE e.slot < slot + 1
  <2>1. PICK i \in (a + 1)..Len(head) : e \in ToSet(head[i])
    BY <1>3, FromElements DEF head
  <2>2. i \in 1..n /\ (i < n \/ i = n)
    BY <1>3, <2>1
  <2>3. e.slot = c[i].slot
    BY <1>3, <2>1, <2>2
  <2>4. i < n => c[i].slot < c[n].slot
    BY <1>1, <2>2 DEF IsChain
  <2>5. c[i].slot \in Nat
    BY <1>1, <2>2
  <2> HIDE DEF slot
  <2> QED BY <1>1, <2>2, <2>3, <2>4, <2>5 DEF slot
<1>5. m \in Nat /\ m >= n
  BY <1>1
<1> HIDE DEF m
<1>6. ASSUME NEW e \in ToSet(v) PROVE e.slot >= slot + 1
  <2>1. PICK i \in (m + 1)..Len(lists) : e \in ToSet(lists[i])
    BY <1>1, <1>5, FromElements
  <2>2. i \in 1..Len(c) /\ n < i
    BY <1>1, <1>5, <2>1
  <2>3. e.slot = c[i].slot
    BY <2>1, <2>2 DEF IsDated
  <2>4. c[n].slot < c[i].slot
    BY <1>1, <2>2 DEF IsChain
  <2>5. c[i].slot \in Nat
    BY <1>1, <2>2
  <2> QED BY <1>1, <2>3, <2>4, <2>5
<1>7. slot + 1 \in Nat
  BY <1>1
<1> HIDE DEF u, v, slot
<1>8. KeepUpTo(u \o v, slot) = u
  BY <1>2, <1>4, <1>6, <1>7, CutAt DEF KeepUpTo
<1>9. u = From(head, Min({a, n}))
  <2>1. n \in Nat /\ Min({a, n}) = IF a < n THEN a ELSE n
    BY LesserIs
  <2>2. CASE a < n
    BY <2>1, <2>2 DEF u, head
  <2>3. CASE ~(a < n)
    <3>1. SubSeq(head, a + 1, Len(head)) = <<>> /\ SubSeq(head, n + 1, Len(head)) = <<>>
      <4>1. Len(head) \in 0..Len(head) /\ ~(a < Len(head)) /\ ~(n < Len(head))
        BY <1>3, <2>1, <2>3
      <4> QED BY <1>3, <2>1, <4>1, SliceIs, ZenonT(30)
    <3> QED BY <2>1, <2>3, <3>1 DEF u, head, From
  <2> QED BY <2>2, <2>3
<1> QED BY <1>2, <1>8, <1>9 DEF head, slot

\* What is left of them by a prune.
LEMMA DropKeeps ==
  ASSUME NEW S, AllHaveSlots(S), NEW c, IsChain(c), NEW lists, IsDated(lists, c, S),
         NEW a \in Nat, NEW slot \in Nat
  PROVE  DropBefore(From(lists, a), slot) = From(lists, Max({a, PartitionPoint(c, slot)}))
<1> DEFINE n == PartitionPoint(c, slot)
           m == IF a > n THEN a ELSE n
           head == SubSeq(lists, 1, n)
           u == From(head, a)
           v == From(lists, m)
<1>1. /\ lists \in Seq(Seq(S)) /\ Len(lists) = Len(c) /\ Len(c) \in Nat
  BY PrefixIs, LenNat DEF IsDated, IsChain
<1>2. /\ n \in 0..Len(c)
      /\ \A i \in 1..Len(c) : IF i <= n THEN c[i].slot < slot ELSE c[i].slot >= slot
  BY PointSplits
<1> HIDE DEF n
<1>3. From(lists, a) = u \o v /\ u \in Seq(S) /\ v \in Seq(S)
  <2>1. n \in 0..Len(lists)
    BY <1>1, <1>2
  <2> QED BY <1>1, <2>1, FromSplits, ZenonT(30)
<1>4. /\ head \in Seq(Seq(S)) /\ Len(head) = n
      /\ \A i \in 1..n : \A e \in ToSet(head[i]) : e.slot = c[i].slot
  <2>1. IsDated(head, Prefix(c, n), S)
    BY <1>2, DatedPrefix
  <2>2. Len(Prefix(c, n)) = n /\ \A i \in 1..n : Prefix(c, n)[i] = c[i]
    BY <1>2, PrefixIs
  <2> QED BY <2>1, <2>2 DEF IsDated
<1> HIDE DEF head
<1>5. ASSUME NEW e \in ToSet(u) PROVE e.slot < slot
  <2>1. PICK i \in (a + 1)..Len(head) : e \in ToSet(head[i])
    BY <1>4, FromElements DEF head
  <2>2. i \in 1..n /\ i \in 1..Len(c) /\ i <= n
    BY <1>1, <1>2, <1>4, <2>1
  <2> QED BY <1>2, <1>4, <2>1, <2>2
<1>6. m \in Nat /\ m >= n /\ Max({a, n}) = m
  <2>1. n \in Nat
    BY <1>1, <1>2
  <2> QED BY <2>1, GreaterIs
<1> HIDE DEF m
<1>7. ASSUME NEW e \in ToSet(v) PROVE e.slot >= slot
  <2>1. PICK i \in (m + 1)..Len(lists) : e \in ToSet(lists[i])
    BY <1>1, <1>6, FromElements
  <2>2. i \in 1..Len(c) /\ ~(i <= n)
    BY <1>1, <1>2, <1>6, <2>1
  <2>3. e.slot = c[i].slot
    BY <2>1, <2>2 DEF IsDated
  <2> QED BY <1>2, <2>2, <2>3
<1> HIDE DEF u, v
<1>8. DropBefore(u \o v, slot) = v
  BY <1>3, <1>5, <1>7, CutAt
<1> QED BY <1>3, <1>6, <1>8 DEF v, n

-----------------------------------------------------------------------------
(* The delegation logs *)

\* The positions at, of the events that name s.
Names(e, s) == s \in {e.from, e.to}
PointTo(at, events, s) ==
  /\ at \in Seq(Nat)
  /\ ToSet(at) = {i \in DOMAIN events : Names(events[i], s)}
  /\ \A i, j \in DOMAIN at : i < j => at[i] < at[j]
IsPositioned(log) == \A s \in Subjects : PointTo(log.at[s], log.events, s)
GoodLogs == {log \in DelegationLog : IsPositioned(log)}

\* One more event: its position is behind all others, for those it names.
LEMMA AddEventKeeps ==
  ASSUME NEW log \in GoodLogs, NEW e \in Entry
  PROVE  AddEvent(log, e) \in GoodLogs /\ AddEvent(log, e).events = Append(log.events, e)
<1> DEFINE n == Len(log.events)
           more == Append(log.events, e)
           at == [s \in Subjects |->
                    IF Names(e, s) THEN Append(log.at[s], n + 1) ELSE log.at[s]]
<1>1. log.events \in Seq(Entry) /\ log.at \in [Subjects -> Seq(Nat)] /\ IsPositioned(log)
  BY DEF GoodLogs, DelegationLog
<1>2. n \in Nat /\ DOMAIN log.events = 1..n
  BY <1>1, LenNat
<1>3. /\ more \in Seq(Entry) /\ DOMAIN more = 1..(n + 1) /\ more[n + 1] = e
      /\ \A i \in 1..n : more[i] = log.events[i]
  BY <1>1, AppendIs
<1>4. AddEvent(log, e) = [events |-> more, at |-> at]
  BY DEF AddEvent, Names
<1> HIDE DEF more, n
<1>5. ASSUME NEW s \in Subjects PROVE PointTo(at[s], more, s)
  <2> DEFINE old == log.at[s]
             new == Append(old, n + 1)
  <2>1. /\ old \in Seq(Nat) /\ ToSet(old) = {i \in 1..n : Names(log.events[i], s)}
        /\ \A i, j \in DOMAIN old : i < j => old[i] < old[j]
    BY <1>1, <1>2 DEF IsPositioned, PointTo
  <2>2. {i \in 1..(n + 1) : Names(more[i], s)}
          = {i \in 1..n : Names(log.events[i], s)} \cup (IF Names(e, s) THEN {n + 1} ELSE {})
    <3>1. \A i \in 1..(n + 1) : i \in 1..n \/ i = n + 1
      BY <1>2
    <3>2. \A i \in 1..n : i \in 1..(n + 1) /\ i # n + 1
      BY <1>2
    <3>3. n + 1 \in 1..(n + 1)
      BY <1>2
    <3> QED BY <1>3, <3>1, <3>2, <3>3
  <2>3. CASE ~Names(e, s)
    <3>1. at[s] = old
      BY <2>3
    <3> HIDE DEF at, old
    <3> QED BY <1>3, <2>1, <2>2, <2>3, <3>1 DEF PointTo
  <2>4. CASE Names(e, s)
    <3>1. at[s] = new
      BY <2>4
    <3> HIDE DEF at, old
    <3>2. n + 1 \in Nat /\ Len(old) \in Nat /\ DOMAIN old = 1..Len(old)
      BY <1>2, <2>1, LenNat
    <3>3. /\ new \in Seq(Nat) /\ DOMAIN new = 1..(Len(old) + 1) /\ new[Len(old) + 1] = n + 1
          /\ \A i \in 1..Len(old) : new[i] = old[i]
      BY <2>1, <3>2, AppendIs
    <3>4. ToSet(new) = ToSet(old) \cup {n + 1}
      BY <2>1, <3>2, AppendSet
    <3>5. ASSUME NEW i \in DOMAIN new, NEW j \in DOMAIN new, i < j PROVE new[i] < new[j]
      <4>1. i \in 1..Len(old) /\ new[i] = old[i]
        BY <3>2, <3>3, <3>5
      <4>2. CASE j = Len(old) + 1
        <5>1. old[i] \in ToSet(old)
          BY <3>2, <4>1 DEF ToSet
        <5>2. old[i] \in 1..n
          BY <2>1, <5>1
        <5>3. old[i] < n + 1
          BY <1>2, <5>2
        <5> QED BY <3>3, <4>1, <4>2, <5>3
      <4>3. CASE j # Len(old) + 1
        <5>1. j \in 1..Len(old)
          BY <3>2, <3>3, <4>3
        <5> QED BY <2>1, <3>2, <3>3, <3>5, <4>1, <5>1
      <4> QED BY <4>2, <4>3
    <3> HIDE DEF new
    <3>6. ToSet(new) = {i \in DOMAIN more : Names(more[i], s)}
      BY <1>3, <2>1, <2>2, <2>4, <3>4
    <3> QED BY <3>1, <3>3, <3>5, <3>6 DEF PointTo
  <2> QED BY <2>3, <2>4
<1>6. at \in [Subjects -> Seq(Nat)]
  BY <1>5 DEF PointTo
<1> HIDE DEF at
<1>7. AddEvent(log, e).events = more /\ AddEvent(log, e).at = at
  BY <1>4
<1>8. AddEvent(log, e) \in DelegationLog
  BY <1>3, <1>4, <1>6 DEF DelegationLog
<1>9. IsPositioned(AddEvent(log, e))
  BY <1>5, <1>7 DEF IsPositioned
<1> QED BY <1>7, <1>8, <1>9 DEF GoodLogs, more

\* The loop of AddEvents.
EventStep == [log \in GoodLogs |-> [e \in Entry |-> AddEvent(log, e)]]

LEMMA EventLoop ==
  ASSUME NEW log \in GoodLogs, NEW events \in Seq(Entry)
  PROVE  \E f : /\ IsLoop(f, log, EventStep, events, GoodLogs)
                /\ AddEvents(log, events) = f[Len(events)]
<1> DEFINE n == Len(events)
           S == GoodLogs
           Q == Entry
           next(a, b) == AddEvent(a, b)
           Loop(f) == f = [i \in 0..n |-> IF i = 0 THEN log ELSE next(f[i - 1], events[i])]
           after == CHOOSE f : Loop(f)
<1>1. n \in Nat /\ (\A i \in 1..n : events[i] \in Q) /\ events \in Seq(Q)
  BY LenNat, ElementIn
<1>2. ASSUME NEW a \in S, NEW b \in Q PROVE next(a, b) \in S
  BY AddEventKeeps
<1>3. EventStep = [a \in S |-> [b \in Q |-> next(a, b)]]
  BY DEF EventStep
<1>4. log \in S
  OBVIOUS
<1> HIDE DEF S, Q, next
<1>5. EventStep \in [S -> [Q -> S]]
  BY <1>2, <1>3
<1>6. PICK f : IsLoop(f, log, EventStep, events, S)
  BY <1>1, <1>4, <1>5, LoopExists
<1>7. ASSUME NEW i \in 1..n PROVE f[i] = next(f[i - 1], events[i])
  <2>1. i - 1 \in 0..n
    BY <1>1
  <2>2. f[i - 1] \in S
    BY <1>6, <2>1 DEF IsLoop
  <2>3. events[i] \in Q
    BY <1>1
  <2> QED BY <1>3, <1>6, <2>2, <2>3 DEF IsLoop
<1>8. Loop(f)
  BY <1>1, <1>6, <1>7 DEF IsLoop
<1>9. Loop(after)
  BY <1>8
<1> HIDE DEF after
<1> DEFINE T == {i \in 0..n : after[i] = f[i]}
<1>10. 0 \in T
  BY <1>1, <1>8, <1>9
<1>11. ASSUME NEW i \in 1..n, i - 1 \in T PROVE i \in T
  <2>1. i \in 0..n /\ i # 0
    BY <1>1
  <2>2. after[i] = next(after[i - 1], events[i])
    BY <1>9, <2>1
  <2> QED BY <1>7, <1>11, <2>1, <2>2
<1>12. \A i \in 0..n : i \in T
  BY <1>1, <1>10, <1>11, CountUp
<1>13. after[n] = f[n]
  BY <1>1, <1>12
<1>14. AddEvents(log, events) = after[n]
  BY DEF AddEvents, after, next
<1> QED BY <1>6, <1>13, <1>14 DEF S

\* A log with more events has them behind its own, and its positions are right.
LEMMA AddEventsKeeps ==
  ASSUME NEW log \in GoodLogs
  PROVE  \A u \in Seq(Entry) :
           AddEvents(log, u) \in GoodLogs /\ AddEvents(log, u).events = log.events \o u
<1> DEFINE Adds(u) == /\ AddEvents(log, u) \in GoodLogs
                      /\ AddEvents(log, u).events = log.events \o u
           W == {u \in Seq(Entry) : Adds(u)}
<1>1. log.events \in Seq(Entry)
  BY DEF GoodLogs, DelegationLog
<1>2. <<>> \in W
  <2>1. <<>> \in Seq(Entry) /\ Len(<<>>) = 0
    OBVIOUS
  <2>2. PICK f : /\ IsLoop(f, log, EventStep, <<>>, GoodLogs)
                 /\ AddEvents(log, <<>>) = f[Len(<<>>)]
    BY <2>1, EventLoop
  <2>3. AddEvents(log, <<>>) = log
    BY <2>1, <2>2 DEF IsLoop
  <2> QED BY <1>1, <2>3
<1>3. ASSUME NEW u \in Seq(Entry), NEW e \in Entry, u \in W PROVE Append(u, e) \in W
  <2>1. PICK f : /\ IsLoop(f, log, EventStep, u, GoodLogs)
                 /\ AddEvents(log, u) = f[Len(u)]
    BY EventLoop
  <2>2. Append(u, e) \in Seq(Entry) /\ Len(Append(u, e)) = Len(u) + 1
    BY AppendIs
  <2>3. PICK g : /\ IsLoop(g, log, EventStep, Append(u, e), GoodLogs)
                 /\ AddEvents(log, Append(u, e)) = g[Len(Append(u, e))]
    BY <2>2, EventLoop
  <2>4. g[Len(u) + 1] = EventStep[f[Len(u)]][e]
    BY <2>1, <2>3, LoopAppend
  <2>5. f[Len(u)] \in GoodLogs /\ f[Len(u)].events = log.events \o u
    BY <1>3, <2>1
  <2>6. AddEvents(log, Append(u, e)) = AddEvent(f[Len(u)], e)
    BY <2>2, <2>3, <2>4, <2>5 DEF EventStep
  <2>7. /\ AddEvent(f[Len(u)], e) \in GoodLogs
        /\ AddEvent(f[Len(u)], e).events = Append(log.events \o u, e)
    BY <2>5, AddEventKeeps
  <2>8. Append(log.events \o u, e) = log.events \o Append(u, e)
    <3>1. \A w \in Seq(Entry) : w \o Append(u, e) = Append(w \o u, e)
      OBVIOUS
    <3> QED BY <1>1, <3>1
  <2>9. Adds(Append(u, e))
    BY <2>6, <2>7, <2>8
  <2> HIDE DEF Adds
  <2> QED BY <2>2, <2>9
<1> HIDE DEF W
<1>4. \A u \in Seq(Entry) : u \in W
  BY <1>2, <1>3, BuiltUp
<1> QED BY <1>4 DEF W

LEMMA EmptyIsGood == EmptyLog \in GoodLogs /\ EmptyLog.events = <<>>
<1>1. EmptyLog \in DelegationLog /\ EmptyLog.events = <<>>
  BY DEF EmptyLog, DelegationLog
<1>2. ASSUME NEW s \in Subjects PROVE PointTo(EmptyLog.at[s], EmptyLog.events, s)
  <2>1. EmptyLog.at[s] = <<>>
    BY DEF EmptyLog
  <2>2. ToSet(<<>>) = {}
    BY DEF ToSet
  <2> QED BY <1>1, <2>1, <2>2 DEF PointTo
<1> QED BY <1>1, <1>2 DEF GoodLogs, IsPositioned

\* A log rebuilt from a list of events.
LEMMA RebuildIs ==
  ASSUME NEW u \in Seq(Entry)
  PROVE  Rebuild(u) \in GoodLogs /\ Rebuild(u).events = u
<1>1. Rebuild(u) \in GoodLogs /\ Rebuild(u).events = <<>> \o u
  BY EmptyIsGood, AddEventsKeeps DEF Rebuild
<1> QED BY <1>1

-----------------------------------------------------------------------------
(* What a block adds *)

\* What a credential is found to delegate to is a target.
LEMMA TargetIn ==
  ASSUME NEW c \in Seq(Block), NEW r \in Roles, NEW cred
  PROVE  Target(c, r, cred) \in Targets
<1> DEFINE lists == [i \in DOMAIN c |-> Certs[c[i].hash][r]]
           keep == [cred : {cred}, to : Subjects \cup {Nobody}]
           own == Sift(FlattenSeq(lists), keep)
<1>1. lists \in Seq(Seq(Cert))
  <2>1. DOMAIN c = 1..Len(c) /\ Len(c) \in Nat
    BY LenNat
  <2>2. ASSUME NEW i \in DOMAIN c PROVE Certs[c[i].hash][r] \in Seq(Cert)
    <3>1. c[i].hash \in Hashes
      <4>1. c[i] \in Block
        BY ElementIn
      <4> QED BY <4>1 DEF Block
    <3>2. Certs \in [Hashes -> [Roles -> Seq(Cert)]]
      BY FeedsAssumption
    <3> QED BY <3>1, <3>2
  <2> QED BY <2>1, <2>2
<1> HIDE DEF lists
<1>2. FlattenSeq(lists) \in Seq(Cert)
  BY <1>1, FlattenIn, ZenonT(30)
<1>3. own \in Seq(Cert \cap keep)
  BY <1>2, SiftIn
<1>4. Target(c, r, cred) = IF own = <<>> THEN Nobody ELSE Last(own).to
  BY DEF Target, lists
<1> HIDE DEF own
<1>5. CASE own = <<>>
  BY <1>4, <1>5 DEF Targets
<1>6. CASE own # <<>>
  <2>1. Len(own) \in 1..Len(own)
    BY <1>3, <1>6
  <2>2. own[Len(own)] \in Cert
    BY <1>3, <2>1, ElementIn
  <2> QED BY <1>4, <1>6, <2>2 DEF Last, Cert, Targets
<1> QED BY <1>5, <1>6

\* The event of a certificate of block b, and those of all of them.
EventOf(c, b, r, cert) ==
  [slot |-> b.slot, cred |-> cert.cred, from |-> Target(c, r, cert.cred), to |-> cert.to]
EventFrom(c, b, r) == [cert \in Cert |-> EventOf(c, b, r, cert)]
Kept(events) == {e \in ToSet(events) : e.from = Nobody \/ e.from # e.to}

\* Events are the certificates' that do not go from a target to itself.
LEMMA EventsAre ==
  ASSUME NEW c \in Seq(Block), NEW b \in Block, NEW r \in Roles
  PROVE  LET all == Mapped(Certs[b.hash][r], EventFrom(c, b, r))
         IN  /\ Certs[b.hash][r] \in Seq(Cert)
             /\ EventFrom(c, b, r) \in [Cert -> Entry]
             /\ all \in Seq(Entry)
             /\ Events(c, b, r) = Sift(all, Kept(all))
             /\ Events(c, b, r) \in Seq(Entry)
             /\ \A e \in ToSet(Events(c, b, r)) : e.slot = b.slot
<1> DEFINE certs == Certs[b.hash][r]
           f == EventFrom(c, b, r)
           all == Mapped(certs, f)
<1>1. certs \in Seq(Cert) /\ b.slot \in Nat
  BY FeedsAssumption DEF Block
<1>2. ASSUME NEW cert \in Cert
      PROVE  EventOf(c, b, r, cert) \in Entry /\ EventOf(c, b, r, cert).slot = b.slot
  <2>1. Target(c, r, cert.cred) \in Targets
    BY TargetIn
  <2> QED BY <1>1, <2>1 DEF EventOf, Entry, Cert, Targets
<1>3. f \in [Cert -> Entry] /\ \A cert \in Cert : f[cert] = EventOf(c, b, r, cert)
  BY <1>2 DEF EventFrom
<1>4. Events(c, b, r) = Sift(all, Kept(all))
  <2>1. \A i \in DOMAIN certs : f[certs[i]] = EventOf(c, b, r, certs[i])
    BY <1>1, <1>3, ElementIn
  <2> HIDE DEF f
  <2>2. all = [i \in DOMAIN certs |-> EventOf(c, b, r, certs[i])]
    BY <2>1 DEF Mapped
  <2> HIDE DEF all
  <2> QED BY <2>2 DEF Events, EventsAgainst, Kept, EventOf
<1> HIDE DEF f, certs
<1>5. all \in Seq(Entry)
  BY <1>1, <1>3, MapType
<1>6. ASSUME NEW e \in ToSet(all) PROVE e.slot = b.slot
  <2>1. PICK i \in DOMAIN all : e = all[i]
    BY DEF ToSet
  <2>2. i \in DOMAIN certs /\ certs[i] \in Cert
    BY <1>1, <2>1, ElementIn DEF Mapped
  <2> QED BY <1>2, <1>3, <2>1, <2>2 DEF Mapped
<1> HIDE DEF all
<1>7. Sift(all, Kept(all)) \in Seq(Entry \cap Kept(all))
  BY <1>5, SiftIn
<1>8. /\ Events(c, b, r) \in Seq(Entry)
      /\ \A e \in ToSet(Events(c, b, r)) : e.slot = b.slot
  <2>1. \A e \in ToSet(Events(c, b, r)) : e \in Kept(all)
    <3> DEFINE w == Events(c, b, r)
    <3>1. w \in Seq(Entry \cap Kept(all))
      BY <1>4, <1>7
    <3> HIDE DEF w
    <3>2. \A i \in DOMAIN w : w[i] \in Kept(all)
      BY <3>1, ElementIn
    <3>3. \A e \in ToSet(w) : e \in Kept(all)
      BY <3>2 DEF ToSet
    <3> QED BY <3>3 DEF w
  <2>2. \A e \in Kept(all) : e \in ToSet(all)
    BY DEF Kept
  <2>3. Events(c, b, r) \in Seq(Entry)
    BY <1>4, <1>7
  <2> QED BY <1>6, <2>1, <2>2, <2>3
<1> QED BY <1>1, <1>3, <1>4, <1>5, <1>8 DEF all, certs, f

\* The references to the blocks of a chain, and its events, block by block.
LEMMA RefsDated ==
  ASSUME NEW c, IsChain(c), NEW k \in Kinds, NEW s \in Subjects
  PROVE  IsDated(RefsOf(c, k, s), c, BlockRef)
<1> DEFINE lists == RefsOf(c, k, s)
<1>1. /\ c \in Seq(Block) /\ Len(c) \in Nat /\ DOMAIN c = 1..Len(c)
      /\ \A i \in 1..Len(c) : c[i] \in Block
  BY ChainIs
<1>2. Block \subseteq BlockRef
  BY FeedsAssumption DEF Block, BlockRef
<1>3. ASSUME NEW i \in 1..Len(c)
      PROVE  /\ lists[i] \in Seq(BlockRef)
             /\ \A e \in ToSet(lists[i]) : e.slot = c[i].slot
  <2>1. lists[i] = <<c[i]>> \/ lists[i] = <<>>
    BY <1>1 DEF RefsOf
  <2>2. c[i] \in BlockRef
    BY <1>1, <1>2
  <2> HIDE DEF lists
  <2>3. CASE lists[i] = <<c[i]>>
    <3>1. <<c[i]>> \in Seq(BlockRef) /\ ToSet(<<c[i]>>) = {c[i]}
      BY <2>2 DEF ToSet
    <3> QED BY <2>3, <3>1
  <2>4. CASE lists[i] = <<>>
    <3>1. <<>> \in Seq(BlockRef) /\ ToSet(<<>>) = {}
      BY DEF ToSet
    <3> QED BY <2>4, <3>1
  <2> QED BY <2>1, <2>3, <2>4
<1>4. DOMAIN lists = 1..Len(c) /\ lists = [i \in 1..Len(c) |-> lists[i]]
  BY <1>1 DEF RefsOf
<1> HIDE DEF lists
<1>5. lists \in Seq(Seq(BlockRef)) /\ Len(lists) = Len(c)
  BY <1>1, <1>3, <1>4
<1> QED BY <1>3, <1>5 DEF IsDated, lists

LEMMA EventsDated ==
  ASSUME NEW c, IsChain(c), NEW r \in Roles
  PROVE  IsDated(EventsOf(c, r), c, Entry)
<1> DEFINE lists == EventsOf(c, r)
<1>1. /\ c \in Seq(Block) /\ Len(c) \in Nat /\ DOMAIN c = 1..Len(c)
      /\ \A i \in 1..Len(c) : c[i] \in Block
  BY ChainIs
<1>2. ASSUME NEW i \in 1..Len(c)
      PROVE  /\ lists[i] \in Seq(Entry)
             /\ \A e \in ToSet(lists[i]) : e.slot = c[i].slot
  <2>1. lists[i] = Events(Prefix(c, i - 1), c[i], r)
    BY <1>1 DEF EventsOf
  <2>2. i - 1 \in 0..Len(c)
    BY <1>1
  <2>3. Prefix(c, i - 1) \in Seq(Block)
    BY <2>2, PrefixIs
  <2>4. c[i] \in Block
    BY <1>1
  <2> HIDE DEF lists
  <2> QED BY <2>1, <2>3, <2>4, EventsAre
<1>3. DOMAIN lists = 1..Len(c) /\ lists = [i \in 1..Len(c) |-> lists[i]]
  BY <1>1 DEF EventsOf
<1> HIDE DEF lists
<1>4. lists \in Seq(Seq(Entry)) /\ Len(lists) = Len(c)
  BY <1>1, <1>2, <1>3
<1> QED BY <1>2, <1>4 DEF IsDated, lists

\* Those of the first n blocks are the first n.
LEMMA RefsPrefix ==
  ASSUME NEW c, IsChain(c), NEW k \in Kinds, NEW s \in Subjects, NEW n \in 0..Len(c)
  PROVE  SubSeq(RefsOf(c, k, s), 1, n) = RefsOf(Prefix(c, n), k, s)
<1> DEFINE p == Prefix(c, n)
           u == SubSeq(RefsOf(c, k, s), 1, n)
           v == RefsOf(p, k, s)
<1>1. /\ IsChain(p) /\ Len(p) = n /\ Len(c) \in Nat /\ n \in Nat
      /\ DOMAIN p = 1..n /\ DOMAIN c = 1..Len(c)
      /\ \A i \in 1..n : p[i] = c[i]
  BY PrefixIs, ChainIs
<1>2. IsDated(u, p, BlockRef) /\ IsDated(v, p, BlockRef)
  BY <1>1, RefsDated, DatedPrefix
<1>3. ASSUME NEW i \in 1..n PROVE u[i] = v[i]
  <2>1. u[i] = RefsOf(c, k, s)[i]
    <3>1. RefsOf(c, k, s) \in Seq(Seq(BlockRef)) /\ Len(RefsOf(c, k, s)) = Len(c)
      BY RefsDated DEF IsDated
    <3> QED BY <1>1, <3>1
  <2> HIDE DEF u
  <2>2. i \in DOMAIN c /\ i \in DOMAIN p
    BY <1>1
  <2> QED BY <1>1, <2>1, <2>2 DEF RefsOf
<1> DEFINE Q == Seq(BlockRef)
<1> HIDE DEF u, v, p
<1>4. u \in Seq(Q) /\ v \in Seq(Q) /\ Len(u) = n /\ Len(v) = n
  BY <1>1, <1>2 DEF IsDated
<1> HIDE DEF Q
<1>5. u = v
  BY <1>3, <1>4, SameElements
<1> QED BY <1>5 DEF u, v, p

LEMMA EventsPrefix ==
  ASSUME NEW c, IsChain(c), NEW r \in Roles, NEW n \in 0..Len(c)
  PROVE  SubSeq(EventsOf(c, r), 1, n) = EventsOf(Prefix(c, n), r)
<1> DEFINE p == Prefix(c, n)
           u == SubSeq(EventsOf(c, r), 1, n)
           v == EventsOf(p, r)
<1>1. /\ IsChain(p) /\ Len(p) = n /\ Len(c) \in Nat /\ n \in Nat
      /\ DOMAIN p = 1..n /\ DOMAIN c = 1..Len(c)
      /\ \A i \in 1..n : p[i] = c[i]
  BY PrefixIs, ChainIs
<1>2. IsDated(u, p, Entry) /\ IsDated(v, p, Entry)
  BY <1>1, EventsDated, DatedPrefix
<1>3. ASSUME NEW i \in 1..n PROVE u[i] = v[i]
  <2>1. u[i] = EventsOf(c, r)[i]
    <3>1. EventsOf(c, r) \in Seq(Seq(Entry)) /\ Len(EventsOf(c, r)) = Len(c)
      BY EventsDated DEF IsDated
    <3> QED BY <1>1, <3>1
  <2> HIDE DEF u
  <2>2. i \in DOMAIN c /\ i \in DOMAIN p /\ i - 1 \in 0..n
    BY <1>1
  <2>3. Prefix(p, i - 1) = Prefix(c, i - 1)
    BY <2>2, PrefixIs
  <2> HIDE DEF p
  <2> QED BY <1>1, <2>1, <2>2, <2>3 DEF EventsOf
<1> DEFINE Q == Seq(Entry)
<1> HIDE DEF u, v, p
<1>4. u \in Seq(Q) /\ v \in Seq(Q) /\ Len(u) = n /\ Len(v) = n
  BY <1>1, <1>2 DEF IsDated
<1> HIDE DEF Q
<1>5. u = v
  BY <1>3, <1>4, SameElements
<1> QED BY <1>5 DEF u, v, p

\* A block that comes later makes a chain.
LEMMA ChainAppend ==
  ASSUME NEW c, IsChain(c), c # <<>>, NEW b \in Block, b.slot > Last(c).slot
  PROVE  /\ IsChain(Append(c, b)) /\ Len(Append(c, b)) = Len(c) + 1
         /\ Append(c, b)[Len(c) + 1] = b /\ Prefix(Append(c, b), Len(c)) = c
         /\ Last(Append(c, b)) = b
<1> DEFINE n == Len(c)
           d == Append(c, b)
<1>1. c \in Seq(Block) /\ n \in Nat /\ \A i \in 1..n : c[i].slot \in Nat
  BY ChainIs
<1>2. n \in 1..n
  BY <1>1
<1>3. /\ d \in Seq(Block) /\ Len(d) = n + 1 /\ d[n + 1] = b
      /\ \A i \in 1..n : d[i] = c[i]
      /\ SubSeq(d, 1, n) = c
  BY <1>1, AppendIs
<1> HIDE DEF d
<1>4. ASSUME NEW i \in 1..(n + 1), NEW j \in 1..(n + 1), i < j PROVE d[i].slot < d[j].slot
  <2>1. i \in 1..n /\ (j = n + 1 \/ j \in 1..n)
    BY <1>1, <1>4, SMTT(30)
  <2>2. CASE j \in 1..n
    BY <1>3, <1>4, <2>1, <2>2 DEF IsChain
  <2>3. CASE j = n + 1
    <3>1. c[i].slot <= c[n].slot
      <4>1. i = n \/ i < n
        BY <1>1, <2>1
      <4>2. i < n => c[i].slot < c[n].slot
        BY <1>2, <2>1 DEF IsChain
      <4>3. c[i].slot \in Nat /\ c[n].slot \in Nat
        BY <1>1, <1>2, <2>1
      <4> QED BY <4>1, <4>2, <4>3
    <3>2. c[n].slot < b.slot
      BY DEF Last
    <3>3. c[i].slot \in Nat /\ c[n].slot \in Nat /\ b.slot \in Nat
      BY <1>1, <1>2, <2>1 DEF Block
    <3>4. c[i].slot < b.slot
      BY <3>1, <3>2, <3>3
    <3> QED BY <1>3, <2>1, <2>3, <3>4
  <2> QED BY <2>1, <2>2, <2>3
<1>5. IsChain(d)
  BY <1>3, <1>4 DEF IsChain
<1>6. Last(d) = b /\ Prefix(d, n) = c
  BY <1>3 DEF Last, Prefix
<1> QED BY <1>3, <1>5, <1>6 DEF d

-----------------------------------------------------------------------------
(* What the index holds of a chain *)

IsRefs(ix, c, a) ==
  \A k \in Kinds, s \in Subjects : ix.refs[k][s] = From(RefsOf(c, k, s), a)
IsLogs(ix, c, a) ==
  \A r \in Roles : ix.logs[r] \in GoodLogs /\ ix.logs[r].events = From(EventsOf(c, r), a)

\* How far back it reaches.
BackTo(rc, c) ==
  \A i \in 1..Len(c) :
    IF i > rc.from THEN c[i].slot >= Boundary(Last(c).slot)
    ELSE i <= rc.since \/ c[i].slot < Boundary(rc.high)
IsReach(rc, c) ==
  /\ rc \in [since : Nat, from : Nat, high : Nat] /\ rc.from <= Len(c)
  /\ BackTo(rc, c)

\* The index ix is what the blocks of c behind the first rc.from add up to.
Holds(ix, c, rc) ==
  /\ IsChain(c) /\ c # <<>> /\ ix \in Index
  /\ IsRefs(ix, c, rc.from) /\ IsLogs(ix, c, rc.from) /\ IsReach(rc, c)

LEMMA BoundaryIs ==
  /\ \A slot \in Nat : Boundary(slot) \in Nat /\ Boundary(slot) <= slot
  /\ \A a, b \in Nat : a <= b => Boundary(a) <= Boundary(b)
<1>1. Window \in Nat
  BY FeedsAssumption
<1>2. ASSUME NEW slot \in Nat
      PROVE  Boundary(slot) = IF 0 > slot - Window THEN 0 ELSE slot - Window
  BY <1>1, GreaterIs DEF Boundary
<1> QED BY <1>1, <1>2

\* A block recorded and the window moved to it.
NextReach(rc, c, b) ==
  [rc EXCEPT !.from = Max({@, PartitionPoint(Append(c, b), Boundary(b.slot))}),
             !.high = Max({@, b.slot})]

LEMMA ReachMoves ==
  ASSUME NEW c, IsChain(c), c # <<>>, NEW b \in Block, b.slot > Last(c).slot,
         NEW rc, IsReach(rc, c)
  PROVE  IsReach(NextReach(rc, c, b), Append(c, b))
<1> DEFINE d == Append(c, b)
           bound == Boundary(b.slot)
           p == PartitionPoint(d, bound)
           n == Len(c)
           new == NextReach(rc, c, b)
<1>1. /\ IsChain(d) /\ Len(d) = n + 1 /\ Last(d) = b /\ n \in Nat
      /\ b.slot \in Nat /\ bound \in Nat
  <2>1. b.slot \in Nat
    BY DEF Block
  <2>2. bound \in Nat
    BY <2>1, BoundaryIs
  <2>3. n \in Nat
    BY ChainIs
  <2>4. IsChain(d) /\ Len(d) = n + 1 /\ Last(d) = b
    BY ChainAppend
  <2> QED BY <2>1, <2>2, <2>3, <2>4
<1>2. /\ p \in 0..(n + 1)
      /\ \A i \in 1..(n + 1) : IF i <= p THEN d[i].slot < bound ELSE d[i].slot >= bound
  BY <1>1, PointSplits
<1>3. c \in Seq(Block) /\ \A i \in 1..n : d[i] = c[i]
  BY ChainIs, AppendIs
<1>4. /\ rc.since \in Nat /\ rc.from \in Nat /\ rc.high \in Nat /\ rc.from <= n
      /\ rc \in [since : Nat, from : Nat, high : Nat]
      /\ \A i \in 1..n : ~(i > rc.from) => i <= rc.since \/ c[i].slot < Boundary(rc.high)
  BY DEF IsReach, BackTo
<1> HIDE DEF p, d, n, bound
<1>5. /\ new.since = rc.since
      /\ new.from = (IF rc.from > p THEN rc.from ELSE p)
      /\ new.high = (IF rc.high > b.slot THEN rc.high ELSE b.slot)
      /\ new \in [since : Nat, from : Nat, high : Nat]
  <2>1. p \in Nat
    BY <1>1, <1>2
  <2>2. Max({rc.from, p}) = IF rc.from > p THEN rc.from ELSE p
    BY <1>4, <2>1, GreaterIs
  <2>3. Max({rc.high, b.slot}) = IF rc.high > b.slot THEN rc.high ELSE b.slot
    BY <1>1, <1>4, GreaterIs
  <2>4. new = [rc EXCEPT !.from = Max({rc.from, p}), !.high = Max({rc.high, b.slot})]
    BY DEF NextReach, p, d, bound
  <2> HIDE DEF new
  <2> QED BY <1>1, <1>4, <2>1, <2>2, <2>3, <2>4
<1> HIDE DEF new
<1>6. new.from <= Len(d)
  BY <1>1, <1>2, <1>4, <1>5
<1>7. Boundary(rc.high) <= Boundary(new.high) /\ bound <= Boundary(new.high)
  <2>1. /\ rc.high \in Nat /\ new.high \in Nat /\ b.slot \in Nat
        /\ rc.high <= new.high /\ b.slot <= new.high
    BY <1>1, <1>4, <1>5
  <2>2. Boundary(rc.high) <= Boundary(new.high)
    BY <2>1, BoundaryIs
  <2>3. Boundary(b.slot) <= Boundary(new.high)
    BY <2>1, BoundaryIs
  <2> QED BY <2>2, <2>3 DEF bound
<1>8. \A i \in 1..(n + 1) : d[i].slot \in Nat
  BY <1>1, ChainIs
<1>9. Boundary(rc.high) \in Nat /\ Boundary(new.high) \in Nat
  BY <1>4, <1>5, BoundaryIs
<1>10. ASSUME NEW i \in 1..(n + 1)
       PROVE  IF i > new.from THEN d[i].slot >= bound
              ELSE i <= new.since \/ d[i].slot < Boundary(new.high)
  <2>1. CASE i > new.from
    <3>1. ~(i <= p)
      BY <1>1, <1>2, <1>4, <1>5, <2>1
    <3> QED BY <1>2, <2>1, <3>1
  <2>2. CASE ~(i > new.from) /\ i <= p
    <3>1. d[i].slot < bound
      BY <1>2, <2>2
    <3>2. d[i].slot < Boundary(new.high)
      BY <1>1, <1>7, <1>8, <1>9, <3>1
    <3> QED BY <2>2, <3>2
  <2>3. CASE ~(i > new.from) /\ ~(i <= p)
    <3>1. i \in 1..n /\ ~(i > rc.from)
      BY <1>1, <1>2, <1>4, <1>5, <2>3
    <3>2. i <= rc.since \/ d[i].slot < Boundary(rc.high)
      BY <1>3, <1>4, <3>1
    <3>3. i <= new.since \/ d[i].slot < Boundary(new.high)
      BY <1>5, <1>7, <1>8, <1>9, <3>2
    <3> QED BY <2>3, <3>3
  <2> QED BY <2>1, <2>2, <2>3
<1>11. BackTo(new, d)
  BY <1>1, <1>10 DEF BackTo, bound
<1> QED BY <1>5, <1>6, <1>11 DEF IsReach, new, d

\* What is in the index of a block recorded.
LEMMA RefsMove ==
  ASSUME NEW c, IsChain(c), c # <<>>, NEW b \in Block, b.slot > Last(c).slot,
         NEW ix, NEW a \in 0..Len(c), IsRefs(ix, c, a), NEW events, NEW bound \in Nat
  PROVE  LET new == Prune(Record(ix, b, Marks[b.hash], events), bound)
             d == Append(c, b)
         IN  IsRefs(new, d, Max({a, PartitionPoint(d, bound)}))
<1> DEFINE new == Prune(Record(ix, b, Marks[b.hash], events), bound)
           d == Append(c, b)
           n == Len(c)
<1>1. /\ IsChain(d) /\ Len(d) = n + 1 /\ Prefix(d, n) = c /\ d[n + 1] = b
      /\ n \in Nat /\ a \in Nat
  BY ChainAppend, ChainIs
<1>2. ASSUME NEW k \in Kinds, NEW s \in Subjects
      PROVE  new.refs[k][s] = From(RefsOf(d, k, s), Max({a, PartitionPoint(d, bound)}))
  <2> DEFINE lists == RefsOf(d, k, s)
             old == RefsOf(c, k, s)
             x == IF s \in Marks[b.hash][k] THEN <<b>> ELSE <<>>
  <2>1. IsDated(lists, d, BlockRef) /\ IsDated(old, c, BlockRef)
    BY <1>1, RefsDated
  <2>2. lists[n + 1] = x
    <3>1. n + 1 \in DOMAIN d
      BY <1>1, ChainIs
    <3> HIDE DEF d, n
    <3> QED BY <1>1, <3>1 DEF RefsOf
  <2>3. lists = Append(old, x) /\ x \in Seq(BlockRef)
    <3> HIDE DEF d, n, x
    <3>1. n \in 0..Len(d) /\ n + 1 \in 1..Len(d) /\ Len(lists) = n + 1
      BY <1>1, <2>1 DEF IsDated
    <3>2. SubSeq(lists, 1, n) = old
      BY <1>1, <3>1, RefsPrefix
    <3> DEFINE Q == Seq(BlockRef)
    <3>3. lists \in Seq(Q)
      BY <2>1 DEF IsDated
    <3> HIDE DEF lists, old, Q
    <3>4. SubSeq(lists, 1, n + 1) = Append(SubSeq(lists, 1, n), lists[n + 1])
      <4>1. n + 1 \in 1..Len(lists) /\ (n + 1) - 1 = n
        BY <1>1, <3>1
      <4> QED BY <3>3, <4>1, PrefixStep
    <3>5. SubSeq(lists, 1, n + 1) = lists
      BY <3>1, <3>3, PrefixStep
    <3>6. lists[n + 1] \in Q
      BY <3>1, <3>3, <1>1, ElementIn
    <3> QED BY <2>2, <3>2, <3>4, <3>5, <3>6 DEF Q
  <2>4. From(lists, a) = From(old, a) \o x
    <3>1. old \in Seq(Seq(BlockRef)) /\ a \in 0..Len(old)
      BY <2>1 DEF IsDated
    <3> HIDE DEF lists, old, x
    <3> QED BY <2>3, <3>1, FromAppend
  <2>5. new.refs[k][s] = DropBefore(From(lists, a), bound)
    <3> DEFINE refs == AddRefs(ix.refs, b, Marks[b.hash])
    <3>1. refs[k][s] = IF s \in Marks[b.hash][k] THEN Append(ix.refs[k][s], b)
                       ELSE ix.refs[k][s]
      BY DEF AddRefs
    <3>2. new.refs[k][s] = DropBefore(refs[k][s], bound)
      BY DEF Prune, Record
    <3>3. ix.refs[k][s] = From(old, a)
      BY DEF IsRefs
    <3>4. From(old, a) \in Seq(BlockRef)
      <4>1. old \in Seq(Seq(BlockRef))
        BY <2>1 DEF IsDated
      <4> QED BY <1>1, <4>1, FromElements
    <3> HIDE DEF refs, old, lists, new
    <3>5. refs[k][s] = From(old, a) \o x
      <4>1. CASE s \in Marks[b.hash][k]
        <5>1. x = <<b>> /\ b \in BlockRef
          <6>1. x = <<b>>
            BY <4>1
          <6>2. b \in BlockRef
            BY FeedsAssumption DEF Block, BlockRef
          <6> QED BY <6>1, <6>2
        <5> HIDE DEF x
        <5>2. Append(From(old, a), b) = From(old, a) \o <<b>>
          BY <3>4, <5>1
        <5> QED BY <3>1, <3>3, <4>1, <5>1, <5>2
      <4>2. CASE s \notin Marks[b.hash][k]
        <5>1. x = <<>>
          BY <4>2
        <5> HIDE DEF x
        <5> QED BY <3>1, <3>3, <3>4, <4>2, <5>1
      <4> QED BY <4>1, <4>2
    <3> QED BY <2>4, <3>2, <3>5
  <2>6. AllHaveSlots(BlockRef)
    BY DEF AllHaveSlots, BlockRef
  <2> HIDE DEF lists, new, d
  <2>7. DropBefore(From(lists, a), bound) = From(lists, Max({a, PartitionPoint(d, bound)}))
    BY <1>1, <2>1, <2>6, DropKeeps
  <2> QED BY <2>5, <2>7 DEF lists
<1> HIDE DEF new, d
<1>3. IsRefs(new, d, Max({a, PartitionPoint(d, bound)}))
  BY <1>2 DEF IsRefs
<1> QED BY <1>3 DEF new, d

LEMMA LogsMove ==
  ASSUME NEW c, IsChain(c), c # <<>>, NEW b \in Block, b.slot > Last(c).slot,
         NEW ix, NEW a \in 0..Len(c), IsLogs(ix, c, a), NEW bound \in Nat
  PROVE  LET events == [r \in Roles |-> Events(c, b, r)]
             new == Prune(Record(ix, b, Marks[b.hash], events), bound)
             d == Append(c, b)
         IN  IsLogs(new, d, Max({a, PartitionPoint(d, bound)}))
<1> DEFINE events == [r \in Roles |-> Events(c, b, r)]
           new == Prune(Record(ix, b, Marks[b.hash], events), bound)
           d == Append(c, b)
           n == Len(c)
<1>1. /\ IsChain(d) /\ Len(d) = n + 1 /\ Prefix(d, n) = c /\ d[n + 1] = b
      /\ n \in Nat /\ a \in Nat /\ c \in Seq(Block)
  BY ChainAppend, ChainIs
<1>2. ASSUME NEW r \in Roles
      PROVE  /\ new.logs[r] \in GoodLogs
             /\ new.logs[r].events = From(EventsOf(d, r), Max({a, PartitionPoint(d, bound)}))
  <2> DEFINE lists == EventsOf(d, r)
             old == EventsOf(c, r)
             x == Events(c, b, r)
             log == ix.logs[r]
             more == AddEvents(log, x)
             kept == DropBefore(more.events, bound)
  <2>1. IsDated(lists, d, Entry) /\ IsDated(old, c, Entry)
    BY <1>1, EventsDated
  <2>2. lists[n + 1] = x /\ x \in Seq(Entry)
    <3>1. n + 1 \in DOMAIN d
      BY <1>1, ChainIs
    <3> HIDE DEF d, n
    <3>2. lists[n + 1] = Events(Prefix(d, (n + 1) - 1), d[n + 1], r)
      BY <3>1 DEF EventsOf
    <3>3. (n + 1) - 1 = n
      BY <1>1
    <3> HIDE DEF lists
    <3>4. lists[n + 1] = x
      BY <1>1, <3>2, <3>3
    <3>5. x \in Seq(Entry)
      BY <1>1, EventsAre
    <3> QED BY <3>4, <3>5
  <2>3. lists = Append(old, x)
    <3> HIDE DEF d, n, x
    <3>1. n \in 0..Len(d) /\ n + 1 \in 1..Len(d) /\ Len(lists) = n + 1
      BY <1>1, <2>1 DEF IsDated
    <3>2. SubSeq(lists, 1, n) = old
      BY <1>1, <3>1, EventsPrefix
    <3> DEFINE Q == Seq(Entry)
    <3>3. lists \in Seq(Q)
      BY <2>1 DEF IsDated
    <3> HIDE DEF lists, old, Q
    <3>4. SubSeq(lists, 1, n + 1) = Append(SubSeq(lists, 1, n), lists[n + 1])
      <4>1. n + 1 \in 1..Len(lists) /\ (n + 1) - 1 = n
        BY <1>1, <3>1
      <4> QED BY <3>3, <4>1, PrefixStep
    <3>5. SubSeq(lists, 1, n + 1) = lists
      BY <3>1, <3>3, PrefixStep
    <3> QED BY <2>2, <3>2, <3>4, <3>5
  <2>4. From(lists, a) = From(old, a) \o x
    <3>1. old \in Seq(Seq(Entry)) /\ a \in 0..Len(old)
      BY <2>1 DEF IsDated
    <3> HIDE DEF lists, old, x
    <3> QED BY <2>2, <2>3, <3>1, FromAppend
  <2>5. log \in GoodLogs /\ log.events = From(old, a)
    BY DEF IsLogs
  <2>6. more \in GoodLogs /\ more.events = From(lists, a)
    <3> HIDE DEF log, x, lists, old
    <3> QED BY <2>2, <2>4, <2>5, AddEventsKeeps
  <2>7. From(lists, a) \in Seq(Entry)
    <3>1. lists \in Seq(Seq(Entry))
      BY <2>1 DEF IsDated
    <3> HIDE DEF lists
    <3> QED BY <1>1, <3>1, FromElements
  <2>8. AllHaveSlots(Entry)
    BY DEF AllHaveSlots, Entry
  <2>9. new.logs[r] = IF kept = more.events THEN more ELSE Rebuild(kept)
    <3>1. Record(ix, b, Marks[b.hash], events).logs[r] = more
      BY DEF Record
    <3>2. new.logs[r] = PruneLog(Record(ix, b, Marks[b.hash], events).logs[r], bound)
      BY DEF Prune
    <3> HIDE DEF new, more, events
    <3>3. new.logs[r] = PruneLog(more, bound)
      BY <3>1, <3>2
    <3> QED BY <3>3 DEF PruneLog
  <2> HIDE DEF lists, new, d, more
  <2>10. kept = From(lists, Max({a, PartitionPoint(d, bound)}))
    <3>1. DropBefore(From(lists, a), bound) = From(lists, Max({a, PartitionPoint(d, bound)}))
      BY <1>1, <2>1, <2>8, DropKeeps
    <3> QED BY <2>6, <3>1
  <2>11. kept \in Seq(Entry)
    <3>1. lists \in Seq(Seq(Entry))
      BY <2>1 DEF IsDated
    <3>2. PartitionPoint(d, bound) \in Nat
      <4>1. PartitionPoint(d, bound) \in 0..Len(d)
        BY <1>1, PointSplits
      <4> QED BY <1>1, <4>1
    <3>3. Max({a, PartitionPoint(d, bound)}) \in Nat
      <4> DEFINE p == PartitionPoint(d, bound)
      <4>1. p \in Int /\ a \in Int
        BY <1>1, <3>2
      <4> HIDE DEF p
      <4>2. Max({a, p}) = IF a > p THEN a ELSE p
        BY <4>1, GreaterIs
      <4> QED BY <1>1, <3>2, <4>2 DEF p
    <3> HIDE DEF kept
    <3> QED BY <2>10, <3>1, <3>3, FromElements
  <2> HIDE DEF kept
  <2>12. new.logs[r] \in GoodLogs /\ new.logs[r].events = kept
    BY <2>6, <2>9, <2>11, RebuildIs
  <2> QED BY <2>10, <2>12 DEF lists
<1> HIDE DEF new, d
<1>3. IsLogs(new, d, Max({a, PartitionPoint(d, bound)}))
  BY <1>2 DEF IsLogs
<1> QED BY <1>3 DEF new, d, events

LEMMA RecordHolds ==
  ASSUME NEW c, NEW ix, NEW rc, Holds(ix, c, rc), NEW b \in Block, b.slot > Last(c).slot
  PROVE  LET events == [r \in Roles |-> Events(c, b, r)]
             new == Prune(Record(ix, b, Marks[b.hash], events), Boundary(b.slot))
         IN  Holds(new, Append(c, b), NextReach(rc, c, b))
<1> DEFINE events == [r \in Roles |-> Events(c, b, r)]
           bound == Boundary(b.slot)
           new == Prune(Record(ix, b, Marks[b.hash], events), bound)
           d == Append(c, b)
           a == Max({rc.from, PartitionPoint(d, bound)})
           next == NextReach(rc, c, b)
<1>1. /\ IsChain(c) /\ c # <<>> /\ IsRefs(ix, c, rc.from) /\ IsLogs(ix, c, rc.from)
      /\ IsReach(rc, c)
  BY DEF Holds
<1>2. rc.from \in 0..Len(c)
  BY <1>1, ChainIs DEF IsReach
<1>3. bound \in Nat
  <2>1. b.slot \in Nat
    BY DEF Block
  <2> QED BY <2>1, BoundaryIs
<1>4. IsChain(d) /\ Len(d) = Len(c) + 1
  BY <1>1, ChainAppend
<1> HIDE DEF bound
<1>5. IsRefs(new, d, a)
  BY <1>1, <1>2, <1>3, RefsMove
<1>6. IsLogs(new, d, a)
  BY <1>1, <1>2, <1>3, LogsMove
<1>7. IsReach(next, d)
  BY <1>1, ReachMoves
<1>8. next.from = a
  <2>1. rc \in [since : Nat, from : Nat, high : Nat]
    BY <1>1 DEF IsReach
  <2>2. next = [rc EXCEPT !.from = a, !.high = Max({rc.high, b.slot})]
    BY DEF NextReach, bound
  <2> HIDE DEF next, a
  <2> QED BY <2>1, <2>2
<1>9. new \in Index
  <2>1. /\ DOMAIN new.refs = Kinds /\ new.refs = [k \in Kinds |-> new.refs[k]]
        /\ new.logs = [r \in Roles |-> new.logs[r]]
        /\ \A k \in Kinds : new.refs[k] = [s \in Subjects |-> new.refs[k][s]]
        /\ new = [refs |-> new.refs, logs |-> new.logs]
    BY DEF Prune
  <2> HIDE DEF new
  <2>2. ASSUME NEW k \in Kinds, NEW s \in Subjects PROVE new.refs[k][s] \in Seq(BlockRef)
    <3>1. RefsOf(d, k, s) \in Seq(Seq(BlockRef))
      BY <1>4, RefsDated DEF IsDated
    <3>2. a \in Nat
      BY <1>7, <1>8 DEF IsReach
    <3> HIDE DEF a, d
    <3>3. From(RefsOf(d, k, s), a) \in Seq(BlockRef)
      BY <3>1, <3>2, FromElements
    <3> QED BY <1>5, <3>3 DEF IsRefs
  <2>3. ASSUME NEW r \in Roles PROVE new.logs[r] \in DelegationLog
    BY <1>6 DEF IsLogs, GoodLogs
  <2>4. new.refs \in [Kinds -> [Subjects -> Seq(BlockRef)]]
    BY <2>1, <2>2
  <2>5. new.logs \in [Roles -> DelegationLog]
    BY <2>1, <2>3
  <2> QED BY <2>1, <2>4, <2>5 DEF Index
<1>10. d # <<>>
  <2>1. Len(c) \in Nat
    BY <1>1, ChainIs
  <2> HIDE DEF d
  <2>2. Len(d) # 0
    BY <1>4, <2>1
  <2> QED BY <2>2
<1> HIDE DEF new, d, a, next
<1>11. Holds(new, d, next)
  BY <1>4, <1>5, <1>6, <1>7, <1>8, <1>9, <1>10 DEF Holds
<1> QED BY <1>11 DEF new, d, next, bound, events

\* A rollback to the n-th block.
LEMMA RollbackHolds ==
  ASSUME NEW c, NEW ix, NEW rc, Holds(ix, c, rc), NEW n \in 1..Len(c)
  PROVE  Holds(RollbackIndex(ix, c[n].slot), Prefix(c, n), [rc EXCEPT !.from = Min({@, n})])
<1> DEFINE new == RollbackIndex(ix, c[n].slot)
           p == Prefix(c, n)
           next == [rc EXCEPT !.from = Min({@, n})]
           a == rc.from
           m == Min({a, n})
<1>1. /\ IsChain(c) /\ c # <<>> /\ IsRefs(ix, c, a) /\ IsLogs(ix, c, a)
      /\ IsReach(rc, c)
  BY DEF Holds
<1>2. /\ a \in Nat /\ a <= Len(c) /\ n \in Nat /\ Len(c) \in Nat
      /\ \A i \in 1..Len(c) : c[i].slot \in Nat
      /\ rc \in [since : Nat, from : Nat, high : Nat]
  BY <1>1, ChainIs DEF IsReach
<1>3. IsChain(p) /\ Len(p) = n /\ \A i \in 1..n : p[i] = c[i]
  <2>1. n \in 0..Len(c)
    BY <1>2
  <2> QED BY <1>1, <2>1, PrefixIs
<1>4. m = (IF a < n THEN a ELSE n) /\ m \in Nat
  <2>1. m = IF a < n THEN a ELSE n
    BY <1>2, LesserIs
  <2> HIDE DEF m
  <2> QED BY <1>2, <2>1
<1>5. next = [rc EXCEPT !.from = m] /\ next.from = m
  <2> HIDE DEF m
  <2>1. next = [rc EXCEPT !.from = m]
    BY DEF m
  <2> QED BY <1>2, <1>4, <2>1
<1> HIDE DEF m, next, p
<1>6. ASSUME NEW k \in Kinds, NEW s \in Subjects
      PROVE  /\ new.refs[k][s] = From(RefsOf(p, k, s), m)
             /\ new.refs[k][s] \in Seq(BlockRef)
  <2> DEFINE lists == RefsOf(c, k, s)
             old == From(lists, a)
  <2>1. IsDated(lists, c, BlockRef) /\ AllHaveSlots(BlockRef)
    BY <1>1, RefsDated DEF AllHaveSlots, BlockRef
  <2>2. new.refs[k][s] = KeepUpTo(old, c[n].slot)
    BY <1>1 DEF RollbackIndex, IsRefs
  <2>3. SubSeq(lists, 1, n) = RefsOf(p, k, s)
    <3>1. n \in 0..Len(c)
      BY <1>2
    <3> QED BY <1>1, <3>1, RefsPrefix DEF p
  <2> HIDE DEF lists, new
  <2>4. KeepUpTo(old, c[n].slot) = From(SubSeq(lists, 1, n), m)
    BY <1>1, <1>2, <2>1, CutKeeps DEF m
  <2>5. From(RefsOf(p, k, s), m) \in Seq(BlockRef)
    <3>1. RefsOf(p, k, s) \in Seq(Seq(BlockRef))
      BY <1>3, RefsDated DEF IsDated
    <3> QED BY <1>4, <3>1, FromElements
  <2> QED BY <2>2, <2>3, <2>4, <2>5
<1>7. ASSUME NEW r \in Roles
      PROVE  new.logs[r] \in GoodLogs /\ new.logs[r].events = From(EventsOf(p, r), m)
  <2> DEFINE lists == EventsOf(c, r)
             old == From(lists, a)
             kept == KeepUpTo(old, c[n].slot)
  <2>1. IsDated(lists, c, Entry) /\ AllHaveSlots(Entry)
    BY <1>1, EventsDated DEF AllHaveSlots, Entry
  <2>2. new.logs[r] = Rebuild(kept)
    <3>1. new.logs[r] = RollbackLog(ix.logs[r], c[n].slot)
      BY DEF RollbackIndex
    <3>2. ix.logs[r].events = old
      BY <1>1 DEF IsLogs
    <3> HIDE DEF new, old
    <3> QED BY <3>1, <3>2 DEF RollbackLog
  <2>3. SubSeq(lists, 1, n) = EventsOf(p, r)
    <3>1. n \in 0..Len(c)
      BY <1>2
    <3> QED BY <1>1, <3>1, EventsPrefix DEF p
  <2> HIDE DEF lists, new
  <2>4. kept = From(SubSeq(lists, 1, n), m)
    BY <1>1, <1>2, <2>1, CutKeeps DEF m
  <2>5. From(EventsOf(p, r), m) \in Seq(Entry)
    <3>1. EventsOf(p, r) \in Seq(Seq(Entry))
      BY <1>3, EventsDated DEF IsDated
    <3> QED BY <1>4, <3>1, FromElements
  <2> HIDE DEF kept
  <2>6. Rebuild(kept) \in GoodLogs /\ Rebuild(kept).events = kept
    BY <2>3, <2>4, <2>5, RebuildIs
  <2> QED BY <2>2, <2>3, <2>4, <2>6
<1>8. new \in Index
  <2>1. /\ new = [refs |-> new.refs, logs |-> new.logs]
        /\ new.refs = [k \in Kinds |-> new.refs[k]]
        /\ new.logs = [r \in Roles |-> new.logs[r]]
        /\ \A k \in Kinds : new.refs[k] = [s \in Subjects |-> new.refs[k][s]]
    BY DEF RollbackIndex
  <2> HIDE DEF new
  <2>2. new.refs \in [Kinds -> [Subjects -> Seq(BlockRef)]]
    BY <1>6, <2>1
  <2>3. new.logs \in [Roles -> DelegationLog]
    BY <1>7, <2>1 DEF GoodLogs
  <2> QED BY <2>1, <2>2, <2>3 DEF Index
<1> HIDE DEF new
<1>9. IsRefs(new, p, m) /\ IsLogs(new, p, m)
  BY <1>6, <1>7 DEF IsRefs, IsLogs
<1>10. /\ next.since = rc.since /\ next.high = rc.high
       /\ next \in [since : Nat, from : Nat, high : Nat]
  BY <1>2, <1>4, <1>5
<1>11. BackTo(next, p)
  <2>1. Last(p) = c[n] /\ Last(c) = c[Len(c)] /\ Len(c) \in 1..Len(c)
    <3>1. n \in 1..n /\ Len(c) \in 1..Len(c)
      BY <1>2
    <3> QED BY <1>3, <3>1 DEF Last
  <2>2. Boundary(Last(p).slot) <= Boundary(Last(c).slot)
    <3>1. c[n].slot <= c[Len(c)].slot
      <4>1. n = Len(c) \/ n < Len(c)
        BY <1>2
      <4>2. n < Len(c) => c[n].slot < c[Len(c)].slot
        BY <1>1, <2>1 DEF IsChain
      <4>3. c[n].slot \in Nat /\ c[Len(c)].slot \in Nat
        BY <1>2, <2>1
      <4> QED BY <4>1, <4>2, <4>3
    <3>2. c[n].slot \in Nat /\ c[Len(c)].slot \in Nat
      BY <1>2, <2>1
    <3> QED BY <2>1, <3>1, <3>2, BoundaryIs
  <2>3. Boundary(Last(p).slot) \in Nat /\ Boundary(Last(c).slot) \in Nat
    <3>1. c[n].slot \in Nat /\ c[Len(c)].slot \in Nat
      BY <1>2, <2>1
    <3> QED BY <2>1, <3>1, BoundaryIs
  <2>4. ASSUME NEW i \in 1..n
        PROVE  IF i > next.from THEN p[i].slot >= Boundary(Last(p).slot)
               ELSE i <= next.since \/ p[i].slot < Boundary(next.high)
    <3>1. i \in 1..Len(c) /\ p[i] = c[i] /\ c[i].slot \in Nat
      BY <1>2, <1>3
    <3>2. (i > m) <=> (i > a)
      BY <1>2, <1>4
    <3>3. IF i > a THEN c[i].slot >= Boundary(Last(c).slot)
          ELSE i <= rc.since \/ c[i].slot < Boundary(rc.high)
      BY <1>1, <3>1 DEF IsReach, BackTo
    <3>4. CASE i > a
      <4>1. c[i].slot >= Boundary(Last(p).slot)
        BY <2>2, <2>3, <3>1, <3>3, <3>4
      <4> QED BY <1>5, <3>1, <3>2, <3>4, <4>1
    <3>5. CASE ~(i > a)
      BY <1>5, <1>10, <3>1, <3>2, <3>3, <3>5
    <3> QED BY <3>4, <3>5
  <2> QED BY <1>3, <2>4 DEF BackTo
<1>12. next.from <= Len(p)
  BY <1>2, <1>3, <1>4, <1>5
<1>13. p # <<>>
  <2>1. Len(p) # 0
    BY <1>2, <1>3
  <2> QED BY <2>1
<1>14. Holds(new, p, next)
  BY <1>3, <1>5, <1>8, <1>9, <1>10, <1>11, <1>12, <1>13 DEF Holds, IsReach
<1> QED BY <1>14 DEF new, p, next

\* A state rebuilt.
LEMMA EmptyHolds ==
  ASSUME NEW c, IsChain(c), c # <<>>
  PROVE  Holds(EmptyIndex, c, [since |-> Len(c), from |-> Len(c), high |-> Last(c).slot])
<1> DEFINE n == Len(c)
           rc == [since |-> n, from |-> n, high |-> Last(c).slot]
<1>1. n \in Nat /\ n \in 1..n /\ c[n].slot \in Nat
  BY ChainIs
<1>2. rc \in [since : Nat, from : Nat, high : Nat] /\ rc.from = n /\ rc.since = n
  BY <1>1 DEF Last
<1>3. ASSUME NEW S, NEW lists \in Seq(Seq(S)), Len(lists) = n PROVE From(lists, n) = <<>>
  <2> DEFINE Q == Seq(S)
  <2>1. lists \in Seq(Q) /\ Len(lists) \in 0..Len(lists) /\ ~(n < Len(lists))
    BY <1>1, <1>3
  <2> HIDE DEF Q
  <2>2. SubSeq(lists, n + 1, Len(lists)) = <<>>
    BY <1>1, <2>1, SliceIs
  <2> QED BY <2>2, FlattenAppend DEF From
<1>4. IsRefs(EmptyIndex, c, n)
  <2>1. ASSUME NEW k \in Kinds, NEW s \in Subjects
        PROVE  EmptyIndex.refs[k][s] = From(RefsOf(c, k, s), n)
    <3>1. RefsOf(c, k, s) \in Seq(Seq(BlockRef)) /\ Len(RefsOf(c, k, s)) = n
      BY RefsDated DEF IsDated
    <3> QED BY <1>3, <3>1 DEF EmptyIndex
  <2> QED BY <2>1 DEF IsRefs
<1>5. EmptyLog \in GoodLogs /\ EmptyLog.events = <<>>
  BY EmptyIsGood
<1>6. IsLogs(EmptyIndex, c, n)
  <2>1. ASSUME NEW r \in Roles
        PROVE  EmptyIndex.logs[r] \in GoodLogs /\ EmptyIndex.logs[r].events = From(EventsOf(c, r), n)
    <3>1. EventsOf(c, r) \in Seq(Seq(Entry)) /\ Len(EventsOf(c, r)) = n
      BY EventsDated DEF IsDated
    <3>2. EmptyIndex.logs[r] = EmptyLog
      BY DEF EmptyIndex
    <3> QED BY <1>3, <1>5, <3>1, <3>2
  <2> QED BY <2>1 DEF IsLogs
<1>7. EmptyIndex \in Index
  <2>1. EmptyLog \in DelegationLog
    BY <1>5 DEF GoodLogs
  <2> QED BY <2>1 DEF EmptyIndex, Index
<1>8. BackTo(rc, c)
  BY <1>1, <1>2 DEF BackTo
<1> HIDE DEF rc
<1>9. Holds(EmptyIndex, c, rc)
  BY <1>1, <1>2, <1>4, <1>6, <1>7, <1>8 DEF Holds, IsReach
<1> QED BY <1>9 DEF rc

-----------------------------------------------------------------------------
(* The inductive invariant *)

\* The index is right for a chain of which c is the first part: the one it was
\* saved with ahead of the snapshot.
Ahead(ix, c, rc) ==
  \E full : Holds(ix, full, rc) /\ Len(c) \in 1..Len(full) /\ c = Prefix(full, Len(c))

\* The window is right once the node has named the point to go on from; before,
\* it is that of a longer chain, and it stays within what a rollback undoes.
IndexInv ==
  /\ oldest \in 1..Len(chain) /\ Len(chain) < oldest + MaxHistory
  /\ aligned \in BOOLEAN /\ crashes \in 0..MaxCrashes
  /\ aligned => Holds(index, chain, reach)
  /\ Ahead(index, chain, reach)
  /\ Ahead(disk.index, disk.chain, disk.reach)
  /\ reach.since \in 1..oldest
  /\ disk.reach.since \in 1..Len(disk.chain)

LEMMA AheadIs ==
  ASSUME NEW c, NEW ix, NEW rc, Ahead(ix, c, rc)
  PROVE  /\ IsChain(c) /\ Len(c) \in Nat /\ Len(c) >= 1 /\ c # <<>> /\ ix \in Index
         /\ rc \in [since : Nat, from : Nat, high : Nat]
<1>1. PICK full : Holds(ix, full, rc) /\ Len(c) \in 1..Len(full) /\ c = Prefix(full, Len(c))
  BY DEF Ahead
<1>2. IsChain(full) /\ Len(full) \in Nat /\ ix \in Index
      /\ rc \in [since : Nat, from : Nat, high : Nat]
  BY <1>1, ChainIs DEF Holds, IsReach
<1>3. Len(c) \in 0..Len(full) /\ Len(c) \in Nat /\ Len(c) >= 1
  BY <1>1, <1>2
<1>4. IsChain(Prefix(full, Len(c)))
  BY <1>2, <1>3, PrefixIs
<1>5. IsChain(c)
  BY <1>1, <1>4
<1>6. c # <<>>
  BY <1>3
<1> QED BY <1>2, <1>3, <1>5, <1>6

LEMMA HoldsIsAhead ==
  ASSUME NEW c, NEW ix, NEW rc, Holds(ix, c, rc), NEW n \in 1..Len(c)
  PROVE  Ahead(ix, Prefix(c, n), rc) /\ Ahead(ix, c, rc)
<1>1. IsChain(c) /\ Len(c) \in Nat /\ c # <<>> /\ c \in Seq(Block)
  BY ChainIs DEF Holds
<1>2. Len(Prefix(c, n)) = n
  <2>1. n \in 0..Len(c)
    BY <1>1
  <2> QED BY <1>1, <2>1, PrefixIs
<1>3. Ahead(ix, Prefix(c, n), rc)
  BY <1>2 DEF Ahead
<1>4. c = Prefix(c, Len(c))
  BY <1>1, PrefixStep DEF Prefix
<1>5. Len(c) \in 1..Len(c)
  BY <1>1
<1>6. Ahead(ix, c, rc)
  BY <1>4, <1>5 DEF Ahead
<1> QED BY <1>3, <1>6

\* A rollback of an index that is ahead.
LEMMA RollbackAhead ==
  ASSUME NEW c, NEW ix, NEW rc, Ahead(ix, c, rc), NEW n \in 1..Len(c)
  PROVE  Holds(RollbackIndex(ix, c[n].slot), Prefix(c, n), [rc EXCEPT !.from = Min({@, n})])
<1>1. PICK full : Holds(ix, full, rc) /\ Len(c) \in 1..Len(full) /\ c = Prefix(full, Len(c))
  BY DEF Ahead
<1>2. IsChain(full) /\ Len(full) \in Nat
  BY <1>1, ChainIs DEF Holds
<1>3. Len(c) \in 0..Len(full) /\ n \in 0..Len(c) /\ n \in 1..Len(full)
  BY <1>1, <1>2
<1>4. Prefix(Prefix(full, Len(c)), n) = Prefix(full, n) /\ Prefix(full, Len(c))[n] = full[n]
  BY <1>2, <1>3, PrefixIs
<1>5. Prefix(c, n) = Prefix(full, n) /\ c[n] = full[n]
  BY <1>1, <1>4
<1>6. Holds(RollbackIndex(ix, full[n].slot), Prefix(full, n), [rc EXCEPT !.from = Min({@, n})])
  BY <1>1, <1>3, RollbackHolds
<1> QED BY <1>5, <1>6

\* What is saved is from within the history.
LEMMA SavedIs ==
  ASSUME NEW c, NEW ix, NEW rc, Holds(ix, c, rc), NEW first \in 1..Len(c)
  PROVE  /\ Saved(c, first, ix, rc).index = ix /\ Saved(c, first, ix, rc).reach = rc
         /\ Ahead(ix, Saved(c, first, ix, rc).chain, rc)
         /\ Len(Saved(c, first, ix, rc).chain) \in Nat
         /\ Len(Saved(c, first, ix, rc).chain) >= first
<1> DEFINE n == Len(c)
           x == n - first + 1 - Depth
           m == first + Max({0, x})
<1>1. n \in Nat /\ IsChain(c) /\ Depth \in Nat /\ Depth >= 1
  BY ChainIs, FeedsAssumption DEF Holds
<1>2. x \in Int /\ x <= n - first
  BY <1>1
<1>3. Max({0, x}) = IF 0 > x THEN 0 ELSE x
  <2> HIDE DEF x
  <2> QED BY <1>2, GreaterIs
<1>4. m \in 1..n /\ m >= first /\ m \in 0..n
  <2> DEFINE g == Max({0, x})
  <2> HIDE DEF x, n, g
  <2>1. g = IF 0 > x THEN 0 ELSE x
    BY <1>3 DEF g
  <2>2. first + g \in 1..n /\ first + g >= first /\ first + g \in 0..n
    BY <1>1, <1>2, <2>1 DEF n
  <2> QED BY <2>2 DEF g
<1>5. Saved(c, first, ix, rc) = [chain |-> Prefix(c, m), index |-> ix, reach |-> rc]
  BY DEF Saved
<1> HIDE DEF m, n
<1>6. Len(Prefix(c, m)) = m
  BY <1>1, <1>4, PrefixIs DEF n
<1>7. Ahead(ix, Prefix(c, m), rc)
  BY <1>4, HoldsIsAhead DEF n
<1>8. m \in Nat
  BY <1>1, <1>4
<1> QED BY <1>4, <1>5, <1>6, <1>7, <1>8

LEMMA OldestIs ==
  ASSUME NEW n \in Nat, NEW first \in 1..n, n <= first + MaxHistory
  PROVE  /\ Oldest(first, n) \in first..n /\ n < Oldest(first, n) + MaxHistory
<1>1. MaxHistory \in Nat /\ MaxHistory >= 1
  BY FeedsAssumption
<1> DEFINE x == n + 1 - MaxHistory
<1>2. x \in Int
  BY <1>1
<1>3. Oldest(first, n) = IF first > x THEN first ELSE x
  <2> HIDE DEF x
  <2>1. Max({first, x}) = IF first > x THEN first ELSE x
    BY <1>2, GreaterIs
  <2> QED BY <2>1 DEF Oldest, x
<1> QED BY <1>1, <1>3

LEMMA InitIndex ==
  ASSUME Init PROVE IndexInv
<1>1. chain = <<Root>> /\ chain \in Seq(Block) /\ Len(chain) = 1 /\ chain[1] = Root
  <2>1. Root \in Block
    BY FeedsAssumption DEF Root, Block
  <2> QED BY <2>1 DEF Init
<1>2. IsChain(chain) /\ chain # <<>>
  BY <1>1 DEF IsChain
<1>3. Last(chain).slot = 0
  BY <1>1 DEF Last, Root
<1>4. Holds(index, chain, reach)
  <2>1. reach = [since |-> Len(chain), from |-> Len(chain), high |-> Last(chain).slot]
    BY <1>1, <1>3 DEF Init
  <2>2. index = EmptyIndex
    BY DEF Init
  <2> QED BY <1>2, <2>1, <2>2, EmptyHolds
<1>5. 1 \in 1..Len(chain)
  BY <1>1
<1>6. Ahead(index, chain, reach)
  BY <1>4, <1>5, HoldsIsAhead
<1>7. disk.index = index /\ disk.chain = chain /\ disk.reach = reach /\ oldest = 1 /\ reach.since = 1
  BY DEF Init
<1>8. MaxHistory \in Nat /\ MaxHistory >= 1 /\ MaxCrashes \in Nat
  BY FeedsAssumption
<1>9. aligned \in BOOLEAN /\ crashes \in 0..MaxCrashes
  BY <1>8 DEF Init
<1>10. Ahead(disk.index, disk.chain, disk.reach)
  BY <1>6, <1>7
<1>11. oldest \in 1..Len(chain) /\ Len(chain) < oldest + MaxHistory
  BY <1>1, <1>7, <1>8
<1>12. reach.since \in 1..oldest /\ disk.reach.since \in 1..Len(disk.chain)
  BY <1>1, <1>7
<1> QED BY <1>4, <1>6, <1>9, <1>10, <1>11, <1>12 DEF IndexInv

LEMMA ApplyKeeps ==
  ASSUME IndexInv, ApplySome PROVE IndexInv'
<1>1. PICK gap \in 1..MaxGap, h \in Hashes \ {"root"}, save \in BOOLEAN :
        Apply([slot |-> Last(chain).slot + gap, hash |-> h], save)
  BY DEF ApplySome
<1> DEFINE b == [slot |-> Last(chain).slot + gap, hash |-> h]
           events == [r \in Roles |-> Events(chain, b, r)]
           d == Append(chain, b)
           n == Len(chain)
           new == Prune(Record(index, b, Marks[b.hash], events), Boundary(b.slot))
<1>2. /\ aligned /\ Holds(index, chain, reach)
      /\ oldest \in 1..n /\ n < oldest + MaxHistory /\ reach.since \in 1..oldest
      /\ disk.reach.since \in 1..Len(disk.chain)
      /\ Ahead(disk.index, disk.chain, disk.reach) /\ crashes \in 0..MaxCrashes
  BY <1>1 DEF Apply, IndexInv
<1>3. IsChain(chain) /\ chain # <<>> /\ n \in Nat /\ n >= 1 /\ Last(chain).slot \in Nat
  <2>1. IsChain(chain) /\ chain # <<>>
    BY <1>2 DEF Holds
  <2>2. n \in Nat /\ \A i \in 1..n : chain[i].slot \in Nat
    BY <2>1, ChainIs
  <2>3. n >= 1 /\ n \in 1..n
    BY <1>2, <2>2
  <2> QED BY <2>1, <2>2, <2>3 DEF Last
<1>4. b \in Block /\ b.slot > Last(chain).slot
  <2>1. MaxGap \in Nat
    BY FeedsAssumption
  <2> DEFINE l == Last(chain).slot
  <2>2. l \in Nat /\ l + gap \in Nat /\ l + gap > l
    BY <1>3, <2>1
  <2> HIDE DEF l
  <2>3. [slot |-> l + gap, hash |-> h] \in Block
    BY <2>2 DEF Block
  <2> QED BY <2>2, <2>3 DEF l
<1>5. /\ chain' = d /\ oldest' = Oldest(oldest, n + 1) /\ index' = new
      /\ disk' = (IF save THEN Saved(chain', oldest', index', reach') ELSE disk)
      /\ aligned' = aligned /\ crashes' = crashes
  BY <1>1 DEF Apply
<1>6. reach' = NextReach(reach, chain, b)
  BY <1>1 DEF Apply, NextReach
<1>7. Holds(new, d, NextReach(reach, chain, b))
  BY <1>2, <1>4, RecordHolds
<1> HIDE DEF new
<1>8. Holds(index', chain', reach')
  BY <1>5, <1>6, <1>7
<1>9. Len(chain') = n + 1
  BY <1>3, <1>4, <1>5, ChainAppend
<1> HIDE DEF b, d, n
<1>10. oldest' \in oldest..(n + 1) /\ n + 1 < oldest' + MaxHistory
  <2>1. n + 1 \in Nat /\ oldest \in 1..(n + 1) /\ n + 1 <= oldest + MaxHistory
    <3>1. MaxHistory \in Nat
      BY FeedsAssumption
    <3> QED BY <1>2, <1>3, <3>1
  <2> QED BY <1>5, <2>1, OldestIs
<1>11. oldest' \in 1..Len(chain') /\ Len(chain') < oldest' + MaxHistory /\ oldest' \in Nat
  BY <1>2, <1>3, <1>9, <1>10
<1>12. reach'.since = reach.since
  <2>1. reach \in [since : Nat, from : Nat, high : Nat]
    BY <1>2 DEF Holds, IsReach
  <2> QED BY <1>6, <2>1 DEF NextReach
<1>13. reach'.since \in 1..oldest'
  BY <1>2, <1>10, <1>11, <1>12
<1>14. Ahead(index', chain', reach')
  BY <1>8, <1>11, HoldsIsAhead
<1>15. Ahead(disk'.index, disk'.chain, disk'.reach) /\ disk'.reach.since \in 1..Len(disk'.chain)
  <2>1. CASE save
    <3>1. disk' = Saved(chain', oldest', index', reach')
      BY <1>5, <2>1
    <3>2. /\ disk'.index = index' /\ disk'.reach = reach'
          /\ Ahead(index', disk'.chain, reach')
          /\ Len(disk'.chain) \in Nat /\ Len(disk'.chain) >= oldest'
      BY <1>8, <1>11, <3>1, SavedIs
    <3>3. disk'.reach.since \in 1..Len(disk'.chain)
      BY <1>11, <1>13, <3>2
    <3> QED BY <3>2, <3>3
  <2>2. CASE ~save
    BY <1>2, <1>5, <2>2
  <2> QED BY <2>1, <2>2
<1>16. aligned' \in BOOLEAN /\ crashes' \in 0..MaxCrashes
  BY <1>2, <1>5 DEF IndexInv
<1> QED BY <1>8, <1>11, <1>13, <1>14, <1>15, <1>16 DEF IndexInv

LEMMA TruncateKeeps ==
  ASSUME IndexInv, TruncateSome PROVE IndexInv'
<1>1. PICK n \in DOMAIN chain : Truncate(n)
  BY DEF TruncateSome
<1>2. /\ Ahead(index, chain, reach) /\ oldest \in 1..Len(chain)
      /\ Len(chain) < oldest + MaxHistory /\ reach.since \in 1..oldest
      /\ disk.reach.since \in 1..Len(disk.chain)
      /\ Ahead(disk.index, disk.chain, disk.reach) /\ crashes \in 0..MaxCrashes
  BY DEF IndexInv
<1>3. IsChain(chain) /\ Len(chain) \in Nat /\ reach \in [since : Nat, from : Nat, high : Nat]
  BY <1>2, AheadIs
<1>4. n \in 1..Len(chain) /\ n \in 0..Len(chain) /\ n \in Nat
  <2>1. n \in 1..Len(chain)
    BY <1>3, ChainIs
  <2> QED BY <1>3, <2>1
<1>5. /\ n >= oldest /\ chain' = Prefix(chain, n) /\ aligned' = TRUE
      /\ index' = RollbackIndex(index, chain[n].slot)
      /\ reach' = [reach EXCEPT !.from = Min({@, n})]
      /\ oldest' = oldest /\ disk' = disk /\ crashes' = crashes
  BY <1>1 DEF Truncate
<1>6. Holds(index', chain', reach')
  BY <1>2, <1>4, <1>5, RollbackAhead
<1>7. Len(chain') = n
  BY <1>3, <1>4, <1>5, PrefixIs
<1>8. n \in 1..Len(chain')
  BY <1>4, <1>7
<1>9. Ahead(index', chain', reach')
  BY <1>6, <1>8, HoldsIsAhead
<1>10. reach'.since = reach.since
  BY <1>3, <1>5
<1>11. oldest' \in 1..Len(chain') /\ Len(chain') < oldest' + MaxHistory
  <2>1. MaxHistory \in Nat
    BY FeedsAssumption
  <2> QED BY <1>2, <1>3, <1>4, <1>5, <1>7, <2>1
<1> QED BY <1>2, <1>5, <1>6, <1>9, <1>10, <1>11 DEF IndexInv

LEMMA ResetKeeps ==
  ASSUME IndexInv, ResetSome PROVE IndexInv'
<1>1. PICK n \in DOMAIN chain : Reset(n)
  BY DEF ResetSome
<1>2. Ahead(index, chain, reach) /\ crashes \in 0..MaxCrashes
  BY DEF IndexInv
<1>3. IsChain(chain) /\ Len(chain) \in Nat
  BY <1>2, AheadIs
<1>4. n \in 1..Len(chain) /\ n \in 0..Len(chain) /\ n \in Nat /\ n >= 1
  <2>1. n \in 1..Len(chain)
    BY <1>3, ChainIs
  <2> QED BY <1>3, <2>1
<1>5. /\ chain' = Prefix(chain, n) /\ aligned' = TRUE
      /\ index' = EmptyIndex /\ oldest' = n /\ crashes' = crashes
      /\ reach' = [since |-> n, from |-> n, high |-> chain[n].slot]
      /\ disk' = Saved(chain', n, index', reach')
  BY <1>1 DEF Reset, ResetIndex
<1>6. IsChain(chain') /\ Len(chain') = n /\ \A i \in 1..n : chain'[i] = chain[i]
  BY <1>3, <1>4, <1>5, PrefixIs
<1>7. chain' # <<>> /\ Last(chain') = chain[n]
  <2>1. Len(chain') # 0 /\ n \in 1..n
    BY <1>4, <1>6
  <2>2. chain' # <<>>
    BY <2>1
  <2> QED BY <1>6, <2>1, <2>2 DEF Last
<1>8. Holds(index', chain', reach')
  BY <1>5, <1>6, <1>7, EmptyHolds
<1>9. n \in 1..Len(chain')
  BY <1>4, <1>6
<1>10. Ahead(index', chain', reach')
  BY <1>8, <1>9, HoldsIsAhead
<1>11. /\ disk'.index = index' /\ disk'.reach = reach'
       /\ Ahead(index', disk'.chain, reach')
       /\ Len(disk'.chain) \in Nat /\ Len(disk'.chain) >= n
  BY <1>5, <1>8, <1>9, SavedIs
<1>12. reach'.since = n
  BY <1>5
<1>13. oldest' \in 1..Len(chain') /\ Len(chain') < oldest' + MaxHistory
  <2>1. MaxHistory \in Nat /\ MaxHistory >= 1
    BY FeedsAssumption
  <2> QED BY <1>4, <1>5, <1>6, <2>1
<1>14. reach'.since \in 1..oldest' /\ disk'.reach.since \in 1..Len(disk'.chain)
  BY <1>4, <1>5, <1>11, <1>12
<1>15. Ahead(disk'.index, disk'.chain, disk'.reach)
  BY <1>11
<1> QED BY <1>2, <1>5, <1>8, <1>10, <1>13, <1>14, <1>15 DEF IndexInv

LEMMA RestartKeeps ==
  ASSUME IndexInv, Restart PROVE IndexInv'
<1>1. /\ disk.reach.since \in 1..Len(disk.chain)
      /\ Ahead(disk.index, disk.chain, disk.reach) /\ crashes \in 0..MaxCrashes
  BY DEF IndexInv
<1>2. /\ crashes < MaxCrashes /\ crashes' = crashes + 1 /\ aligned' = FALSE
      /\ chain' = disk.chain /\ oldest' = Len(disk.chain)
      /\ index' = disk.index /\ reach' = disk.reach /\ disk' = disk
  BY DEF Restart
<1>3. Len(disk.chain) \in Nat /\ Len(disk.chain) >= 1
  BY <1>1, AheadIs
<1>4. MaxHistory \in Nat /\ MaxHistory >= 1 /\ MaxCrashes \in Nat
  BY FeedsAssumption
<1>5. oldest' \in 1..Len(chain') /\ Len(chain') < oldest' + MaxHistory
  BY <1>2, <1>3, <1>4
<1>6. crashes' \in 0..MaxCrashes
  BY <1>1, <1>2, <1>4
<1>7. Ahead(index', chain', reach') /\ Ahead(disk'.index, disk'.chain, disk'.reach)
  BY <1>1, <1>2
<1>8. reach'.since \in 1..oldest' /\ disk'.reach.since \in 1..Len(disk'.chain)
  BY <1>1, <1>2
<1> QED BY <1>2, <1>5, <1>6, <1>7, <1>8 DEF IndexInv

LEMMA IndexStep ==
  ASSUME IndexInv, [Next]_vars PROVE IndexInv'
<1>1. CASE ApplySome
  BY <1>1, ApplyKeeps
<1>2. CASE TruncateSome
  BY <1>2, TruncateKeeps
<1>3. CASE ResetSome
  BY <1>3, ResetKeeps
<1>4. CASE Restart
  BY <1>4, RestartKeeps
<1>5. CASE UNCHANGED vars
  BY <1>5 DEF vars, IndexInv
<1> QED BY <1>1, <1>2, <1>3, <1>4, <1>5 DEF Next

LEMMA IndexInvariance == Spec => []IndexInv
<1>1. Init => IndexInv
  BY InitIndex
<1>2. IndexInv /\ [Next]_vars => IndexInv'
  BY IndexStep
<1> QED BY <1>1, <1>2, PTL DEF Spec

-----------------------------------------------------------------------------
(* What follows from it *)

LEMMA WindowFollows == IndexInv => IndexIsTheWindow
<1> SUFFICES ASSUME IndexInv PROVE IndexIsTheWindow
  OBVIOUS
<1>1. /\ Ahead(index, chain, reach) /\ Ahead(disk.index, disk.chain, disk.reach)
      /\ oldest \in 1..Len(chain) /\ Len(chain) < oldest + MaxHistory
      /\ aligned \in BOOLEAN /\ crashes \in 0..MaxCrashes
      /\ aligned => Holds(index, chain, reach)
  BY DEF IndexInv
<1>2. /\ IsChain(chain) /\ index \in Index /\ disk.index \in Index
      /\ reach \in [since : Nat, from : Nat, high : Nat]
  BY <1>1, AheadIs
<1>3. chain \in Seq(Block) /\ DOMAIN chain = 1..Len(chain) /\ Len(chain) \in Nat
  BY <1>2, ChainIs
<1>4. TypeOK
  BY <1>1, <1>2, <1>3 DEF TypeOK, Block
<1>5. ASSUME aligned
      PROVE  /\ \A k \in Kinds, s \in Subjects :
                  index.refs[k][s] = Since(RefsOf(chain, k, s))
             /\ \A r \in Roles : index.logs[r].events = Since(EventsOf(chain, r))
  <2>1. IsRefs(index, chain, reach.from) /\ IsLogs(index, chain, reach.from)
    BY <1>1, <1>5 DEF Holds
  <2>2. \A lists : Since(lists) = From(lists, reach.from)
    BY DEF Since, From
  <2> QED BY <2>1, <2>2 DEF IsRefs, IsLogs
<1>6. ASSUME aligned, NEW i \in DOMAIN chain
      PROVE  IF i \in Reached THEN chain[i].slot >= Boundary(Last(chain).slot)
             ELSE i <= reach.since \/ chain[i].slot < Boundary(reach.high)
  <2>1. BackTo(reach, chain)
    BY <1>1, <1>6 DEF Holds, IsReach
  <2>2. i \in 1..Len(chain)
    BY <1>3
  <2>3. (i \in Reached) <=> (i > reach.from)
    BY <1>2, <1>3, <2>2 DEF Reached
  <2> QED BY <2>1, <2>2, <2>3 DEF BackTo
<1> QED BY <1>4, <1>5, <1>6 DEF IndexIsTheWindow

LEMMA PositionsFollow == IndexInv => PositionsFindEvents
<1> SUFFICES ASSUME IndexInv, NEW r \in Roles, NEW s \in Subjects
             PROVE  LET log == index.logs[r]
                        naming == {i \in DOMAIN log.events :
                                     s \in {log.events[i].from, log.events[i].to}}
                        at == log.at[s]
                    IN  /\ ToSet(at) = naming
                        /\ \A i, j \in DOMAIN at : i < j => at[i] < at[j]
  BY DEF PositionsFindEvents
<1>1. PICK full : Holds(index, full, reach)
  BY DEF IndexInv, Ahead
<1>2. IsPositioned(index.logs[r])
  BY <1>1 DEF Holds, IsLogs, GoodLogs
<1> QED BY <1>2 DEF IsPositioned, PointTo, Names

\* Whatever forks the chain takes and whenever the process is started again, the
\* index the feeds read is the window over the chain's last blocks.
THEOREM IndexFollowsChain == Spec => []IndexIsTheWindow
BY IndexInvariance, WindowFollows, PTL

\* The positions kept for a target are always those of the events that name it.
THEOREM PositionsStayRight == Spec => []PositionsFindEvents
BY IndexInvariance, PositionsFollow, PTL

-----------------------------------------------------------------------------
(* What the log says of a block that changed a delegation *)

LEMMA SiftNone ==
  ASSUME NEW S, NEW keep, NEW s \in Seq(S), \A e \in ToSet(s) : e \notin keep
  PROVE  Sift(s, keep) = <<>>
<1> DEFINE t == Sift(s, keep)
<1>1. t \in Seq(S \cap keep) /\ {t[j] : j \in DOMAIN t} = {s[j] : j \in DOMAIN s} \cap keep
  BY SiftIn, SiftElements
<1> HIDE DEF t
<1>2. {s[j] : j \in DOMAIN s} \cap keep = {}
  BY DEF ToSet
<1>3. DOMAIN t = 1..Len(t) /\ Len(t) \in Nat
  BY <1>1, LenNat
<1>4. t = <<>>
  <2> SUFFICES ASSUME t # <<>> PROVE FALSE
    OBVIOUS
  <2>1. 1 \in DOMAIN t
    BY <1>1
  <2> QED BY <1>1, <1>2, <2>1
<1> QED BY <1>4 DEF t

LEMMA SiftTwice ==
  ASSUME NEW S, NEW a, NEW b, NEW s \in Seq(S)
  PROVE  Sift(Sift(s, a), b) = Sift(s, a \cap b)
<1> DEFINE Same(w) == Sift(Sift(w, a), b) = Sift(w, a \cap b)
           W == {w \in Seq(S) : Same(w)}
<1>1. <<>> \in W
  BY SiftEmpty
<1>2. ASSUME NEW w \in Seq(S), NEW x \in S, w \in W PROVE Append(w, x) \in W
  <2>1. Append(w, x) \in Seq(S)
    BY AppendIs
  <2>2. Sift(w, a) \in Seq(S)
    <3>1. Sift(w, a) \in Seq(S \cap a)
      BY SiftIn
    <3> QED BY <3>1
  <2>3. Sift(Append(w, x), a) = IF x \in a THEN Append(Sift(w, a), x) ELSE Sift(w, a)
    BY SiftAppend
  <2>4. Sift(Append(w, x), a \cap b)
          = IF x \in a \cap b THEN Append(Sift(w, a \cap b), x) ELSE Sift(w, a \cap b)
    BY SiftAppend
  <2> DEFINE u == Sift(w, a)
  <2> HIDE DEF u
  <2>5. Sift(Append(u, x), b) = IF x \in b THEN Append(Sift(u, b), x) ELSE Sift(u, b)
    BY <2>2, SiftAppend DEF u
  <2>6. Sift(u, b) = Sift(w, a \cap b)
    BY <1>2 DEF u
  <2>7. Same(Append(w, x))
    <3>1. CASE x \in a
      <4>1. Sift(Append(w, x), a) = Append(u, x) /\ (x \in a \cap b <=> x \in b)
        BY <2>3, <3>1 DEF u
      <4>2. Sift(Sift(Append(w, x), a), b)
              = IF x \in b THEN Append(Sift(w, a \cap b), x) ELSE Sift(w, a \cap b)
        BY <2>5, <2>6, <4>1
      <4> QED BY <2>4, <4>1, <4>2
    <3>2. CASE x \notin a
      <4>1. Sift(Append(w, x), a) = u /\ x \notin a \cap b
        BY <2>3, <3>2 DEF u
      <4> QED BY <2>4, <2>6, <4>1
    <3> QED BY <3>1, <3>2
  <2> HIDE DEF Same
  <2> QED BY <2>1, <2>7
<1> HIDE DEF W
<1>3. \A w \in Seq(S) : w \in W
  BY <1>1, <1>2, BuiltUp
<1> QED BY <1>3 DEF W

\* A list with x in it, and around it no other entry of the slot.
IsAround(list, x, slot, S) ==
  \E u, v \in Seq(S) : /\ list = u \o (x \o v)
                       /\ \A e \in ToSet(u) \cup ToSet(v) : e.slot # slot

\* The entries of one block among those since another.
LEMMA Middle ==
  ASSUME NEW S, NEW c, IsChain(c), NEW lists, IsDated(lists, c, S),
         NEW a \in Nat, NEW i \in 1..Len(c), a < i
  PROVE  IsAround(From(lists, a), lists[i], c[i].slot, S)
<1>0. PICK k \in Nat : k = i - 1
  OBVIOUS
<1> DEFINE head == SubSeq(lists, 1, k)
           u == From(head, a)
           v == From(lists, i)
           x == lists[i]
           Q == Seq(S)
<1>1. /\ lists \in Seq(Q) /\ Len(lists) = Len(c) /\ Len(c) \in Nat
      /\ k \in 0..Len(lists) /\ i \in 0..Len(lists) /\ i \in 1..Len(lists)
      /\ i \in Nat /\ k \in 0..Len(c) /\ k + 1 = i /\ a <= k /\ k < i
      /\ \A j \in 1..Len(c) : c[j].slot \in Nat
  <2>1. Len(c) \in Nat /\ \A j \in 1..Len(c) : c[j].slot \in Nat
    BY ChainIs
  <2>2. lists \in Seq(Q) /\ Len(lists) = Len(c)
    BY DEF IsDated
  <2> HIDE DEF Q
  <2> QED BY <1>0, <2>1, <2>2
<1>2. x \in Q
  <2> HIDE DEF Q
  <2>1. i \in DOMAIN lists
    BY <1>1, LenNat
  <2> QED BY <1>1, <2>1, ElementIn
<1>3. From(lists, a) = u \o From(lists, k) /\ u \in Seq(S) /\ From(lists, k) \in Seq(S)
  <2> DEFINE m == IF a > k THEN a ELSE k
  <2>1. m = k
    BY <1>1
  <2>2. From(lists, a) = u \o From(lists, m) /\ u \in Seq(S) /\ From(lists, m) \in Seq(S)
    BY <1>1, FromSplits, ZenonT(30)
  <2> HIDE DEF u, m
  <2> QED BY <2>1, <2>2
<1>4. From(lists, k) = From(SubSeq(lists, 1, i), k) \o v /\ v \in Seq(S)
  <2> DEFINE m == IF k > i THEN k ELSE i
             w == From(SubSeq(lists, 1, i), k)
  <2>1. m = i
    BY <1>1
  <2>2. From(lists, k) = w \o From(lists, m) /\ From(lists, m) \in Seq(S)
    BY <1>1, FromSplits, ZenonT(30)
  <2> HIDE DEF m
  <2> QED BY <2>1, <2>2
<1>5. head \in Seq(Q) /\ Len(head) = k /\ SubSeq(lists, 1, i) = Append(head, x)
  <2> HIDE DEF Q
  <2> QED BY <1>0, <1>1, PrefixStep
<1>6. From(SubSeq(lists, 1, i), k) = x
  <2> HIDE DEF head, x
  <2>1. k \in 0..Len(head) /\ ~(k < Len(head)) /\ Len(head) \in 0..Len(head)
    BY <1>1, <1>5
  <2>2. From(Append(head, x), k) = From(head, k) \o x
    BY <1>2, <1>5, <2>1, FromAppend, ZenonT(30)
  <2>3. From(head, k) = <<>>
    <3> HIDE DEF Q
    <3>1. SubSeq(head, k + 1, Len(head)) = <<>>
      BY <1>5, <2>1, SliceIs
    <3> QED BY <3>1, FlattenAppend DEF From
  <2>4. <<>> \o x = x
    BY <1>2
  <2> HIDE DEF Q
  <2> QED BY <1>5, <2>2, <2>3, <2>4
<1>7. From(lists, a) = u \o (x \o v)
  BY <1>3, <1>4, <1>6
<1>8. ASSUME NEW e \in ToSet(u) PROVE e.slot # c[i].slot
  <2>1. PICK j \in (a + 1)..Len(head) : e \in ToSet(head[j])
    BY <1>5, FromElements
  <2>2. j \in 1..k /\ j \in 1..Len(c) /\ j < i
    BY <1>1, <1>5, <2>1
  <2>3. IsDated(head, Prefix(c, k), S)
    BY <1>1, DatedPrefix
  <2>4. Len(Prefix(c, k)) = k /\ Prefix(c, k)[j] = c[j]
    BY <1>1, <2>2, PrefixIs
  <2> HIDE DEF head
  <2>5. e.slot = c[j].slot
    BY <2>1, <2>2, <2>3, <2>4 DEF IsDated
  <2>6. c[j].slot < c[i].slot /\ c[j].slot \in Nat /\ c[i].slot \in Nat
    BY <1>1, <2>2 DEF IsChain
  <2> QED BY <2>5, <2>6
<1>9. ASSUME NEW e \in ToSet(v) PROVE e.slot # c[i].slot
  <2>1. PICK j \in (i + 1)..Len(lists) : e \in ToSet(lists[j])
    BY <1>1, FromElements
  <2>2. j \in 1..Len(c) /\ i < j
    BY <1>1, <2>1
  <2>3. e.slot = c[j].slot
    BY <2>1, <2>2 DEF IsDated
  <2>4. c[i].slot < c[j].slot /\ c[j].slot \in Nat /\ c[i].slot \in Nat
    BY <1>1, <2>2 DEF IsChain
  <2> QED BY <2>3, <2>4
<1> HIDE DEF u, v, x
<1>10. \A e \in ToSet(u) \cup ToSet(v) : e.slot # c[i].slot
  BY <1>8, <1>9
<1> QED BY <1>3, <1>4, <1>7, <1>10 DEF IsAround, x

\* The certificates of a credential, and its entries at a slot that say from
\* what to what it changed.
Own(cred) == [cred : {cred}, to : Subjects \cup {Nobody}]
Mine(slot, cred) == {e \in Entry : e.slot = slot /\ e.cred = cred}
Changing == {e \in Entry : e.from = Nobody \/ e.from # e.to}

\* A credential's target after one more block.
LEMMA TargetAfter ==
  ASSUME NEW c \in Seq(Block), NEW b \in Block, NEW r \in Roles, NEW cred
  PROVE  LET own == Sift(Certs[b.hash][r], Own(cred))
         IN  /\ own \in Seq(Cert)
             /\ Target(Append(c, b), r, cred)
                  = IF own = <<>> THEN Target(c, r, cred) ELSE Last(own).to
<1> DEFINE g == [x \in Block |-> Certs[x.hash][r]]
           certs == Certs[b.hash][r]
           all(d) == FlatMap(d, g)
           own == Sift(certs, Own(cred))
           old == Sift(all(c), Own(cred))
<1>1. g \in [Block -> Seq(Cert)] /\ g[b] = certs /\ certs \in Seq(Cert)
  <2>1. Certs \in [Hashes -> [Roles -> Seq(Cert)]]
    BY FeedsAssumption
  <2>2. ASSUME NEW x \in Block PROVE Certs[x.hash][r] \in Seq(Cert)
    BY <2>1 DEF Block
  <2> QED BY <2>2
<1>2. ASSUME NEW d \in Seq(Block)
      PROVE  Target(d, r, cred) = LET o == Sift(all(d), Own(cred))
                                  IN  IF o = <<>> THEN Nobody ELSE Last(o).to
  <2>1. \A i \in DOMAIN d : g[d[i]] = Certs[d[i].hash][r]
    BY ElementIn
  <2> HIDE DEF g
  <2>2. [i \in DOMAIN d |-> g[d[i]]] = [i \in DOMAIN d |-> Certs[d[i].hash][r]]
    BY <2>1
  <2> QED BY <2>2 DEF Target, FlatMap, Own
<1> HIDE DEF g, certs
<1>3. all(c) \in Seq(Cert) /\ all(Append(c, b)) = all(c) \o certs
  <2>1. FlatMap(c, g) \in Seq(Cert)
    <3>1. \A d \in Seq(Block) : FlatMap(d, g) \in Seq(Cert)
      BY <1>1, FlatMapAppend, ZenonT(30)
    <3> QED BY <3>1
  <2>2. FlatMap(Append(c, b), g) = FlatMap(c, g) \o g[b]
    <3>1. \A d \in Seq(Block), x \in Block : FlatMap(Append(d, x), g) = FlatMap(d, g) \o g[x]
      BY <1>1, FlatMapAppend, ZenonT(30)
    <3> QED BY <3>1
  <2> QED BY <1>1, <2>1, <2>2
<1>4. Sift(all(Append(c, b)), Own(cred)) = old \o own
  <2> DEFINE u == all(c)
  <2>1. u \in Seq(Cert) /\ certs \in Seq(Cert) /\ all(Append(c, b)) = u \o certs
    BY <1>1, <1>3
  <2> HIDE DEF u
  <2>2. Sift(u \o certs, Own(cred)) = Sift(u, Own(cred)) \o Sift(certs, Own(cred))
    BY <2>1, SiftConcat
  <2> QED BY <2>1, <2>2 DEF u
<1>5. old \in Seq(Cert) /\ own \in Seq(Cert)
  <2>1. old \in Seq(Cert \cap Own(cred)) /\ own \in Seq(Cert \cap Own(cred))
    BY <1>1, <1>3, SiftIn
  <2> HIDE DEF old, own
  <2> QED BY <2>1
<1>6. Append(c, b) \in Seq(Block)
  BY AppendIs
<1>7. /\ Target(c, r, cred) = IF old = <<>> THEN Nobody ELSE Last(old).to
      /\ Target(Append(c, b), r, cred) = IF old \o own = <<>> THEN Nobody ELSE Last(old \o own).to
  BY <1>2, <1>4, <1>6
<1> HIDE DEF old, own
<1>8. CASE own = <<>>
  <2>1. old \o own = old
    BY <1>5, <1>8
  <2> QED BY <1>5, <1>7, <1>8, <2>1 DEF own, certs
<1>9. CASE own # <<>>
  <2>1. Len(old) \in Nat /\ Len(own) \in Nat /\ Len(own) # 0
    BY <1>5, <1>9
  <2>2. Len(old \o own) = Len(old) + Len(own) /\ Len(own) \in 1..Len(own)
    BY <1>5, <2>1
  <2>3. (old \o own)[Len(old) + Len(own)] = own[Len(own)]
    BY <1>5, <2>1, <2>2
  <2>4. Last(old \o own) = Last(own)
    BY <2>2, <2>3 DEF Last
  <2>5. old \o own # <<>>
    BY <2>1, <2>2
  <2> QED BY <1>5, <1>7, <1>9, <2>4, <2>5 DEF own, certs
<1> QED BY <1>8, <1>9

\* When the last certificate of a credential changed what it had before the
\* block, so says the last event kept for it.
LEMMA LastOwn ==
  ASSUME NEW c \in Seq(Block), NEW b \in Block, NEW r \in Roles, NEW cred,
         NEW certs \in Seq(Cert)
  PROVE  LET own == Sift(certs, Own(cred))
             kept == Sift(Mapped(certs, EventFrom(c, b, r)), Changing \cap Mine(b.slot, cred))
             before == Target(c, r, cred)
         IN  own # <<>> /\ Last(own).to # before =>
               /\ kept # <<>>
               /\ Last(kept).from = before /\ Last(kept).to = Last(own).to
<1> DEFINE f == EventFrom(c, b, r)
           keep == Changing \cap Mine(b.slot, cred)
           before == Target(c, r, cred)
           Says(w) == LET own == Sift(w, Own(cred))
                          kept == Sift(Mapped(w, f), keep)
                      IN  own # <<>> /\ Last(own).to # before =>
                            /\ kept # <<>>
                            /\ Last(kept).from = before /\ Last(kept).to = Last(own).to
           W == {w \in Seq(Cert) : Says(w)}
<1>1. f \in [Cert -> Entry]
  BY EventsAre
<1>2. ASSUME NEW x \in Cert
      PROVE  /\ f[x] \in Entry /\ f[x].slot = b.slot /\ f[x].cred = x.cred
             /\ f[x].from = Target(c, r, x.cred) /\ f[x].to = x.to
             /\ x \in Own(cred) <=> x.cred = cred
  <2>1. f[x] = EventOf(c, b, r, x)
    BY DEF EventFrom
  <2>2. f[x] \in Entry
    BY <1>1
  <2> HIDE DEF f
  <2>3. x \in Own(cred) <=> x.cred = cred
    BY DEF Own, Cert
  <2> QED BY <2>1, <2>2, <2>3 DEF EventOf
<1> HIDE DEF f
<1>3. <<>> \in W
  <2>1. Sift(<<>>, Own(cred)) = <<>>
    BY SiftEmpty
  <2>2. Says(<<>>)
    BY <2>1
  <2> HIDE DEF Says
  <2> QED BY <2>2
<1>4. ASSUME NEW w \in Seq(Cert), NEW x \in Cert, w \in W PROVE Append(w, x) \in W
  <2> DEFINE own == Sift(w, Own(cred))
             kept == Sift(Mapped(w, f), keep)
             more == Append(w, x)
  <2>1. more \in Seq(Cert)
    BY AppendIs
  <2>2. Sift(more, Own(cred)) = IF x \in Own(cred) THEN Append(own, x) ELSE own
    BY SiftAppend
  <2>3. Mapped(w, f) \in Seq(Entry) /\ Mapped(more, f) = Append(Mapped(w, f), f[x])
    BY <1>1, MapType, MapAppend
  <2>4. Sift(Mapped(more, f), keep) = IF f[x] \in keep THEN Append(kept, f[x]) ELSE kept
    <3> DEFINE m == Mapped(w, f)
               y == f[x]
    <3>1. m \in Seq(Entry) /\ y \in Entry /\ Mapped(more, f) = Append(m, y)
      BY <1>2, <2>3
    <3> HIDE DEF m, y, keep
    <3>2. Sift(Append(m, y), keep) = IF y \in keep THEN Append(Sift(m, keep), y) ELSE Sift(m, keep)
      BY <3>1, SiftAppend
    <3> QED BY <3>1, <3>2 DEF m, y
  <2>5. own \in Seq(Cert) /\ kept \in Seq(Entry)
    <3>1. own \in Seq(Cert \cap Own(cred)) /\ kept \in Seq(Entry \cap keep)
      BY <2>3, SiftIn
    <3> HIDE DEF own, kept
    <3> QED BY <3>1
  <2>6. Says(more)
    <3> HIDE DEF more, own, kept, before
    <3>1. CASE x.cred # cred
      <4>1. x \notin Own(cred) /\ f[x] \notin keep
        BY <1>2, <3>1 DEF Mine
      <4>2. Sift(more, Own(cred)) = own /\ Sift(Mapped(more, f), keep) = kept
        BY <2>2, <2>4, <4>1
      <4>3. own # <<>> /\ Last(own).to # before =>
              kept # <<>> /\ Last(kept).from = before /\ Last(kept).to = Last(own).to
        BY <1>4 DEF own, kept
      <4> QED BY <4>2, <4>3
    <3>2. CASE x.cred = cred /\ x.to = before
      <4>1. Sift(more, Own(cred)) = Append(own, x)
        BY <1>2, <2>2, <3>2
      <4>2. Last(Append(own, x)) = x
        BY <2>5 DEF Last
      <4> QED BY <3>2, <4>1, <4>2
    <3>3. CASE x.cred = cred /\ x.to # before
      <4>1. Sift(more, Own(cred)) = Append(own, x)
        BY <1>2, <2>2, <3>3
      <4>2. Last(Append(own, x)) = x
        BY <2>5 DEF Last
      <4>3. f[x].from = before /\ f[x].to = x.to
        BY <1>2, <3>3 DEF before
      <4>4. f[x] \in keep
        BY <1>2, <3>3, <4>3 DEF Mine, Changing
      <4>5. Sift(Mapped(more, f), keep) = Append(kept, f[x])
        BY <2>4, <4>4
      <4>6. Last(Append(kept, f[x])) = f[x] /\ Append(kept, f[x]) # <<>>
        <5> DEFINE y == f[x]
        <5>1. y \in Entry
          BY <1>2
        <5> DEFINE t == Append(kept, y)
        <5> HIDE DEF y
        <5>2. Len(t) = Len(kept) + 1 /\ t[Len(kept) + 1] = y /\ Len(kept) \in Nat
          BY <2>5, <5>1, AppendIs, LenNat
        <5> HIDE DEF t
        <5>3. Last(t) = y /\ t # <<>>
          BY <5>2 DEF Last
        <5> QED BY <5>3 DEF t, y
      <4> QED BY <4>1, <4>2, <4>3, <4>5, <4>6
    <3> QED BY <3>1, <3>2, <3>3
  <2> HIDE DEF Says, more
  <2> QED BY <2>1, <2>6 DEF more
<1> HIDE DEF W
<1>5. \A w \in Seq(Cert) : w \in W
  BY <1>3, <1>4, BuiltUp
<1>6. Says(certs)
  BY <1>5 DEF W
<1> QED BY <1>6 DEF f

LEMMA ChangesFollow == IndexInv => ChangesAreLogged
<1> SUFFICES ASSUME IndexInv, aligned, NEW r \in Roles, NEW i \in Reached, NEW cred \in Creds,
                    Target(Prefix(chain, i - 1), r, cred) # Target(Prefix(chain, i), r, cred)
             PROVE  LET before == Target(Prefix(chain, i - 1), r, cred)
                        after == Target(Prefix(chain, i), r, cred)
                        events == index.logs[r].events
                        own == Sift(events, {e \in ToSet(events) :
                                               e.slot = chain[i].slot /\ e.cred = cred})
                    IN  own # <<>> /\ Last(own).from = before /\ Last(own).to = after
  BY ZenonT(30) DEF ChangesAreLogged
<1> DEFINE a == reach.from
           c == Prefix(chain, i - 1)
           b == chain[i]
           lists == EventsOf(chain, r)
           events == index.logs[r].events
           mine == Mine(b.slot, cred)
           all == Mapped(Certs[b.hash][r], EventFrom(c, b, r))
           kept == Sift(all, Changing \cap mine)
           before == Target(c, r, cred)
           own == Sift(Certs[b.hash][r], Own(cred))
<1>1. /\ IsChain(chain) /\ IsLogs(index, chain, a) /\ a \in Nat /\ a <= Len(chain)
  BY DEF IndexInv, Holds, IsReach
<1>2. /\ chain \in Seq(Block) /\ Len(chain) \in Nat
      /\ \A j \in 1..Len(chain) : chain[j] \in Block
  BY <1>1, ChainIs
<1>3. i \in 1..Len(chain) /\ a < i /\ i - 1 \in 0..Len(chain) /\ i \in Nat
  BY <1>1, <1>2 DEF Reached
<1>4. b \in Block /\ c \in Seq(Block) /\ Prefix(chain, i) = Append(c, b)
  <2>1. b \in Block
    BY <1>2, <1>3
  <2>2. c \in Seq(Block) /\ Prefix(chain, i) = Append(c, b)
    BY <1>2, <1>3, PrefixStep DEF Prefix
  <2> QED BY <2>1, <2>2
<1>5. events = From(lists, a) /\ IsDated(lists, chain, Entry) /\ lists[i] = Events(c, b, r)
  <2>1. i \in DOMAIN chain
    BY <1>2, <1>3
  <2> QED BY <1>1, <2>1, EventsDated DEF IsLogs, EventsOf
<1> HIDE DEF a, c, b, lists, events
<1>6. PICK u \in Seq(Entry), v \in Seq(Entry) :
         /\ events = u \o (lists[i] \o v)
         /\ \A e \in ToSet(u) \cup ToSet(v) : e.slot # b.slot
  <2>1. IsAround(From(lists, a), lists[i], chain[i].slot, Entry)
    BY <1>1, <1>3, <1>5, Middle
  <2> QED BY <1>5, <2>1 DEF IsAround, b
<1>7. /\ all \in Seq(Entry) /\ lists[i] = Sift(all, Kept(all)) /\ lists[i] \in Seq(Entry)
      /\ Certs[b.hash][r] \in Seq(Cert)
  BY <1>4, <1>5, EventsAre
<1> HIDE DEF all
<1>8. Sift(events, mine) = Sift(lists[i], mine)
  <2> DEFINE x == lists[i]
  <2>1. x \in Seq(Entry) /\ events = u \o (x \o v)
    BY <1>6, <1>7
  <2>2. Sift(u, mine) = <<>> /\ Sift(v, mine) = <<>>
    <3>1. \A e \in ToSet(u) \cup ToSet(v) : e \notin mine
      BY <1>6 DEF Mine
    <3> HIDE DEF mine
    <3> QED BY <3>1, SiftNone
  <2> HIDE DEF x, mine
  <2>3. Sift(x \o v, mine) = Sift(x, mine) \o Sift(v, mine) /\ x \o v \in Seq(Entry)
    BY <2>1, SiftConcat
  <2>4. Sift(u \o (x \o v), mine) = Sift(u, mine) \o Sift(x \o v, mine)
    BY <2>3, SiftConcat
  <2>5. Sift(x, mine) \in Seq(Entry)
    <3>1. Sift(x, mine) \in Seq(Entry \cap mine)
      BY <2>1, SiftIn
    <3> QED BY <3>1
  <2>6. Sift(events, mine) = <<>> \o (Sift(x, mine) \o <<>>)
    BY <2>1, <2>2, <2>3, <2>4
  <2> DEFINE y == Sift(x, mine)
  <2> HIDE DEF y
  <2>7. y \in Seq(Entry) /\ <<>> \o (y \o <<>>) = y
    BY <2>5 DEF y
  <2> QED BY <2>6, <2>7 DEF x, y
<1>9. Sift(lists[i], mine) = kept
  <2> HIDE DEF mine
  <2>1. Sift(lists[i], mine) = Sift(all, Kept(all) \cap mine)
    BY <1>7, SiftTwice
  <2>2. \A j \in 1..Len(all) : all[j] \in Kept(all) \cap mine <=> all[j] \in Changing \cap mine
    <3>1. DOMAIN all = 1..Len(all)
      BY <1>7, LenNat
    <3>2. ASSUME NEW j \in DOMAIN all PROVE all[j] \in Kept(all) <=> all[j] \in Changing
      <4>1. all[j] \in Entry /\ all[j] \in ToSet(all)
        BY <1>7, ElementIn DEF ToSet
      <4> QED BY <4>1 DEF Kept, Changing
    <3> QED BY <3>1, <3>2
  <2> DEFINE k == Kept(all) \cap mine
             l == Changing \cap mine
  <2>3. \A j \in 1..Len(all) : all[j] \in k <=> all[j] \in l
    BY <2>2
  <2> HIDE DEF k, l
  <2>4. Sift(all, k) = Sift(all, l)
    BY <1>7, <2>3, SiftAgrees
  <2> QED BY <2>1, <2>4 DEF k, l
<1>10. Sift(events, {e \in ToSet(events) : e.slot = b.slot /\ e.cred = cred}) = kept
  <2> DEFINE named == {e \in ToSet(events) : e.slot = b.slot /\ e.cred = cred}
  <2>1. events \in Seq(Entry)
    BY <1>6, <1>7
  <2>2. \A j \in 1..Len(events) : events[j] \in named <=> events[j] \in mine
    <3>1. DOMAIN events = 1..Len(events)
      BY <2>1, LenNat
    <3>2. ASSUME NEW j \in DOMAIN events PROVE events[j] \in named <=> events[j] \in mine
      <4>1. events[j] \in Entry /\ events[j] \in ToSet(events)
        BY <2>1, ElementIn DEF ToSet
      <4> QED BY <4>1 DEF Mine
    <3> QED BY <3>1, <3>2
  <2> HIDE DEF named, mine
  <2>3. Sift(events, named) = Sift(events, mine)
    BY <2>1, <2>2, SiftAgrees
  <2> QED BY <1>8, <1>9, <2>3 DEF named
<1>11. /\ own # <<>> /\ Target(Prefix(chain, i), r, cred) = Last(own).to
       /\ Last(own).to # before
  <2>1. Target(Append(c, b), r, cred) = IF own = <<>> THEN before ELSE Last(own).to
    BY <1>4, TargetAfter
  <2>2. before # Target(Append(c, b), r, cred)
    BY <1>4 DEF c
  <2> HIDE DEF own, before
  <2> QED BY <1>4, <2>1, <2>2
<1>12. kept # <<>> /\ Last(kept).from = before /\ Last(kept).to = Last(own).to
  <2>1. own # <<>> /\ Last(own).to # before =>
          kept # <<>> /\ Last(kept).from = before /\ Last(kept).to = Last(own).to
    BY <1>4, <1>7, LastOwn DEF all
  <2> QED BY <1>11, <2>1
<1> HIDE DEF kept, own
<1> QED BY <1>10, <1>11, <1>12 DEF events, b, c

\* A delegation changed by a block is in the log with what it was and what it
\* became, for every block the index reaches back to.
THEOREM EveryChangeIsLogged == Spec => []ChangesAreLogged
BY IndexInvariance, ChangesFollow, PTL

-----------------------------------------------------------------------------
(* The block count of a pool's header *)

\* The blocks of c among the first n, behind the a-th, that s minted since
\* epochStart.
MintedBy(c, a, n, s, epochStart) ==
  {i \in (a + 1)..n : s \in Marks[c[i].hash]["minted"] /\ c[i].slot >= epochStart}
Recent(epochStart) == {ref \in BlockRef : ref.slot >= epochStart}

LEMMA SiftOne ==
  ASSUME NEW S, NEW y \in S, NEW keep
  PROVE  Sift(<<y>>, keep) = IF y \in keep THEN <<y>> ELSE <<>>
<1>1. \A s \in Seq(S) : Sift(Append(s, y), keep)
                          = IF y \in keep THEN Append(Sift(s, keep), y) ELSE Sift(s, keep)
  BY SiftAppend
<1>2. <<>> \in Seq(S) /\ Append(<<>>, y) = <<y>>
  OBVIOUS
<1>3. Sift(<<>>, keep) = <<>>
  BY SiftEmpty
<1> QED BY <1>1, <1>2, <1>3

LEMMA EpochCount ==
  ASSUME NEW c, IsChain(c), NEW s \in Subjects, NEW epochStart \in Nat, NEW a \in 0..Len(c)
  PROVE  LET refs == From(RefsOf(c, "minted", s), a)
         IN  Len(Sift(refs, Recent(epochStart)))
               = Cardinality(MintedBy(c, a, Len(c), s, epochStart))
<1> DEFINE k == "minted"
           keep == Recent(epochStart)
           refs(n) == From(RefsOf(Prefix(c, n), k, s), a)
           count(n) == MintedBy(c, a, n, s, epochStart)
           Counts(n) == Len(Sift(refs(n), keep)) = Cardinality(count(n))
           N == Len(c)
           T == {n \in 0..N : a <= n => Counts(n)}
<1>1. /\ c \in Seq(Block) /\ N \in Nat /\ k \in Kinds /\ a \in Nat
      /\ \A i \in 1..N : c[i] \in Block /\ c[i].slot \in Nat
  BY ChainIs, SubjectAssumption
<1> HIDE DEF k
<1>2. ASSUME NEW n \in 0..N, n = a PROVE Counts(n)
  <2>1. refs(n) = <<>>
    <3> DEFINE lists == RefsOf(Prefix(c, n), k, s)
               Q == Seq(BlockRef)
    <3>1. IsChain(Prefix(c, n)) /\ Len(Prefix(c, n)) = n
      BY PrefixIs
    <3>2. lists \in Seq(Q) /\ Len(lists) = n
      BY <1>1, <3>1, RefsDated DEF IsDated
    <3> HIDE DEF lists, Q
    <3>3. Len(lists) \in 0..Len(lists) /\ ~(a < Len(lists))
      BY <1>1, <1>2, <3>2
    <3>4. SubSeq(lists, a + 1, Len(lists)) = <<>>
      BY <1>1, <3>2, <3>3, SliceIs
    <3> QED BY <3>4, FlattenAppend DEF From, lists
  <2>2. count(n) = {}
    <3>1. (a + 1)..n = {}
      BY <1>1, <1>2
    <3> QED BY <3>1 DEF MintedBy
  <2>3. Len(<<>>) = 0
    OBVIOUS
  <2> HIDE DEF refs, count, keep
  <2> QED BY <2>1, <2>2, <2>3, SiftEmpty, FS_EmptySet
<1>3. ASSUME NEW n \in 1..N, n > a, Counts(n - 1) PROVE Counts(n)
  <2> DEFINE p == Prefix(c, n)
             q == Prefix(c, n - 1)
             lists == RefsOf(p, k, s)
             old == RefsOf(q, k, s)
             x == IF s \in Marks[c[n].hash][k] THEN <<c[n]>> ELSE <<>>
             new == s \in Marks[c[n].hash]["minted"] /\ c[n].slot >= epochStart
  <2>1. /\ n \in 0..N /\ n - 1 \in 0..N /\ n \in Nat /\ n - 1 \in Nat /\ n - 1 \in 0..n
        /\ a <= n - 1 /\ n \in 1..n /\ (n - 1) + 1 = n
    BY <1>1, <1>3
  <2>2. /\ IsChain(p) /\ Len(p) = n /\ p[n] = c[n] /\ IsChain(q) /\ Len(q) = n - 1
        /\ Prefix(p, n - 1) = q
    BY <2>1, PrefixIs
  <2> HIDE DEF p, q
  <2>3. IsDated(lists, p, BlockRef) /\ IsDated(old, q, BlockRef) /\ SubSeq(lists, 1, n - 1) = old
    <3>1. n - 1 \in 0..Len(p)
      BY <2>1, <2>2
    <3> QED BY <1>1, <2>2, <3>1, RefsDated, RefsPrefix
  <2>4. lists[n] = x
    <3>1. n \in DOMAIN p
      BY <2>1, <2>2, ChainIs
    <3> QED BY <2>2, <3>1 DEF RefsOf
  <2>5. c[n] \in BlockRef /\ c[n].slot \in Nat /\ x \in Seq(BlockRef)
    <3>1. c[n] \in Block /\ c[n].slot \in Nat
      BY <1>1
    <3>2. c[n] \in BlockRef
      BY <3>1, FeedsAssumption DEF Block, BlockRef
    <3> QED BY <3>1, <3>2
  <2> HIDE DEF x
  <2>6. lists = Append(old, x)
    <3> DEFINE Q == Seq(BlockRef)
    <3>1. lists \in Seq(Q) /\ Len(lists) = n
      BY <2>2, <2>3 DEF IsDated
    <3> HIDE DEF lists, old, Q
    <3>2. SubSeq(lists, 1, n) = Append(SubSeq(lists, 1, n - 1), lists[n]) /\ SubSeq(lists, 1, n) = lists
      BY <2>1, <3>1, PrefixStep
    <3> QED BY <2>3, <2>4, <3>2
  <2>7. refs(n) = refs(n - 1) \o x /\ refs(n - 1) \in Seq(BlockRef)
    <3>1. old \in Seq(Seq(BlockRef)) /\ a \in 0..Len(old)
      BY <1>1, <2>1, <2>2, <2>3 DEF IsDated
    <3> HIDE DEF lists, old
    <3>2. From(Append(old, x), a) = From(old, a) \o x
      BY <2>5, <3>1, FromAppend
    <3>3. From(old, a) \in Seq(BlockRef)
      BY <1>1, <3>1, FromElements
    <3> QED BY <2>6, <3>2, <3>3 DEF lists, old, p, q
  <2> DEFINE u == refs(n - 1)
  <2>8. u \in Seq(BlockRef) /\ refs(n) = u \o x /\ Len(Sift(u, keep)) = Cardinality(count(n - 1))
    BY <1>3, <2>7
  <2>9. Sift(u, keep) \in Seq(BlockRef)
    <3> HIDE DEF u
    <3>1. Sift(u, keep) \in Seq(BlockRef \cap keep)
      BY <2>8, SiftIn
    <3> QED BY <3>1
  <2>10. Sift(refs(n), keep) = Sift(u, keep) \o Sift(x, keep)
    <3> HIDE DEF u, refs
    <3> QED BY <2>5, <2>8, SiftConcat
  <2>11. IsFiniteSet(count(n - 1)) /\ n \notin count(n - 1)
    <3>1. IsFiniteSet((a + 1)..(n - 1))
      BY <1>1, <2>1, FS_Interval
    <3>2. count(n - 1) \subseteq (a + 1)..(n - 1)
      BY DEF MintedBy
    <3> HIDE DEF count
    <3>3. n \notin (a + 1)..(n - 1)
      BY <1>1, <2>1
    <3> QED BY <3>1, <3>2, <3>3, FS_Subset
  <2>12. (a + 1)..n = (a + 1)..(n - 1) \cup {n}
    BY <1>1, <2>1
  <2>13. CASE new
    <3>1. Sift(x, keep) = <<c[n]>>
      <4>1. x = <<c[n]>>
        BY <2>13 DEF x, k
      <4>2. c[n] \in keep
        BY <2>5, <2>13 DEF Recent
      <4> DEFINE y == c[n]
      <4> HIDE DEF y, keep
      <4>3. x = <<y>> /\ y \in BlockRef /\ y \in keep
        BY <2>5, <4>1, <4>2 DEF y
      <4>4. Sift(x, keep) = <<y>>
        BY <4>3, SiftOne
      <4> QED BY <4>4 DEF y
    <3>2. count(n) = count(n - 1) \cup {n}
      BY <2>12, <2>13 DEF MintedBy
    <3>3. Cardinality(count(n)) = Cardinality(count(n - 1)) + 1
      <4> HIDE DEF count
      <4> QED BY <2>11, <3>2, FS_AddElement
    <3>4. Len(Sift(u, keep) \o <<c[n]>>) = Len(Sift(u, keep)) + 1
      <4> DEFINE w == Sift(u, keep)
                 y == c[n]
      <4>1. w \in Seq(BlockRef) /\ y \in BlockRef
        BY <2>5, <2>9
      <4> HIDE DEF w, y
      <4>2. Len(w \o <<y>>) = Len(w) + 1
        BY <4>1
      <4> QED BY <4>2 DEF w, y
    <3> HIDE DEF count, u, refs, keep
    <3> QED BY <2>8, <2>10, <3>1, <3>3, <3>4
  <2>14. CASE ~new
    <3>1. Sift(x, keep) = <<>>
      <4>1. CASE s \in Marks[c[n].hash][k]
        <5>1. x = <<c[n]>> /\ c[n] \notin keep
          BY <2>14, <4>1 DEF x, k, Recent
        <5> DEFINE y == c[n]
        <5> HIDE DEF y, keep
        <5>2. x = <<y>> /\ y \in BlockRef /\ y \notin keep
          BY <2>5, <5>1 DEF y
        <5> QED BY <5>2, SiftOne
      <4>2. CASE s \notin Marks[c[n].hash][k]
        BY <4>2, SiftEmpty DEF x
      <4> QED BY <4>1, <4>2
    <3>2. count(n) = count(n - 1)
      <4>1. n \notin count(n)
        BY <2>14 DEF MintedBy
      <4> QED BY <2>12, <4>1 DEF MintedBy
    <3>3. Sift(u, keep) \o <<>> = Sift(u, keep)
      <4> DEFINE w == Sift(u, keep)
      <4> HIDE DEF w
      <4>1. w \in Seq(BlockRef) => w \o <<>> = w
        OBVIOUS
      <4> QED BY <2>9, <4>1 DEF w
    <3> HIDE DEF count, u, refs, keep
    <3> QED BY <2>8, <2>10, <3>1, <3>2, <3>3
  <2> QED BY <2>13, <2>14
<1> HIDE DEF Counts
<1>4. 0 \in T
  BY <1>1, <1>2
<1>5. ASSUME NEW n \in 1..N, n - 1 \in T PROVE n \in T
  <2>1. n \in 0..N /\ n \in Nat
    BY <1>1
  <2>2. CASE n = a
    BY <1>2, <2>1, <2>2
  <2>3. CASE n > a
    <3>1. a <= n - 1
      BY <1>1, <2>1, <2>3
    <3> QED BY <1>3, <1>5, <2>1, <2>3, <3>1
  <2>4. CASE n < a
    BY <1>1, <2>1, <2>4
  <2> QED BY <1>1, <2>1, <2>2, <2>3, <2>4
<1>6. \A n \in 0..N : n \in T
  <2> HIDE DEF T
  <2> QED BY <1>1, <1>4, <1>5, CountUp
<1>7. Counts(N)
  <2>1. N \in T /\ a <= N
    BY <1>1, <1>6
  <2> QED BY <2>1
<1>8. Prefix(c, N) = c
  BY <1>1, PrefixStep DEF Prefix
<1> QED BY <1>7, <1>8 DEF Counts, k

\* slot_for_epoch: the start of the epoch a slot is in.
LEMMA StartIs ==
  ASSUME NEW slot \in Nat
  PROVE  Start(slot) \in Nat /\ Start(slot) <= slot /\ slot < Start(slot) + EpochLength
<1>1. EpochLength \in Nat /\ EpochLength > 0
  BY FeedsAssumption
<1> DEFINE e == EpochLength
<1> HIDE DEF e
<1>2. e \in Nat /\ e > 0
  BY <1>1 DEF e
<1>3. (slot \div e) \in Nat /\ (slot \div e) * e <= slot /\ slot < (slot \div e) * e + e
  BY <1>2
<1>4. (slot \div e) * e \in Nat
  BY <1>2, <1>3
<1> QED BY <1>3, <1>4 DEF Start, e

\* A block below the prune boundary of another is from an epoch before its.
LEMMA BelowIsEarlier ==
  ASSUME NEW slot \in Nat, NEW high \in Nat, slot < Boundary(high)
  PROVE  slot < Start(high)
<1>1. Boundary(high) = IF 0 > high - Window THEN 0 ELSE high - Window
  <2>1. Window \in Nat
    BY FeedsAssumption
  <2> QED BY <2>1, GreaterIs DEF Boundary
<1>2. Window \in Nat /\ EpochLength \in Nat /\ EpochLength <= Window
  BY FeedsAssumption
<1>3. Start(high) \in Nat /\ high < Start(high) + EpochLength
  BY StartIs
<1> QED BY <1>1, <1>2, <1>3

LEMMA EpochBlocksFollow == IndexInv => EpochBlocksWhenReached
<1> SUFFICES ASSUME IndexInv, aligned, NEW s \in Subjects
             PROVE  /\ ShownEpochBlocks(s) <= MintedThisEpoch(s)
                    /\ (/\ chain[reach.since].slot < Start(Last(chain).slot)
                        /\ Start(reach.high) = Start(Last(chain).slot))
                         => ShownEpochBlocks(s) = MintedThisEpoch(s)
  BY DEF EpochBlocksWhenReached
<1> DEFINE a == reach.from
           N == Len(chain)
           first == Start(Last(chain).slot)
           refs == index.refs["minted"][s]
           shown == MintedBy(chain, a, N, s, first)
           minted == {i \in DOMAIN chain : /\ s \in Marks[chain[i].hash]["minted"]
                                           /\ chain[i].slot >= first}
<1>1. /\ IsChain(chain) /\ chain # <<>> /\ IsRefs(index, chain, a) /\ BackTo(reach, chain)
      /\ reach \in [since : Nat, from : Nat, high : Nat] /\ a \in Nat /\ a <= N
      /\ oldest \in 1..N /\ reach.since \in 1..oldest
  BY DEF IndexInv, Holds, IsReach
<1>2. /\ N \in Nat /\ DOMAIN chain = 1..N /\ \A i \in 1..N : chain[i].slot \in Nat
      /\ a \in 0..N /\ "minted" \in Kinds
  BY <1>1, ChainIs, SubjectAssumption
<1>3. first \in Nat
  <2>1. N \in 1..N
    BY <1>1, <1>2
  <2>2. Last(chain).slot \in Nat
    BY <1>2, <2>1 DEF Last
  <2> QED BY <2>2, StartIs
<1>4. refs = From(RefsOf(chain, "minted", s), a) /\ refs \in Seq(BlockRef)
  <2>1. refs = From(RefsOf(chain, "minted", s), a)
    BY <1>1, <1>2 DEF IsRefs
  <2>2. RefsOf(chain, "minted", s) \in Seq(Seq(BlockRef))
    BY <1>1, <1>2, RefsDated DEF IsDated
  <2>3. From(RefsOf(chain, "minted", s), a) \in Seq(BlockRef)
    BY <1>1, <2>2, FromElements
  <2> QED BY <2>1, <2>3
<1> HIDE DEF refs, a, N, first
<1>5. ShownEpochBlocks(s) = Len(Sift(refs, Recent(first)))
  <2> DEFINE named == {ref \in ToSet(refs) : ref.slot >= first}
  <2>1. \A i \in 1..Len(refs) : refs[i] \in named <=> refs[i] \in Recent(first)
    <3>1. DOMAIN refs = 1..Len(refs)
      BY <1>4, LenNat
    <3>2. ASSUME NEW i \in DOMAIN refs PROVE refs[i] \in named <=> refs[i] \in Recent(first)
      <4>1. refs[i] \in BlockRef /\ refs[i] \in ToSet(refs)
        BY <1>4, ElementIn DEF ToSet
      <4> QED BY <4>1 DEF Recent
    <3> QED BY <3>1, <3>2
  <2>2. ShownEpochBlocks(s) = Len(Sift(refs, named))
    BY DEF ShownEpochBlocks, EpochBlocks, refs, first
  <2> DEFINE keep == Recent(first)
  <2>3. \A i \in 1..Len(refs) : refs[i] \in named <=> refs[i] \in keep
    BY <2>1
  <2> HIDE DEF named, keep
  <2>4. Sift(refs, named) = Sift(refs, keep)
    BY <1>4, <2>3, SiftAgrees
  <2> QED BY <2>2, <2>4 DEF keep
<1>6. Len(Sift(refs, Recent(first))) = Cardinality(shown)
  <2>1. Len(Sift(From(RefsOf(chain, "minted", s), a), Recent(first)))
          = Cardinality(MintedBy(chain, a, N, s, first))
    BY <1>1, <1>2, <1>3, EpochCount DEF N
  <2> QED BY <1>4, <2>1
<1>7. shown \subseteq minted /\ IsFiniteSet(minted)
  <2>1. shown \subseteq minted
    <3>1. (a + 1)..N \subseteq 1..N
      BY <1>1, <1>2
    <3> QED BY <1>2, <3>1 DEF MintedBy
  <2>2. IsFiniteSet(1..N)
    BY <1>2, FS_Interval
  <2>3. minted \subseteq 1..N
    BY <1>2
  <2> HIDE DEF minted
  <2> QED BY <2>1, <2>2, <2>3, FS_Subset
<1>8. MintedThisEpoch(s) = Cardinality(minted)
  BY DEF MintedThisEpoch, first
<1>9. Cardinality(shown) <= Cardinality(minted)
  <2> HIDE DEF shown, minted
  <2> QED BY <1>7, FS_Subset
<1>10. ASSUME chain[reach.since].slot < first, Start(reach.high) = first
       PROVE  shown = minted
  <2>1. ASSUME NEW i \in minted PROVE i \in shown
    <3>1. i \in 1..N /\ chain[i].slot >= first /\ chain[i].slot \in Nat
      BY <1>2
    <3>2. CASE i > a
      <4>1. i \in (a + 1)..N
        BY <1>1, <1>2, <3>1, <3>2
      <4> QED BY <2>1, <4>1 DEF MintedBy
    <3>3. CASE ~(i > a)
      <4>1. i <= reach.since \/ chain[i].slot < Boundary(reach.high)
        BY <1>1, <3>1, <3>3 DEF BackTo, a, N
      <4>2. CASE i <= reach.since
        <5>1. reach.since \in 1..N /\ chain[reach.since].slot \in Nat
          BY <1>1, <1>2
        <5>2. i = reach.since \/ chain[i].slot < chain[reach.since].slot
          <6>1. i < reach.since => chain[i].slot < chain[reach.since].slot
            BY <1>1, <3>1, <5>1 DEF IsChain, N
          <6> QED BY <3>1, <4>2, <5>1, <6>1
        <5> QED BY <1>3, <1>10, <3>1, <5>1, <5>2
      <4>3. CASE chain[i].slot < Boundary(reach.high)
        <5>1. reach.high \in Nat
          BY <1>1
        <5>2. chain[i].slot < Start(reach.high)
          BY <3>1, <4>3, <5>1, BelowIsEarlier
        <5> QED BY <1>3, <1>10, <3>1, <5>2
      <4> QED BY <4>1, <4>2, <4>3
    <3> QED BY <3>2, <3>3
  <2> QED BY <1>7, <2>1
<1> HIDE DEF shown, minted
<1>11. ShownEpochBlocks(s) <= MintedThisEpoch(s)
  BY <1>5, <1>6, <1>8, <1>9
<1>12. (/\ chain[reach.since].slot < first /\ Start(reach.high) = first)
         => ShownEpochBlocks(s) = MintedThisEpoch(s)
  BY <1>5, <1>6, <1>8, <1>10
<1> QED BY <1>11, <1>12 DEF first

\* The block count of a pool's header is never too high, and exact when the index
\* reaches back to the start of the epoch.
THEOREM EpochBlocksAreRight == Spec => []EpochBlocksWhenReached
BY IndexInvariance, EpochBlocksFollow, PTL

-----------------------------------------------------------------------------
(* The first page of a pool's feed *)

LEMMA SlotsAre == \A list : Slots(list) = {e.slot : e \in ToSet(list)}
BY DEF Slots, ToSet

LEMMA SiftChain ==
  ASSUME NEW c, IsChain(c), NEW keep
  PROVE  IsChain(Sift(c, keep)) /\ ToSet(Sift(c, keep)) = ToSet(c) \cap keep
<1> DEFINE Ok(w) == IsChain(w) => IsChain(Sift(w, keep))
           W == {w \in Seq(Block) : Ok(w)}
<1>1. c \in Seq(Block)
  BY ChainIs
<1>2. \A w \in Seq(Block) : /\ Sift(w, keep) \in Seq(Block)
                            /\ ToSet(Sift(w, keep)) = ToSet(w) \cap keep
  <2> SUFFICES ASSUME NEW w \in Seq(Block)
               PROVE  Sift(w, keep) \in Seq(Block) /\ ToSet(Sift(w, keep)) = ToSet(w) \cap keep
    OBVIOUS
  <2>1. Sift(w, keep) \in Seq(Block \cap keep)
    BY SiftIn
  <2>2. ToSet(Sift(w, keep)) = ToSet(w) \cap keep
    BY SiftElements DEF ToSet
  <2> DEFINE t == Sift(w, keep)
  <2> HIDE DEF t
  <2>3. t \in Seq(Block)
    BY <2>1 DEF t
  <2> QED BY <2>2, <2>3 DEF t
<1>3. <<>> \in W
  BY SiftEmpty
<1>4. ASSUME NEW w \in Seq(Block), NEW x \in Block, w \in W PROVE Append(w, x) \in W
  <2> DEFINE more == Append(w, x)
             n == Len(w)
  <2>1. /\ more \in Seq(Block) /\ Len(more) = n + 1 /\ more[n + 1] = x /\ n \in Nat
        /\ \A i \in 1..n : more[i] = w[i]
    BY AppendIs, LenNat
  <2>2. ASSUME IsChain(more) PROVE IsChain(Sift(more, keep))
    <3> HIDE DEF more, n
    <3>1. \A i, j \in 1..(n + 1) : i < j => more[i].slot < more[j].slot
      BY <2>1, <2>2 DEF IsChain
    <3>2. \A i \in 1..n : i \in 1..(n + 1) /\ n + 1 \in 1..(n + 1) /\ i < n + 1
      BY <2>1
    <3>3. \A i \in 1..n : w[i].slot < x.slot
      BY <2>1, <3>1, <3>2
    <3>4. IsChain(w)
      <4>1. \A i, j \in 1..n : i < j => w[i].slot < w[j].slot
        BY <2>1, <3>1, <3>2
      <4> QED BY <4>1 DEF IsChain, n
    <3> DEFINE t == Sift(w, keep)
    <3>5. /\ IsChain(t) /\ t \in Seq(Block) /\ Len(t) \in Nat
          /\ \A i \in 1..Len(t) : t[i].slot < x.slot
      <4>1. IsChain(t)
        BY <1>4, <3>4
      <4>2. t \in Seq(Block) /\ ToSet(t) \subseteq ToSet(w)
        BY <1>2
      <4> HIDE DEF t
      <4>3. DOMAIN t = 1..Len(t) /\ Len(t) \in Nat /\ DOMAIN w = 1..n
        BY <4>2, LenNat DEF n
      <4>4. \A e \in ToSet(w) : e.slot < x.slot
        BY <3>3, <4>3 DEF ToSet
      <4>5. \A i \in 1..Len(t) : t[i] \in ToSet(t)
        BY <4>3 DEF ToSet
      <4> QED BY <4>1, <4>2, <4>3, <4>4, <4>5
    <3>6. Sift(more, keep) = IF x \in keep THEN Append(t, x) ELSE t
      BY SiftAppend DEF more
    <3> HIDE DEF t
    <3>7. IsChain(Append(t, x))
      <4> DEFINE v == Append(t, x)
                 l == Len(t)
      <4>1. /\ v \in Seq(Block) /\ Len(v) = l + 1 /\ v[l + 1] = x
            /\ \A i \in 1..l : v[i] = t[i]
        BY <3>5, AppendIs
      <4> HIDE DEF v, l
      <4>2. ASSUME NEW i \in 1..(l + 1), NEW j \in 1..(l + 1), i < j
            PROVE  v[i].slot < v[j].slot
        <5>1. l \in Nat
          BY <3>5 DEF l
        <5>2. i \in 1..l /\ (j \in 1..l \/ j = l + 1)
          BY <4>2, <5>1
        <5>3. CASE j \in 1..l
          BY <3>5, <4>1, <4>2, <5>2, <5>3 DEF IsChain, l
        <5>4. CASE j = l + 1
          BY <3>5, <4>1, <5>2, <5>4 DEF l
        <5> QED BY <5>2, <5>3, <5>4
      <4> QED BY <4>1, <4>2 DEF IsChain, v
    <3> QED BY <3>5, <3>6, <3>7
  <2> HIDE DEF more
  <2>3. Ok(more)
    BY <2>2
  <2> HIDE DEF Ok
  <2> QED BY <2>1, <2>3 DEF more
<1> HIDE DEF W
<1>5. \A w \in Seq(Block) : w \in W
  BY <1>3, <1>4, BuiltUp
<1>6. Ok(c)
  BY <1>1, <1>5 DEF W
<1> QED BY <1>1, <1>2, <1>6

\* A set holds the elements of a list's end, and nothing else.
IsEndOf(list, part) ==
  \E a \in Nat : part = {list[j] : j \in (a + 1)..Len(list)}

\* The newest of a list are what follows some place in it.
LEMMA NewestPart ==
  ASSUME NEW S, NEW list \in Seq(S), NEW k \in Nat \ {0}
  PROVE  /\ IsEndOf(list, ToSet(Newest(k, list)))
         /\ ToSet(Newest(k, list)) \subseteq ToSet(list)
<1> DEFINE n == Len(list)
           m == Max({1, n - k + 1})
           t == Newest(k, list)
<1>1. n \in Nat /\ DOMAIN list = 1..n
  BY LenNat
<1>2. PICK a \in Nat : m = a + 1
  <2> DEFINE x == n - k + 1
  <2>1. x \in Int
    BY <1>1
  <2> HIDE DEF x
  <2>2. Max({1, x}) = IF 1 > x THEN 1 ELSE x
    BY <2>1, GreaterIs
  <2>3. m \in Int /\ m >= 1
    BY <2>1, <2>2 DEF x
  <2> HIDE DEF m
  <2>4. m - 1 \in Nat /\ m = (m - 1) + 1
    BY <2>3
  <2> QED BY <2>4
<1>3. /\ t \in Seq(S) /\ Len(t) = (IF a < n THEN n - a ELSE 0)
      /\ \A i \in 1..Len(t) : t[i] = list[a + i]
  <2>1. t = SubSeq(list, a + 1, n)
    BY <1>2 DEF Newest
  <2>2. n \in 0..Len(list)
    BY <1>1
  <2> HIDE DEF t
  <2> QED BY <1>1, <2>1, <2>2, SliceIs
<1> HIDE DEF t, m, n
<1>4. DOMAIN t = 1..Len(t) /\ Len(t) \in Nat
  BY <1>3, LenNat
<1>5. ASSUME NEW y \in ToSet(t) PROVE \E j \in (a + 1)..n : y = list[j]
  <2>1. PICK i \in 1..Len(t) : y = t[i]
    BY <1>4 DEF ToSet
  <2>2. a + i \in (a + 1)..n
    BY <1>1, <1>3, <1>4, <2>1
  <2> QED BY <1>3, <2>1, <2>2
<1>6. ASSUME NEW j \in (a + 1)..n PROVE list[j] \in ToSet(t)
  <2>1. j - a \in 1..Len(t) /\ a + (j - a) = j
    BY <1>1, <1>3
  <2>2. list[j] = t[j - a]
    BY <1>3, <2>1
  <2> QED BY <1>4, <2>1, <2>2 DEF ToSet
<1>7. ToSet(t) \subseteq ToSet(list)
  <2>1. \A j \in (a + 1)..n : j \in DOMAIN list
    BY <1>1
  <2> QED BY <1>5, <2>1 DEF ToSet
<1>8. ToSet(t) = {list[j] : j \in (a + 1)..n}
  BY <1>5, <1>6
<1>9. IsEndOf(list, ToSet(t))
  BY <1>8 DEF IsEndOf, n
<1> QED BY <1>7, <1>9 DEF t

\* A block of a chain that is later than one of the newest is one of them.
LEMMA NewestIs ==
  ASSUME NEW list, IsChain(list), NEW k \in Nat \ {0},
         NEW x \in ToSet(list), NEW y \in ToSet(Newest(k, list)), y.slot < x.slot
  PROVE  x \in ToSet(Newest(k, list))
<1> DEFINE n == Len(list)
           t == Newest(k, list)
<1>1. /\ list \in Seq(Block) /\ n \in Nat /\ DOMAIN list = 1..n
      /\ \A i \in 1..n : list[i].slot \in Nat
  BY ChainIs
<1>2. IsEndOf(list, ToSet(t))
  BY <1>1, NewestPart
<1> HIDE DEF t
<1>3. PICK a \in Nat : ToSet(t) = {list[j] : j \in (a + 1)..n}
  BY <1>2 DEF IsEndOf
<1> HIDE DEF n
<1>4. PICK i \in 1..n : x = list[i]
  BY <1>1 DEF ToSet
<1>5. PICK j \in (a + 1)..n : y = list[j]
  BY <1>3 DEF t
<1>6. j \in 1..n
  BY <1>1, <1>5
<1>7. ~(i < j) /\ i # j
  <2>1. i < j => list[i].slot < list[j].slot
    BY <1>4, <1>6 DEF IsChain, n
  <2>2. list[i].slot \in Nat /\ list[j].slot \in Nat
    BY <1>1, <1>4, <1>6
  <2> QED BY <1>4, <1>5, <2>1, <2>2
<1>8. i \in (a + 1)..n
  BY <1>1, <1>4, <1>5, <1>7
<1> QED BY <1>3, <1>4, <1>8 DEF t

\* The slots of the references kept, and that the log's entries are of blocks
\* the index reaches back to.
LEMMA RefSlots ==
  ASSUME NEW c, IsChain(c), NEW k \in Kinds, NEW s \in Subjects, NEW a \in Nat
  PROVE  /\ \A x \in Slots(From(RefsOf(c, k, s), a)) :
              \E j \in (a + 1)..Len(c) : x = c[j].slot
         /\ \A j \in (a + 1)..Len(c) : s \in Marks[c[j].hash][k] =>
              c[j].slot \in Slots(From(RefsOf(c, k, s), a))
<1> DEFINE lists == RefsOf(c, k, s)
           list == From(lists, a)
<1>1. /\ IsDated(lists, c, BlockRef) /\ Len(c) \in Nat /\ DOMAIN c = 1..Len(c)
  BY RefsDated, ChainIs
<1>2. lists \in Seq(Seq(BlockRef)) /\ Len(lists) = Len(c)
  BY <1>1 DEF IsDated
<1>3. ASSUME NEW j \in 1..Len(c), s \in Marks[c[j].hash][k] PROVE c[j] \in ToSet(lists[j])
  <2>1. lists[j] = <<c[j]>>
    BY <1>1, <1>3 DEF RefsOf
  <2> HIDE DEF lists
  <2>2. <<c[j]>>[1] = c[j] /\ 1 \in DOMAIN <<c[j]>>
    OBVIOUS
  <2> QED BY <2>1, <2>2 DEF ToSet
<1> HIDE DEF lists
<1>4. /\ \A e \in ToSet(list) : \E j \in (a + 1)..Len(lists) : e \in ToSet(lists[j])
      /\ \A j \in (a + 1)..Len(lists) : ToSet(lists[j]) \subseteq ToSet(list)
  BY <1>2, FromElements
<1> HIDE DEF list
<1>5. \A j \in (a + 1)..Len(c) : j \in 1..Len(c)
  BY <1>1
<1>6. Slots(list) = {e.slot : e \in ToSet(list)}
  BY SlotsAre
<1>7. ASSUME NEW x \in Slots(list) PROVE \E j \in (a + 1)..Len(c) : x = c[j].slot
  <2>1. PICK e \in ToSet(list) : x = e.slot
    BY <1>6
  <2>2. PICK j \in (a + 1)..Len(c) : e \in ToSet(lists[j])
    BY <1>2, <1>4
  <2>3. e.slot = c[j].slot
    BY <1>1, <1>5, <2>2 DEF IsDated
  <2> QED BY <2>1, <2>3
<1>8. ASSUME NEW j \in (a + 1)..Len(c), s \in Marks[c[j].hash][k] PROVE c[j].slot \in Slots(list)
  <2>1. c[j] \in ToSet(list)
    BY <1>2, <1>3, <1>4, <1>5, <1>8
  <2> QED BY <1>6, <2>1
<1> QED BY <1>7, <1>8 DEF list, lists

LEMMA EntrySlots ==
  ASSUME NEW c, IsChain(c), NEW r \in Roles, NEW s \in Subjects, NEW a \in Nat,
         NEW log \in GoodLogs, log.events = From(EventsOf(c, r), a)
  PROVE  \A x \in Slots(EntriesOf(log, s)) : \E j \in (a + 1)..Len(c) : x = c[j].slot
<1> DEFINE lists == EventsOf(c, r)
           at == log.at[s]
<1>1. IsDated(lists, c, Entry) /\ Len(c) \in Nat
  BY EventsDated, ChainIs
<1>2. lists \in Seq(Seq(Entry)) /\ Len(lists) = Len(c)
  BY <1>1 DEF IsDated
<1>3. PointTo(at, log.events, s)
  BY DEF GoodLogs, IsPositioned
<1> SUFFICES ASSUME NEW x \in Slots(EntriesOf(log, s))
             PROVE  \E j \in (a + 1)..Len(c) : x = c[j].slot
  OBVIOUS
<1>4. PICK i \in DOMAIN at : x = log.events[at[i]].slot
  BY DEF Slots, EntriesOf
<1>5. at[i] \in DOMAIN log.events
  <2>1. at[i] \in ToSet(at)
    BY DEF ToSet
  <2> QED BY <1>3, <2>1 DEF PointTo
<1>6. log.events[at[i]] \in ToSet(log.events)
  BY <1>5 DEF ToSet
<1> HIDE DEF lists, at
<1>7. \A e \in ToSet(From(lists, a)) : \E j \in (a + 1)..Len(lists) : e \in ToSet(lists[j])
  BY <1>2, FromElements
<1>8. PICK j \in (a + 1)..Len(c) : log.events[at[i]] \in ToSet(lists[j])
  BY <1>2, <1>6, <1>7 DEF lists
<1>9. j \in 1..Len(c)
  BY <1>1
<1>10. log.events[at[i]].slot = c[j].slot
  BY <1>1, <1>8, <1>9 DEF IsDated
<1> QED BY <1>4, <1>10

\* db-sync's blocks are of its chain.
LEMMA GainsIn ==
  ASSUME NEW c, IsChain(c), NEW r \in Roles, NEW s
  PROVE  ToSet(DbGains(c, r, s)) \subseteq ToSet(c) /\ DbGains(c, r, s) \in Seq(Block)
<1> DEFINE gains(i) == Sift(Certs[c[i].hash][r], [cred : Creds, to : {s}])
           lists == [i \in DOMAIN c |-> [j \in DOMAIN gains(i) |-> c[i]]]
<1>1. /\ c \in Seq(Block) /\ Len(c) \in Nat /\ DOMAIN c = 1..Len(c)
      /\ \A i \in 1..Len(c) : c[i] \in Block /\ c[i].hash \in Hashes
  BY ChainIs
<1>2. ASSUME NEW i \in 1..Len(c)
      PROVE  lists[i] \in Seq(Block) /\ \A e \in ToSet(lists[i]) : e = c[i]
  <2>1. Certs[c[i].hash][r] \in Seq(Cert)
    <3>1. Certs \in [Hashes -> [Roles -> Seq(Cert)]]
      BY FeedsAssumption
    <3>2. c[i].hash \in Hashes
      BY <1>1
    <3> QED BY <3>1, <3>2
  <2>2. gains(i) \in Seq(Cert \cap [cred : Creds, to : {s}])
    BY <2>1, SiftIn
  <2>3. DOMAIN gains(i) = 1..Len(gains(i)) /\ Len(gains(i)) \in Nat
    BY <2>2, LenNat
  <2>4. lists[i] = [j \in DOMAIN gains(i) |-> c[i]]
    BY <1>1
  <2> DEFINE n == Len(gains(i))
  <2> HIDE DEF gains, lists
  <2>5. lists[i] = [j \in 1..n |-> c[i]] /\ n \in Nat /\ c[i] \in Block
    BY <1>1, <2>3, <2>4
  <2> HIDE DEF n
  <2> QED BY <2>5 DEF ToSet
<1>3. lists = [i \in 1..Len(c) |-> lists[i]]
  BY <1>1
<1>4. DbGains(c, r, s) = FlattenSeq(lists)
  BY DEF DbGains
<1> HIDE DEF lists
<1>5. lists \in Seq(Seq(Block)) /\ DOMAIN lists = 1..Len(c)
  BY <1>1, <1>2, <1>3
<1>6. ToSet(FlattenSeq(lists)) = UNION {ToSet(x) : x \in ToSet(lists)} /\ FlattenSeq(lists) \in Seq(Block)
  BY <1>5, FlattenElements, FlattenIn
<1>7. ASSUME NEW e \in ToSet(FlattenSeq(lists)) PROVE e \in ToSet(c)
  <2>1. PICK x \in ToSet(lists) : e \in ToSet(x)
    BY <1>6
  <2>2. PICK i \in 1..Len(c) : x = lists[i]
    BY <1>5 DEF ToSet
  <2>3. e = c[i]
    BY <1>2, <2>1, <2>2
  <2> QED BY <1>1, <2>3 DEF ToSet
<1> QED BY <1>4, <1>6, <1>7

LEMMA FirstPageFollows == IndexInv => FirstPageHasNoGap
<1> SUFFICES ASSUME IndexInv, aligned, NEW s \in Subjects, NEW r \in Roles, NEW n \in Reached
             PROVE  LET page == FirstPage(s, r, Prefix(chain, n))
                        minted == Slots(DbRefs(chain, "minted", s))
                    IN  /\ page.whole \cup page.others \subseteq Slots(chain)
                        /\ \A slot \in minted :
                             (\E shown \in page.whole : shown < slot) => slot \in page.whole
  BY DEF FirstPageHasNoGap
<1> DEFINE a == reach.from
           N == Len(chain)
           c == Prefix(chain, n)
           entries == EntriesOf(index.logs[r], s)
           sure == Len(index.refs["minted"][s]) + Len(entries) + Len(index.refs["votes"][s])
           db(list) == IF sure < MaxReplay THEN Slots(Newest(MaxReplay, list)) ELSE {}
           minted == Slots(index.refs["minted"][s])
           others == Slots(index.refs["changes"][s]) \cup Slots(entries)
                       \cup Slots(index.refs["votes"][s])
           mints == DbRefs(c, "minted", s)
           votes == DbRefs(c, "votes", s)
           gains == DbGains(c, r, s)
           whole == minted \cup (db(mints) \ others)
           rest == (others \cup db(votes) \cup db(gains)) \ whole
<1>1. FirstPage(s, r, c) = [whole |-> whole, others |-> rest]
  BY DEF FirstPage, Fill
<1>2. /\ IsChain(chain) /\ IsRefs(index, chain, a) /\ IsLogs(index, chain, a)
      /\ a \in Nat /\ a <= N
  BY DEF IndexInv, Holds, IsReach
<1>3. /\ N \in Nat /\ DOMAIN chain = 1..N /\ \A j \in 1..N : chain[j].slot \in Nat
      /\ chain \in Seq(Block)
  BY <1>2, ChainIs
<1>4. n \in 0..N /\ n \in Nat /\ n > a
  BY <1>2, <1>3 DEF Reached
<1>5. IsChain(c) /\ Len(c) = n /\ \A j \in 1..n : c[j] = chain[j]
  BY <1>2, <1>4, PrefixIs
<1>6. DOMAIN c = 1..n /\ c \in Seq(Block)
  BY <1>5, ChainIs
<1>7. {"minted", "changes", "votes"} \subseteq Kinds /\ MaxReplay \in Nat \ {0}
  BY SubjectAssumption, FeedsAssumption
<1> HIDE DEF a, c, N
<1>8. ToSet(c) \subseteq ToSet(chain)
  <2>1. \A j \in 1..n : j \in 1..N
    BY <1>3, <1>4
  <2> QED BY <1>3, <1>5, <1>6, <2>1 DEF ToSet
<1>9. \A list : Slots(list) = {e.slot : e \in ToSet(list)}
  BY SlotsAre
<1>10. ASSUME NEW k \in Kinds
       PROVE  /\ IsChain(DbRefs(c, k, s))
              /\ \A e \in ToSet(DbRefs(c, k, s)) : e \in ToSet(c)
              /\ \A e \in ToSet(c) : s \in Marks[e.hash][k] => e \in ToSet(DbRefs(c, k, s))
  <2> DEFINE keep == {b \in ToSet(c) : s \in Marks[b.hash][k]}
  <2>1. keep \subseteq ToSet(c) /\ \A e \in ToSet(c) : s \in Marks[e.hash][k] => e \in keep
    OBVIOUS
  <2>2. DbRefs(c, k, s) = Sift(c, keep)
    BY DEF DbRefs
  <2> HIDE DEF keep
  <2>3. IsChain(Sift(c, keep)) /\ ToSet(Sift(c, keep)) = ToSet(c) \cap keep
    BY <1>5, SiftChain
  <2> QED BY <2>1, <2>2, <2>3
<1>11. ASSUME NEW k \in Kinds
       PROVE  /\ \A x \in Slots(index.refs[k][s]) : \E j \in (a + 1)..N : x = chain[j].slot
              /\ \A j \in (a + 1)..N : s \in Marks[chain[j].hash][k] =>
                   chain[j].slot \in Slots(index.refs[k][s])
  <2>1. index.refs[k][s] = From(RefsOf(chain, k, s), a)
    BY <1>2 DEF IsRefs
  <2> QED BY <1>2, <2>1, RefSlots DEF N
<1>12. \A x \in Slots(entries) : \E j \in (a + 1)..N : x = chain[j].slot
  <2>1. index.logs[r] \in GoodLogs /\ index.logs[r].events = From(EventsOf(chain, r), a)
    BY <1>2 DEF IsLogs
  <2> QED BY <1>2, <2>1, EntrySlots DEF N
<1>13. \A x \in minted \cup others : \E j \in (a + 1)..N : x = chain[j].slot
  <2> HIDE DEF entries
  <2>1. "minted" \in Kinds /\ "changes" \in Kinds /\ "votes" \in Kinds
    BY <1>7
  <2> QED BY <1>11, <1>12, <2>1
<1>14. \A j \in (a + 1)..N : j \in 1..N
  BY <1>2, <1>3
<1>15. ASSUME NEW list, NEW S, list \in Seq(S), ToSet(list) \subseteq ToSet(chain)
       PROVE  db(list) \subseteq Slots(chain)
  <2> HIDE DEF sure
  <2>1. ToSet(Newest(MaxReplay, list)) \subseteq ToSet(list)
    BY <1>7, <1>15, NewestPart
  <2> QED BY <1>9, <1>15, <2>1
<1>16. whole \cup rest \subseteq Slots(chain)
  <2>1. "minted" \in Kinds /\ "votes" \in Kinds
    BY <1>7
  <2>2. /\ mints \in Seq(Block) /\ ToSet(mints) \subseteq ToSet(chain)
        /\ votes \in Seq(Block) /\ ToSet(votes) \subseteq ToSet(chain)
    <3>1. IsChain(mints) /\ IsChain(votes)
      BY <1>10, <2>1
    <3>2. ToSet(mints) \subseteq ToSet(c) /\ ToSet(votes) \subseteq ToSet(c)
      BY <1>10, <2>1
    <3> HIDE DEF mints, votes
    <3> QED BY <1>8, <3>1, <3>2 DEF IsChain
  <2>3. gains \in Seq(Block) /\ ToSet(gains) \subseteq ToSet(chain)
    BY <1>5, <1>8, GainsIn
  <2>4. minted \cup others \subseteq Slots(chain)
    <3>1. \A j \in (a + 1)..N : chain[j].slot \in Slots(chain)
      BY <1>3, <1>14 DEF Slots
    <3> HIDE DEF minted, others
    <3> QED BY <1>13, <3>1
  <2> HIDE DEF mints, votes, gains, minted, others, sure
  <2>5. db(mints) \subseteq Slots(chain) /\ db(votes) \subseteq Slots(chain) /\ db(gains) \subseteq Slots(chain)
    BY <1>15, <2>2, <2>3
  <2> HIDE DEF db
  <2> QED BY <2>4, <2>5
<1>17. ASSUME NEW slot \in Slots(DbRefs(chain, "minted", s)), NEW shown \in whole, shown < slot
       PROVE  slot \in whole
  <2>1. PICK j \in 1..N : slot = chain[j].slot /\ s \in Marks[chain[j].hash]["minted"]
    <3> DEFINE keep == {b \in ToSet(chain) : s \in Marks[b.hash]["minted"]}
    <3>1. DbRefs(chain, "minted", s) = Sift(chain, keep)
      BY DEF DbRefs
    <3> HIDE DEF keep
    <3>2. ToSet(DbRefs(chain, "minted", s)) \subseteq keep
      BY <1>2, <3>1, SiftChain
    <3>3. PICK e \in keep : slot = e.slot
      BY <1>9, <3>2
    <3> QED BY <1>3, <3>3 DEF keep, ToSet
  <2>2. CASE j > a
    <3>1. j \in (a + 1)..N
      BY <1>2, <1>3, <2>1, <2>2
    <3>2. slot \in minted
      BY <1>7, <1>11, <2>1, <3>1
    <3> HIDE DEF minted, others, mints
    <3> QED BY <3>2
  <2>3. CASE ~(j > a)
    <3>1. \A m \in (a + 1)..N : chain[j].slot < chain[m].slot /\ chain[m].slot \in Nat
      <4>1. ASSUME NEW m \in (a + 1)..N PROVE j < m /\ m \in 1..N
        BY <1>2, <1>3, <2>1, <2>3
      <4> QED BY <1>2, <1>3, <2>1, <4>1 DEF IsChain, N
    <3>2. slot \in Nat
      BY <1>3, <2>1
    <3> HIDE DEF others, minted, mints, sure
    <3>3. \A x \in minted \cup others : slot < x /\ x \in Nat
      BY <1>13, <2>1, <3>1
    <3>4. shown \in db(mints) /\ slot \notin others
      <4>1. shown \notin minted
        BY <1>17, <3>2, <3>3
      <4>2. slot \notin others
        BY <3>2, <3>3
      <4> HIDE DEF db
      <4> QED BY <1>17, <4>1, <4>2
    <3>5. sure < MaxReplay /\ shown \in Slots(Newest(MaxReplay, mints))
      BY <3>4
    <3>6. PICK y \in ToSet(Newest(MaxReplay, mints)) : shown = y.slot
      BY <1>9, <3>5
    <3>7. IsChain(mints) /\ chain[j] \in ToSet(mints)
      <4>1. j \in 1..n
        BY <1>2, <1>3, <1>4, <2>1, <2>3
      <4>2. c[j] \in ToSet(c) /\ c[j] = chain[j]
        BY <1>5, <1>6, <4>1 DEF ToSet
      <4> QED BY <1>7, <1>10, <2>1, <4>2 DEF mints
    <3>8. chain[j] \in ToSet(Newest(MaxReplay, mints))
      BY <1>7, <1>17, <2>1, <3>6, <3>7, NewestIs
    <3>9. slot \in db(mints)
      BY <1>9, <2>1, <3>5, <3>8
    <3> HIDE DEF db
    <3> QED BY <3>4, <3>9
  <2> QED BY <2>2, <2>3
<1> HIDE DEF whole, rest
<1> QED BY <1>1, <1>16, <1>17 DEF c

\* The first page of a pool's feed lists blocks of the chain only, and leaves out
\* no minted block newer than one it lists.
THEOREM FirstPagesHaveNoGap == Spec => []FirstPageHasNoGap
BY IndexInvariance, FirstPageFollows, PTL
=============================================================================
