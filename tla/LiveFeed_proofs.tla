--------------------------- MODULE LiveFeed_proofs ---------------------------
(***************************************************************************)
(* The safety properties of LiveFeed, for every size of port, bus and      *)
(* channel, every set of pages, and forks, reconnections of the monitor    *)
(* and events of the two producers in any order.                           *)
(*                                                                         *)
(* The bus is behind the node by what the port holds: its blocks are the   *)
(* end of a chain that the port's events lead to the node's.  A page is    *)
(* behind the bus by what its queue holds: having shown that, it would     *)
(* agree with the bus.  Both are kept by one lemma each about an event.    *)
(***************************************************************************)
EXTENDS LiveFeed, SequenceLemmas, SequenceTheorems

-----------------------------------------------------------------------------
(* Chains *)

\* The node's chain: a block's slot is its place.
IsChain(c) == c \in Seq(Block) /\ \A i \in DOMAIN c : c[i].slot = i

\* s is the end of c.
Ends(s, c) ==
  Len(s) <= Len(c) /\ \A i \in 1..Len(s) : s[i] = c[Len(c) - Len(s) + i]

LEMMA EndsIsSuffix ==
  ASSUME NEW s \in Seq(Block), NEW c \in Seq(Block), Ends(s, c)
  PROVE  IsSuffix(s, c)
<1> DEFINE r == Reverse(s)
           q == Reverse(c)
           k == Len(s)
           n == Len(c)
<1>1. k \in Nat /\ n \in Nat /\ k <= n
  BY LenNat DEF Ends
<1>2. /\ \A i \in 1..k : s[i] \in Block
      /\ \A i \in 1..n : c[i] \in Block
  OBVIOUS
<1>3. r \in Seq(Block) /\ Len(r) = k /\ \A i \in 1..k : r[i] = s[k - i + 1]
  <2>1. \A i \in 1..k : s[(k - i) + 1] \in Block
    BY <1>1, <1>2
  <2> QED BY <1>1, <2>1 DEF Reverse
<1>4. q \in Seq(Block) /\ Len(q) = n /\ \A i \in 1..n : q[i] = c[n - i + 1]
  <2>1. \A i \in 1..n : c[(n - i) + 1] \in Block
    BY <1>1, <1>2
  <2> QED BY <1>1, <2>1 DEF Reverse
<1>5. ASSUME NEW i \in 1..k PROVE r[i] = q[i]
  <2>1. k - i + 1 \in 1..k /\ i \in 1..n
    BY <1>1
  <2>2. s[k - i + 1] = c[n - k + (k - i + 1)]
    BY <2>1 DEF Ends
  <2>3. n - k + (k - i + 1) = n - i + 1
    BY <1>1
  <2> QED BY <1>3, <1>4, <2>1, <2>2, <2>3
<1> HIDE DEF r, q
<1>6. SubSeq(r, 1, k) = r
  BY <1>3, SubSeqFull
<1>7. SubSeq(q, 1, k) \in Seq(Block) /\ Len(SubSeq(q, 1, k)) = k
      /\ \A i \in 1..k : SubSeq(q, 1, k)[i] = q[i]
  <2>1. 1..k \subseteq 1..n
    BY <1>1
  <2> QED BY <1>1, <1>4, <2>1
<1>8. r = SubSeq(q, 1, k)
  BY <1>3, <1>5, <1>7, SeqEqual
<1> QED BY <1>1, <1>3, <1>4, <1>6, <1>8 DEF IsSuffix, IsPrefix, r, q

\* What the node's next event e makes of a chain c.
Follows(c, e, d) ==
  \/ e.kind = "Block" /\ e.block.slot = Len(c) + 1 /\ d = Append(c, e.block)
  \/ e.kind = "Rollback" /\ e.slot < Len(c) /\ d = SubSeq(c, 1, e.slot)

\* The parts of an event.
LEMMA EventIs ==
  ASSUME NEW e \in Event
  PROVE  /\ e.kind \in {"MempoolTx", "Block", "Rollback", "MempoolPrune"}
         /\ e.kind = "MempoolTx" => e.tx \in Txs
         /\ e.kind = "Block" => e.block \in Block
         /\ e.kind = "Rollback" => e.slot \in Nat
         /\ e.kind = "MempoolPrune" => e.removed \in SUBSET Txs
BY DEF Event

LEMMA FollowsIsChain ==
  ASSUME NEW c, IsChain(c), NEW e \in Event, NEW d, Follows(c, e, d)
  PROVE  IsChain(d)
<1>1. c \in Seq(Block) /\ Len(c) \in Nat /\ DOMAIN c = 1..Len(c)
  BY DEF IsChain
<1>2. CASE e.kind = "Block"
  <2>1. e.block \in Block /\ e.block.slot = Len(c) + 1 /\ d = Append(c, e.block)
    BY <1>2, EventIs DEF Follows
  <2>2. /\ d \in Seq(Block) /\ DOMAIN d = 1..(Len(c) + 1)
        /\ d[Len(c) + 1] = e.block /\ \A i \in 1..Len(c) : d[i] = c[i]
    BY <1>1, <2>1
  <2>3. \A i \in 1..(Len(c) + 1) : i \in 1..Len(c) \/ i = Len(c) + 1
    BY <1>1
  <2> QED BY <1>1, <2>1, <2>2, <2>3 DEF IsChain
<1>3. CASE e.kind = "Rollback"
  <2>1. e.slot \in Nat /\ e.slot < Len(c) /\ d = SubSeq(c, 1, e.slot)
    BY <1>3, EventIs DEF Follows
  <2>2. \A i \in 1..e.slot : i \in 1..Len(c) /\ c[i] \in Block
    BY <1>1, <2>1
  <2>3. /\ d \in Seq(Block) /\ DOMAIN d = 1..e.slot
        /\ \A i \in 1..e.slot : d[i] = c[i]
    BY <1>1, <2>1, <2>2
  <2> QED BY <1>1, <2>2, <2>3 DEF IsChain
<1> QED BY <1>2, <1>3 DEF Follows

-----------------------------------------------------------------------------
(* The bus *)

\* What a rollback leaves of the end of a chain is its beginning.
LEMMA RetainIs ==
  ASSUME NEW c, IsChain(c), NEW s \in Seq(Block), Ends(s, c), NEW m \in Nat, m < Len(c)
  PROVE  /\ Retain(s, m) \in Seq(Block) /\ Len(Retain(s, m)) <= Len(s)
         /\ Ends(Retain(s, m), SubSeq(c, 1, m))
         /\ ToSet(Retain(s, m)) = {b \in ToSet(s) : b.slot <= m}
<1> DEFINE n == Len(c)
           l == Len(s)
           keep == {b \in ToSet(s) : b.slot <= m}
           k == IF m >= n - l THEN m - (n - l) ELSE 0
           r == Sift(s, keep)
<1>1. /\ n \in Nat /\ l \in Nat /\ l <= n /\ c \in Seq(Block)
      /\ DOMAIN s = 1..l /\ DOMAIN c = 1..n
  BY LenNat DEF IsChain, Ends
<1>2. k \in 0..l
  BY <1>1
<1>3. ASSUME NEW i \in 1..l PROVE s[i].slot = n - l + i /\ (s[i] \in keep <=> i <= k)
  <2>1. n - l + i \in 1..n
    BY <1>1
  <2>2. s[i].slot = n - l + i
    BY <1>1, <2>1 DEF Ends, IsChain
  <2>3. s[i] \in ToSet(s)
    BY <1>1 DEF ToSet
  <2>4. s[i] \in keep <=> n - l + i <= m
    BY <2>2, <2>3
  <2> QED BY <1>1, <2>2, <2>4
<1> HIDE DEF keep, k
<1>4. r \in Seq(Block) /\ Len(r) = k /\ \A j \in 1..k : r[j] = s[j]
  BY <1>2, <1>3, SiftPrefix
<1>5. Retain(s, m) = r
  BY DEF Retain, keep
<1>6. {r[j] : j \in DOMAIN r} = {s[j] : j \in DOMAIN s} \cap keep
  BY SiftElements
<1>7. ToSet(r) = keep
  BY <1>6 DEF ToSet, keep
<1>8. Ends(r, SubSeq(c, 1, m))
  <2>1. SubSeq(c, 1, m) \in Seq(Block) /\ Len(SubSeq(c, 1, m)) = m
        /\ \A i \in 1..m : SubSeq(c, 1, m)[i] = c[i]
    <3>1. \A i \in 1..m : i \in 1..n /\ c[i] \in Block
      BY <1>1
    <3> QED BY <1>1, <3>1
  <2>2. k <= m
    BY <1>1 DEF k
  <2>3. ASSUME NEW j \in 1..k PROVE r[j] = SubSeq(c, 1, m)[m - k + j]
    <3>1. m - k + j \in 1..m /\ j \in 1..l /\ m - k = n - l
      BY <1>1, <1>2, <2>2 DEF k
    <3>2. s[j] = c[n - l + j]
      BY <3>1 DEF Ends
    <3> QED BY <1>4, <2>1, <3>1, <3>2
  <2> QED BY <1>4, <2>1, <2>2, <2>3 DEF Ends
<1> QED BY <1>1, <1>2, <1>4, <1>5, <1>7, <1>8 DEF keep

\* The next block of a chain is newer than those of its end, which differ in
\* their slots; with it the end is one longer, and then loses its oldest.
LEMMA GrowIs ==
  ASSUME NEW c, IsChain(c), NEW s \in Seq(Block), Ends(s, c), NEW b \in Block,
         b.slot = Len(c) + 1
  PROVE  LET a == Append(s, b)
         IN  /\ a \in Seq(Block) /\ Len(a) = Len(s) + 1
             /\ ToSet(a) = ToSet(s) \cup {b}
             /\ \A x \in ToSet(s) : x.slot < b.slot
             /\ \A i, j \in 1..Len(a) : i < j <=> a[i].slot < a[j].slot
             /\ DropOldest(a) \in Seq(Block)
             /\ Ends(DropOldest(a), Append(c, b))
<1> DEFINE n == Len(c)
           l == Len(s)
           a == Append(s, b)
           d == Append(c, b)
<1>1. /\ n \in Nat /\ l \in Nat /\ l <= n /\ c \in Seq(Block)
      /\ DOMAIN s = 1..l /\ DOMAIN c = 1..n
  BY LenNat DEF IsChain, Ends
<1>2. /\ a \in Seq(Block) /\ Len(a) = l + 1 /\ DOMAIN a = 1..(l + 1)
      /\ a[l + 1] = b /\ \A i \in 1..l : a[i] = s[i]
  BY <1>1
<1>3. /\ d \in Seq(Block) /\ Len(d) = n + 1
      /\ d[n + 1] = b /\ \A i \in 1..n : d[i] = c[i]
  BY <1>1
<1>4. \A i \in 1..l : n - l + i \in 1..n /\ s[i] = c[n - l + i]
  BY <1>1 DEF Ends
<1>5. \A i \in 1..l : s[i].slot = n - l + i
  BY <1>1, <1>4 DEF IsChain
<1> HIDE DEF a, d
<1>6. ASSUME NEW i \in 1..(l + 1)
      PROVE  a[i] = d[n - l + i] /\ a[i].slot = n - l + i
  <2>1. CASE i = l + 1
    BY <1>1, <1>2, <1>3, <2>1
  <2>2. CASE i # l + 1
    <3>1. i \in 1..l
      BY <1>1, <2>2
    <3> QED BY <1>2, <1>3, <1>4, <1>5, <3>1
  <2> QED BY <2>1, <2>2
<1>7. ToSet(a) = ToSet(s) \cup {b}
  <2>1. \A i \in 1..(l + 1) : i \in 1..l \/ i = l + 1
    BY <1>1
  <2>2. 1..l \subseteq 1..(l + 1) /\ l + 1 \in 1..(l + 1)
    BY <1>1
  <2> QED BY <1>1, <1>2, <2>1, <2>2 DEF ToSet
<1>8. \A x \in ToSet(s) : x.slot < b.slot
  <2>1. \A i \in 1..l : s[i].slot < b.slot
    BY <1>1, <1>5
  <2> QED BY <1>1, <2>1 DEF ToSet
<1>9. \A i, j \in 1..(l + 1) : i < j <=> a[i].slot < a[j].slot
  BY <1>1, <1>6
<1>10. DropOldest(a) \in Seq(Block) /\ Ends(DropOldest(a), d)
  <2>1. Ends(a, d)
    <3>1. Len(a) <= Len(d) /\ Len(d) - Len(a) = n - l /\ Len(a) = l + 1
      BY <1>1, <1>2, <1>3
    <3>2. \A i \in 1..Len(a) : a[i] = d[Len(d) - Len(a) + i]
      BY <1>6, <3>1
    <3> QED BY <3>1, <3>2 DEF Ends
  <2>2. /\ Tail(a) \in Seq(Block) /\ Len(Tail(a)) = l
        /\ \A i \in 1..l : Tail(a)[i] = a[i + 1]
    <3>1. a # <<>>
      BY <1>1, <1>2
    <3> QED BY <1>1, <1>2, <3>1, HeadTailProperties
  <2>3. ASSUME NEW i \in 1..l PROVE Tail(a)[i] = d[(n + 1) - l + i]
    <3>1. i + 1 \in 1..(l + 1) /\ n - l + (i + 1) = (n + 1) - l + i
      BY <1>1
    <3> QED BY <1>6, <2>2, <3>1
  <2>4. Ends(Tail(a), d)
    <3>1. Len(Tail(a)) = l /\ Len(d) = n + 1 /\ l <= n + 1
      BY <1>1, <1>3, <2>2
    <3> QED BY <2>3, <3>1 DEF Ends
  <2> QED BY <1>2, <2>1, <2>2, <2>4 DEF DropOldest
<1> QED BY <1>2, <1>7, <1>8, <1>9, <1>10 DEF a, d

\* The end of a chain that is one block too long loses its oldest.
LEMMA DropOldestIs ==
  ASSUME NEW a \in Seq(Block), Len(a) <= MaxBlocks + 1
  PROVE  /\ Len(DropOldest(a)) <= MaxBlocks
         /\ ToSet(DropOldest(a)) = {a[i] : i \in {j \in 1..Len(a) : Len(a) - j < MaxBlocks}}
<1> DEFINE n == Len(a)
           late == {j \in 1..n : n - j < MaxBlocks}
<1>1. n \in Nat /\ MaxBlocks \in Nat /\ MaxBlocks # 0
  BY LenNat, BusAssumption
<1>2. CASE n <= MaxBlocks
  <2>1. DropOldest(a) = a /\ DOMAIN a = 1..n
    BY <1>1, <1>2 DEF DropOldest
  <2>2. late = 1..n
    BY <1>1, <1>2
  <2> QED BY <1>2, <2>1, <2>2 DEF ToSet
<1>3. CASE n = MaxBlocks + 1
  <2>1. a # <<>>
    BY <1>1, <1>3
  <2>2. /\ DropOldest(a) = Tail(a) /\ Len(Tail(a)) = MaxBlocks
        /\ DOMAIN Tail(a) = 1..MaxBlocks
        /\ \A i \in 1..MaxBlocks : Tail(a)[i] = a[i + 1]
    BY <1>1, <1>3, <2>1, HeadTailProperties DEF DropOldest
  <2>3. \A i \in 1..MaxBlocks : i + 1 \in late
    BY <1>1, <1>3
  <2>4. ASSUME NEW j \in late PROVE \E i \in 1..MaxBlocks : j = i + 1
    <3>1. j - 1 \in 1..MaxBlocks /\ j = (j - 1) + 1
      BY <1>1, <1>3
    <3> QED BY <3>1
  <2> HIDE DEF late
  <2>5. ToSet(Tail(a)) = {a[j] : j \in late}
    BY <2>2, <2>3, <2>4 DEF ToSet
  <2> QED BY <2>2, <2>5 DEF late
<1> QED BY <1>1, <1>2, <1>3

\* How many come after i.
LEMMA AboveCount ==
  ASSUME NEW n \in Nat, NEW i \in 1..n
  PROVE  IsFiniteSet((i + 1)..n) /\ Cardinality((i + 1)..n) = n - i
<1> DEFINE x == Cardinality((i + 1)..n)
<1>1. IsFiniteSet((i + 1)..n) /\ x = IF i + 1 > n THEN 0 ELSE n - (i + 1) + 1
  BY FS_Interval
<1> HIDE DEF x
<1>2. x = n - i
  <2>1. CASE i = n
    BY <1>1, <2>1
  <2>2. CASE i < n
    <3>1. ~(i + 1 > n)
      BY <2>2
    <3>2. x = n - (i + 1) + 1
      BY <1>1, <3>1, Zenon
    <3> QED BY <3>2
  <2> QED BY <2>1, <2>2
<1> QED BY <1>1, <1>2 DEF x

\* The page drops the same sections.
LEMMA NewestIs ==
  ASSUME NEW a \in Seq(Block), Len(a) <= MaxBlocks + 1,
         \A i, j \in 1..Len(a) : i < j <=> a[i].slot < a[j].slot
  PROVE  Newest(ToSet(a)) = ToSet(DropOldest(a))
<1> DEFINE n == Len(a)
           B == ToSet(a)
           ahead(i) == {x \in B : x.slot > a[i].slot}
<1>1. n \in Nat /\ DOMAIN a = 1..n /\ \A i \in 1..n : a[i].slot \in Nat
  <2>1. \A i \in 1..n : a[i] \in Block
    BY ElementOfSeq
  <2> QED BY <2>1, LenNat DEF Block
<1>2. B = {a[i] : i \in 1..n}
  BY <1>1 DEF ToSet
<1>3. ASSUME NEW i \in 1..n PROVE Cardinality(ahead(i)) = n - i
  <2> DEFINE J == (i + 1)..n
             f == [j \in J |-> a[j]]
  <2>1. i \in Nat /\ i <= n /\ J \subseteq 1..n
    BY <1>1
  <2>2. ahead(i) = {a[j] : j \in J}
    <3>1. \A j \in 1..n : a[j].slot > a[i].slot <=> j \in J
      BY <1>1, <2>1
    <3> HIDE DEF J
    <3> QED BY <1>2, <2>1, <3>1
  <2>3. \A j, k \in J : a[j] = a[k] => j = k
    <3>1. \A j, k \in 1..n : a[j] = a[k] => ~(j < k) /\ ~(k < j)
      BY <1>1
    <3> QED BY <1>1, <2>1, <3>1
  <2> HIDE DEF J
  <2>4. f \in Bijection(J, ahead(i))
    <3> DEFINE A == ahead(i)
    <3>1. A = {a[j] : j \in J}
      BY <2>2
    <3> HIDE DEF A
    <3>2. f \in [J -> A] /\ \A y \in A : \E j \in J : f[j] = y
      BY <3>1
    <3>3. \A j, k \in J : f[j] = f[k] => j = k
      BY <2>3
    <3> HIDE DEF f
    <3>4. f \in Bijection(J, A)
      BY <3>2, <3>3 DEF Bijection, Injection, Surjection, IsInjective
    <3> QED BY <3>4 DEF A
  <2>5. IsFiniteSet(J) /\ Cardinality(J) = n - i
    BY <1>1, AboveCount DEF J
  <2>6. ExistsBijection(J, ahead(i))
    BY <2>4 DEF ExistsBijection
  <2> QED BY <2>5, <2>6, FS_Bijection
<1>4. Newest(B) = {x \in B : Cardinality({y \in B : y.slot > x.slot}) < MaxBlocks}
  BY DEF Newest
<1> HIDE DEF B
<1>5. Newest(B) = {a[i] : i \in {j \in 1..n : n - j < MaxBlocks}}
  <2>1. ASSUME NEW i \in 1..n
        PROVE  Cardinality({y \in B : y.slot > a[i].slot}) = n - i
    BY <1>3
  <2>2. ASSUME NEW i \in 1..n PROVE a[i] \in Newest(B) <=> n - i < MaxBlocks
    <3>1. a[i] \in B
      BY <1>2
    <3>2. a[i] \in Newest(B) <=> Cardinality({y \in B : y.slot > a[i].slot}) < MaxBlocks
      BY <1>4, <3>1
    <3> QED BY <2>1, <3>2
  <2>3. \A x \in Newest(B) : \E i \in 1..n : x = a[i]
    BY <1>2, <1>4
  <2> QED BY <2>2, <2>3
<1>6. ToSet(DropOldest(a)) = {a[i] : i \in {j \in 1..n : n - j < MaxBlocks}}
  BY DropOldestIs
<1> QED BY <1>5, <1>6 DEF B

\* What is left of a list of transactions.
LEMMA WithoutIs ==
  ASSUME NEW s \in Seq(Txs), NEW gone
  PROVE  /\ Without(s, gone) \in Seq(Txs)
         /\ ToSet(Without(s, gone)) = ToSet(s) \ gone
         /\ IsInjective(s) => IsInjective(Without(s, gone))
<1> DEFINE keep == ToSet(s) \ gone
           r == Sift(s, keep)
<1>1. r \in Seq(Txs \cap keep)
  BY SiftIn
<1>2. Seq(Txs \cap keep) \subseteq Seq(Txs)
  OBVIOUS
<1>3. /\ {r[j] : j \in DOMAIN r} = {s[j] : j \in DOMAIN s} \cap keep
      /\ (\A j, k \in DOMAIN s : s[j] = s[k] => j = k)
           => (\A j, k \in DOMAIN r : r[j] = r[k] => j = k)
  BY SiftElements
<1>4. ToSet(r) = ToSet(s) \ gone
  BY <1>3 DEF ToSet
<1>5. IsInjective(s) => IsInjective(r)
  BY <1>3 DEF IsInjective
<1> QED BY <1>1, <1>2, <1>4, <1>5 DEF Without

\* What an event makes of the two lists of the bus.
LEMMA TakeIs ==
  ASSUME NEW b \in Bus, NEW e \in Event
  PROVE  /\ b.blocks \in Seq(Block) /\ b.mempool \in Seq(Txs)
         /\ e.kind = "MempoolTx" => /\ Take(b, e).blocks = b.blocks
                                    /\ Take(b, e).mempool = Append(b.mempool, e.tx)
         /\ e.kind = "Block" =>
              /\ Take(b, e).blocks = DropOldest(Append(b.blocks, e.block))
              /\ Take(b, e).mempool = Without(b.mempool, e.block.txs)
         /\ e.kind = "Rollback" => /\ Take(b, e).blocks = Retain(b.blocks, e.slot)
                                   /\ Take(b, e).mempool = b.mempool
         /\ e.kind = "MempoolPrune" => /\ Take(b, e).blocks = b.blocks
                                       /\ Take(b, e).mempool = Without(b.mempool, e.removed)
         /\ Take(b, e) = [blocks |-> Take(b, e).blocks, mempool |-> Take(b, e).mempool]
<1>1. e.kind \in {"MempoolTx", "Block", "Rollback", "MempoolPrune"}
  BY EventIs
<1>2. b \in [blocks : Seq(Block), mempool : Seq(Txs)]
  BY DEF Bus
<1> QED BY <1>1, <1>2 DEF Take, TakeBlock

\* A list that got one more.
LEMMA AppendHas ==
  ASSUME NEW S, NEW s \in Seq(S), NEW x \in S
  PROVE  /\ Append(s, x) \in Seq(S)
         /\ ToSet(Append(s, x)) = ToSet(s) \cup {x}
         /\ (IsInjective(s) /\ x \notin ToSet(s)) => IsInjective(Append(s, x))
<1> DEFINE a == Append(s, x)
           n == Len(s)
<1>1. n \in Nat /\ DOMAIN s = 1..n
  BY LenNat
<1>2. /\ a \in Seq(S) /\ DOMAIN a = 1..(n + 1) /\ a[n + 1] = x
      /\ \A i \in 1..n : a[i] = s[i]
  BY <1>1
<1>3. \A i \in 1..(n + 1) : i \in 1..n \/ i = n + 1
  BY <1>1
<1>4. 1..n \subseteq 1..(n + 1) /\ n + 1 \in 1..(n + 1)
  BY <1>1
<1> HIDE DEF a, n
<1>5. ToSet(a) = ToSet(s) \cup {x}
  BY <1>1, <1>2, <1>3, <1>4 DEF ToSet
<1>6. ASSUME IsInjective(s), x \notin ToSet(s) PROVE IsInjective(a)
  <2>1. \A i, j \in 1..n : s[i] = s[j] => i = j
    BY <1>1, <1>6 DEF IsInjective
  <2>2. \A i \in 1..n : s[i] # x
    BY <1>1, <1>6 DEF ToSet
  <2>3. \A i, j \in 1..(n + 1) : a[i] = a[j] => i = j
    BY <1>2, <1>3, <2>1, <2>2
  <2> QED BY <1>2, <2>3 DEF IsInjective
<1> QED BY <1>2, <1>5, <1>6 DEF a

LEMMA TakeType ==
  ASSUME NEW b \in Bus, NEW e \in Event
  PROVE  Take(b, e) \in Bus
<1>1. b.blocks \in Seq(Block) /\ b.mempool \in Seq(Txs)
  BY TakeIs
<1>2. e.kind \in {"MempoolTx", "Block", "Rollback", "MempoolPrune"}
  BY EventIs
<1>3. Take(b, e).blocks \in Seq(Block)
  <2>1. CASE e.kind = "Block"
    <3> DEFINE a == Append(b.blocks, e.block)
    <3>1. a \in Seq(Block)
      BY <1>1, <2>1, EventIs
    <3>2. MaxBlocks \in Nat /\ Take(b, e).blocks = DropOldest(a)
      BY <2>1, BusAssumption, TakeIs
    <3> HIDE DEF a
    <3>3. Len(a) > MaxBlocks => a # <<>> /\ Tail(a) \in Seq(Block)
      BY <3>1, <3>2
    <3> QED BY <3>1, <3>2, <3>3 DEF DropOldest
  <2>2. CASE e.kind = "Rollback"
    <3> DEFINE keep == {x \in ToSet(b.blocks) : x.slot <= e.slot}
    <3>1. Sift(b.blocks, keep) \in Seq(Block \cap keep)
      BY <1>1, SiftIn
    <3>2. Seq(Block \cap keep) \subseteq Seq(Block)
      OBVIOUS
    <3>3. Take(b, e).blocks = Sift(b.blocks, keep)
      BY <2>2, TakeIs DEF Retain
    <3> QED BY <3>1, <3>2, <3>3
  <2> QED BY <1>1, <1>2, <2>1, <2>2, TakeIs
<1>4. Take(b, e).mempool \in Seq(Txs)
  <2>1. CASE e.kind = "MempoolTx"
    <3>1. \A m \in Seq(Txs), t \in Txs : Append(m, t) \in Seq(Txs)
      BY AppendHas
    <3> QED BY <1>1, <2>1, <3>1, TakeIs, EventIs
  <2>2. \A gone : Without(b.mempool, gone) \in Seq(Txs)
    BY <1>1, WithoutIs, Zenon
  <2> QED BY <1>1, <1>2, <2>1, <2>2, TakeIs
<1>5. Take(b, e) = [blocks |-> Take(b, e).blocks, mempool |-> Take(b, e).mempool]
  BY TakeIs
<1> QED BY <1>3, <1>4, <1>5 DEF Bus

\* If its blocks are the end of a chain, they stay that when the chain goes on,
\* and at most MaxBlocks.
LEMMA TakeEnds ==
  ASSUME NEW b \in Bus, NEW e \in Event, NEW c, IsChain(c), NEW d, Follows(c, e, d),
         Ends(b.blocks, c), Len(b.blocks) <= MaxBlocks
  PROVE  Ends(Take(b, e).blocks, d) /\ Len(Take(b, e).blocks) <= MaxBlocks
<1>1. b.blocks \in Seq(Block) /\ MaxBlocks \in Nat
  BY TakeIs, BusAssumption
<1>2. CASE e.kind = "Block"
  <2>1. e.block \in Block /\ e.block.slot = Len(c) + 1 /\ d = Append(c, e.block)
    BY <1>2, EventIs DEF Follows
  <2> DEFINE a == Append(b.blocks, e.block)
  <2>2. /\ a \in Seq(Block) /\ Len(a) = Len(b.blocks) + 1
        /\ Ends(DropOldest(a), d)
    BY <1>1, <2>1, GrowIs
  <2> HIDE DEF a
  <2>3. Len(a) <= MaxBlocks + 1
    BY <1>1, <2>2, LenNat
  <2>4. Len(DropOldest(a)) <= MaxBlocks
    BY <2>2, <2>3, DropOldestIs
  <2>5. Take(b, e).blocks = DropOldest(a)
    BY <1>2, TakeIs DEF a
  <2> QED BY <2>2, <2>4, <2>5
<1>3. CASE e.kind = "Rollback"
  <2>1. e.slot \in Nat /\ e.slot < Len(c) /\ d = SubSeq(c, 1, e.slot)
    BY <1>3, EventIs DEF Follows
  <2>2. /\ Retain(b.blocks, e.slot) \in Seq(Block)
        /\ Len(Retain(b.blocks, e.slot)) <= Len(b.blocks)
        /\ Ends(Retain(b.blocks, e.slot), d)
    BY <1>1, <2>1, RetainIs
  <2>3. Len(Retain(b.blocks, e.slot)) \in Nat /\ Len(b.blocks) \in Nat
    BY <1>1, <2>2, LenNat
  <2>4. Take(b, e).blocks = Retain(b.blocks, e.slot)
    BY <1>3, TakeIs
  <2> HIDE DEF Ends
  <2> QED BY <1>1, <2>2, <2>3, <2>4
<1> QED BY <1>2, <1>3 DEF Follows

-----------------------------------------------------------------------------
(* The page *)

\* A page and the bus show the same, but for the transactions it is to drop.
Agrees(v, b) ==
  /\ v.blocks = ToSet(b.blocks)
  /\ ToSet(b.mempool) \ v.again \subseteq v.mempool
  /\ v.mempool \ v.pendingPrune \subseteq ToSet(b.mempool)
  /\ v.pendingPrune \cap ToSet(b.mempool) \subseteq v.again

LEMMA ToSetIn ==
  ASSUME NEW S, NEW s \in Seq(S)
  PROVE  ToSet(s) \in SUBSET S
<1>1. \A i \in DOMAIN s : s[i] \in S
  BY ElementIn, Zenon
<1> QED BY <1>1, Zenon DEF ToSet

LEMMA OpenedAgrees ==
  ASSUME NEW b \in Bus
  PROVE  Opened(b) \in View /\ Agrees(Opened(b), b)
<1>1. b.blocks \in Seq(Block) /\ b.mempool \in Seq(Txs)
  BY DEF Bus
<1>2. ToSet(b.blocks) \in SUBSET Block /\ ToSet(b.mempool) \in SUBSET Txs
  BY <1>1, ToSetIn
<1> QED BY <1>2 DEF Opened, View, Agrees

\* An event leaves a page a page, and does not tell it what it missed.
LEMMA ShowType ==
  ASSUME NEW v \in View, NEW e \in Event
  PROVE  Show(v, e) \in View /\ Show(v, e).lost = v.lost
<1>1. e.kind \in {"MempoolTx", "Block", "Rollback", "MempoolPrune"}
  BY EventIs
<1>2. CASE e.kind = "MempoolTx"
  BY <1>2, EventIs DEF Show, View
<1>3. CASE e.kind = "Rollback"
  BY <1>3, EventIs DEF Show, View
<1>4. CASE e.kind = "MempoolPrune"
  BY <1>4, EventIs DEF Show, View
<1>5. CASE e.kind = "Block"
  <2>1. e.block \in Block /\ e.block.txs \in SUBSET Txs
    BY <1>5, EventIs DEF Block
  <2>2. Newest(v.blocks \cup {e.block}) \in SUBSET Block
    BY <2>1 DEF Newest, View
  <2>3. Show(v, e) = ShowBlock(v, e.block)
    BY <1>5 DEF Show
  <2>4. Finalize(v, e.block) \in View /\ Finalize(v, e.block).lost = v.lost
    BY <2>1, <2>2 DEF Finalize, View
  <2>5. /\ [v EXCEPT !.blocks = Newest(@ \cup {e.block})] \in View
        /\ [v EXCEPT !.blocks = Newest(@ \cup {e.block})].lost = v.lost
    BY <2>2 DEF View
  <2> QED BY <2>3, <2>4, <2>5, Zenon DEF ShowBlock
<1> QED BY <1>1, <1>2, <1>3, <1>4, <1>5

\* The blocks of the page and of the bus grow alike.
LEMMA ShowBlockAgrees ==
  ASSUME NEW v \in View, NEW b \in Bus, Agrees(v, b), NEW e \in Event,
         NEW c, IsChain(c), Ends(b.blocks, c), Len(b.blocks) <= MaxBlocks,
         NEW d, Follows(c, e, d), e.kind = "Block"
  PROVE  Agrees(Show(v, e), Take(b, e))
<1> DEFINE x == e.block
           s == b.blocks
           a == Append(s, x)
<1>1. x \in Block /\ x.slot = Len(c) + 1 /\ x.txs \in SUBSET Txs
  BY EventIs DEF Follows, Block
<1>2. s \in Seq(Block) /\ b.mempool \in Seq(Txs)
  BY TakeIs
<1>3. /\ a \in Seq(Block) /\ Len(a) = Len(s) + 1
      /\ ToSet(a) = ToSet(s) \cup {x}
      /\ \A y \in ToSet(s) : y.slot < x.slot
      /\ \A i, j \in 1..Len(a) : i < j <=> a[i].slot < a[j].slot
  <2>1. a \in Seq(Block) /\ Len(a) = Len(s) + 1
    BY <1>1, <1>2, GrowIs
  <2>2. ToSet(a) = ToSet(s) \cup {x}
    BY <1>1, <1>2, GrowIs
  <2>3. \A y \in ToSet(s) : y.slot < x.slot
    BY <1>1, <1>2, GrowIs
  <2>4. \A i, j \in 1..Len(a) : i < j <=> a[i].slot < a[j].slot
    BY <1>1, <1>2, GrowIs
  <2> QED BY <2>1, <2>2, <2>3, <2>4
<1> HIDE DEF a
<1>4. Len(a) <= MaxBlocks + 1
  <2>1. Len(s) \in Nat /\ MaxBlocks \in Nat
    BY <1>2, BusAssumption, LenNat
  <2> HIDE DEF s
  <2> QED BY <1>3, <2>1 DEF s
<1>5. Newest(ToSet(s) \cup {x}) = ToSet(DropOldest(a))
  BY <1>3, <1>4, NewestIs
<1>6. v.blocks = ToSet(s)
  BY DEF Agrees
<1>7. Show(v, e) = Finalize(v, x)
  <2>1. ~ \E y \in v.blocks : y.slot = x.slot
    <3>1. \A y \in v.blocks : y.slot < x.slot /\ y.slot \in Nat /\ x.slot \in Nat
      BY <1>1, <1>3, <1>6 DEF View, Block
    <3> QED BY <3>1
  <2>2. \A y \in v.blocks : y.slot < x.slot
    BY <1>3, <1>6
  <2>3. Show(v, e) = ShowBlock(v, x)
    BY DEF Show
  <2> QED BY <2>1, <2>2, <2>3 DEF ShowBlock
<1>8. /\ Show(v, e).blocks = Newest(v.blocks \cup {x})
      /\ Show(v, e).mempool = (v.mempool \ x.txs) \ v.pendingPrune
      /\ Show(v, e).pendingPrune = {}
      /\ Show(v, e).again = v.again \ x.txs
  BY <1>7 DEF Finalize, View
<1>9. /\ Take(b, e).blocks = DropOldest(a)
      /\ ToSet(Take(b, e).mempool) = ToSet(b.mempool) \ x.txs
  BY <1>2, TakeIs, WithoutIs DEF a
<1> HIDE DEF x, s
<1> QED BY <1>5, <1>6, <1>8, <1>9 DEF Agrees

\* What has shown what the bus has taken agrees with it after the next event.
LEMMA ShowAgrees ==
  ASSUME NEW v \in View, NEW b \in Bus, Agrees(v, b), NEW e \in Event,
         NEW c, IsChain(c), Ends(b.blocks, c), Len(b.blocks) <= MaxBlocks,
         e.kind \in {"Block", "Rollback"} => \E d : Follows(c, e, d)
  PROVE  Agrees(Show(v, e), Take(b, e))
<1>1. e.kind \in {"MempoolTx", "Block", "Rollback", "MempoolPrune"}
  BY EventIs
<1>2. b.blocks \in Seq(Block) /\ b.mempool \in Seq(Txs)
  BY TakeIs
<1>3. CASE e.kind = "MempoolTx"
  <2>1. e.tx \in Txs
    BY <1>3, EventIs
  <2>2. ToSet(Append(b.mempool, e.tx)) = ToSet(b.mempool) \cup {e.tx}
    <3>1. \A m \in Seq(Txs), t \in Txs : ToSet(Append(m, t)) = ToSet(m) \cup {t}
      BY AppendHas
    <3> QED BY <1>2, <2>1, <3>1
  <2>3. /\ Take(b, e).blocks = b.blocks
        /\ ToSet(Take(b, e).mempool) = ToSet(b.mempool) \cup {e.tx}
    BY <1>3, <2>2, TakeIs
  <2>4. /\ Show(v, e).blocks = v.blocks
        /\ Show(v, e).mempool = v.mempool \cup {e.tx}
        /\ Show(v, e).pendingPrune = v.pendingPrune
        /\ Show(v, e).again = v.again \cup ({e.tx} \cap v.pendingPrune)
    BY <1>3 DEF Show, View
  <2> QED BY <2>3, <2>4 DEF Agrees
<1>4. CASE e.kind = "Block"
  BY <1>4, ShowBlockAgrees
<1>5. CASE e.kind = "Rollback"
  <2>1. e.slot \in Nat /\ e.slot < Len(c)
    BY <1>5, EventIs DEF Follows
  <2>2. /\ ToSet(Take(b, e).blocks) = {x \in ToSet(b.blocks) : x.slot <= e.slot}
        /\ Take(b, e).mempool = b.mempool
    BY <1>2, <1>5, <2>1, TakeIs, RetainIs
  <2>3. /\ Show(v, e).blocks = {x \in v.blocks : x.slot <= e.slot}
        /\ Show(v, e).mempool = v.mempool
        /\ Show(v, e).pendingPrune = v.pendingPrune
        /\ Show(v, e).again = v.again
    BY <1>5 DEF Show, View
  <2> QED BY <2>2, <2>3 DEF Agrees
<1>6. CASE e.kind = "MempoolPrune"
  <2>1. e.removed \in SUBSET Txs
    BY <1>6, EventIs
  <2>2. /\ Take(b, e).blocks = b.blocks
        /\ ToSet(Take(b, e).mempool) = ToSet(b.mempool) \ e.removed
    BY <1>2, <1>6, TakeIs, WithoutIs
  <2>3. /\ Show(v, e).blocks = v.blocks
        /\ Show(v, e).mempool = v.mempool
        /\ Show(v, e).pendingPrune = v.pendingPrune \cup e.removed
        /\ Show(v, e).again = v.again
    BY <1>6 DEF Show, View
  <2> QED BY <2>2, <2>3 DEF Agrees
<1> QED BY <1>1, <1>3, <1>4, <1>5, <1>6

-----------------------------------------------------------------------------
(* What is on its way *)

\* After is a loop.
LEMMA AfterIs ==
  ASSUME NEW b \in Bus, NEW s \in Seq(Event)
  PROVE  \E h : /\ h \in [0..Len(s) -> Bus] /\ h[0] = b
                /\ \A i \in 1..Len(s) : h[i] = Take(h[i - 1], s[i])
                /\ After(b, s) = h[Len(s)]
<1> DEFINE n == Len(s)
           step == [x \in Bus |-> [e \in Event |-> Take(x, e)]]
           Taken(f) ==
             f = [i \in 0..n |-> IF i = 0 THEN b ELSE Take(f[i - 1], s[i])]
           taken == CHOOSE f : Taken(f)
<1>1. n \in Nat /\ \A i \in 1..n : s[i] \in Event
  BY LenNat
<1>2. \E f : Taken(f)
  <2>1. step \in [Bus -> [Event -> Bus]]
    BY TakeType
  <2> HIDE DEF step
  <2>2. PICK f : IsLoop(f, b, step, s, Bus)
    BY <2>1, LoopExists
  <2>3. ASSUME NEW i \in 1..n PROVE f[i] = Take(f[i - 1], s[i])
    <3>1. f[i - 1] \in Bus /\ s[i] \in Event
      BY <1>1, <2>2 DEF IsLoop
    <3> QED BY <2>2, <3>1 DEF step, IsLoop
  <2>4. ASSUME NEW i \in 0..n PROVE f[i] = IF i = 0 THEN b ELSE Take(f[i - 1], s[i])
    <3>1. CASE i = 0
      BY <2>2, <3>1 DEF IsLoop
    <3>2. CASE i # 0
      <4>1. i \in 1..n
        BY <1>1, <3>2
      <4> QED BY <2>3, <3>2, <4>1, Zenon
    <3> QED BY <3>1, <3>2, Zenon
  <2>5. f = [i \in 0..n |-> f[i]]
    BY <2>2 DEF IsLoop
  <2>6. Taken(f)
    BY <2>4, <2>5, Zenon
  <2> QED BY <2>6, Zenon
<1>3. Taken(taken)
  BY <1>2, Zenon
<1> HIDE DEF taken
<1>4. taken[0] = b
  BY <1>1, <1>3
<1>5. ASSUME NEW i \in 1..n PROVE taken[i] = Take(taken[i - 1], s[i])
  <2>1. i \in 0..n /\ i # 0
    BY <1>1
  <2> QED BY <1>3, <2>1
<1> DEFINE T == {i \in 0..n : taken[i] \in Bus}
<1>6. 0 \in T
  BY <1>1, <1>4
<1>7. ASSUME NEW i \in 1..n, i - 1 \in T PROVE i \in T
  <2>1. taken[i - 1] \in Bus /\ s[i] \in Event /\ i \in 0..n
    BY <1>1, <1>7
  <2> QED BY <1>5, <2>1, TakeType
<1>8. \A i \in 0..n : i \in T
  BY <1>1, <1>6, <1>7, CountUp
<1>9. taken \in [0..n -> Bus]
  BY <1>3, <1>8
<1>10. After(b, s) = taken[n]
  BY DEF After, taken
<1> QED BY <1>4, <1>5, <1>9, <1>10


\* The events of s lead, by way of the chains cs, to the chain c.
Leads(cs, s, c) ==
  /\ cs \in [0..Len(s) -> Seq(Block)]
  /\ \A i \in 0..Len(s) : IsChain(cs[i])
  /\ \A i \in 1..Len(s) : Follows(cs[i - 1], s[i], cs[i])
  /\ cs[Len(s)] = c

\* From a chain whose end the bus holds, they lead to c.
LeadsBus(b, s, c) == \E cs : Leads(cs, s, c) /\ Ends(b.blocks, cs[0])

LEMMA LeadsNow ==
  ASSUME NEW b, NEW s \in Seq(Event), NEW c, LeadsBus(b, s, c)
  PROVE  IsChain(c) /\ \E d : IsChain(d) /\ Ends(b.blocks, d)
<1>1. PICK cs : Leads(cs, s, c) /\ Ends(b.blocks, cs[0])
  BY DEF LeadsBus
<1>2. 0 \in 0..Len(s) /\ Len(s) \in 0..Len(s)
  BY LenNat
<1> QED BY <1>1, <1>2 DEF Leads

LEMMA LeadsNowhere ==
  ASSUME NEW b, NEW c, IsChain(c), Ends(b.blocks, c)
  PROVE  LeadsBus(b, <<>>, c)
<1> DEFINE cs == [i \in 0..0 |-> c]
<1>1. Len(<<>>) = 0 /\ c \in Seq(Block) /\ \A i \in 0..0 : i = 0
  BY DEF IsChain
<1>2. /\ cs \in [0..0 -> Seq(Block)] /\ cs[0] = c
      /\ \A i \in 1..0 : FALSE
  BY <1>1
<1> HIDE DEF cs
<1>3. Leads(cs, <<>>, c)
  BY <1>1, <1>2 DEF Leads
<1> QED BY <1>2, <1>3 DEF LeadsBus

\* The node adds an event to the end.
LEMMA LeadsOn ==
  ASSUME NEW b, NEW s \in Seq(Event), NEW c, LeadsBus(b, s, c),
         NEW e \in Event, NEW d, Follows(c, e, d)
  PROVE  LeadsBus(b, Append(s, e), d)
<1> DEFINE n == Len(s)
           t == Append(s, e)
<1>1. PICK cs : Leads(cs, s, c) /\ Ends(b.blocks, cs[0])
  BY DEF LeadsBus
<1> DEFINE ds == [i \in 0..(n + 1) |-> IF i = n + 1 THEN d ELSE cs[i]]
<1>2. n \in Nat
  BY LenNat
<1>3. Len(t) = n + 1 /\ t[n + 1] = e /\ \A i \in 1..n : t[i] = s[i]
  BY <1>2
<1>4. cs[n] = c /\ IsChain(c) /\ (\A i \in 0..n : cs[i] \in Seq(Block) /\ IsChain(cs[i]))
      /\ \A i \in 1..n : Follows(cs[i - 1], s[i], cs[i])
  <2>1. n \in 0..n
    BY <1>2
  <2> QED BY <1>1, <2>1 DEF Leads
<1>5. IsChain(d) /\ d \in Seq(Block)
  BY <1>4, FollowsIsChain DEF IsChain
<1>6. ds[n + 1] = d /\ \A i \in 0..n : ds[i] = cs[i]
  BY <1>2
<1>7. \A i \in 0..(n + 1) : i \in 0..n \/ i = n + 1
  BY <1>2
<1>8. ds \in [0..(n + 1) -> Seq(Block)] /\ \A i \in 0..(n + 1) : IsChain(ds[i])
  BY <1>4, <1>5, <1>6, <1>7
<1> HIDE DEF ds, t
<1>9. ASSUME NEW i \in 1..(n + 1) PROVE Follows(ds[i - 1], t[i], ds[i])
  <2>1. i - 1 \in 0..n
    BY <1>2
  <2>2. CASE i = n + 1
    <3>1. i - 1 = n /\ n \in 0..n
      BY <1>2, <2>2
    <3> QED BY <1>3, <1>4, <1>6, <2>2, <3>1
  <2>3. CASE i # n + 1
    <3>1. i \in 1..n /\ i \in 0..n
      BY <1>2, <2>3
    <3> QED BY <1>3, <1>4, <1>6, <2>1, <3>1
  <2> QED BY <2>2, <2>3
<1>10. Leads(ds, t, d)
  BY <1>3, <1>6, <1>8, <1>9 DEF Leads
<1>11. ds[0] = cs[0]
  BY <1>2, <1>6
<1> QED BY <1>1, <1>10, <1>11 DEF LeadsBus, t

\* The bus takes the first of the events.
LEMMA LeadsFrom ==
  ASSUME NEW b \in Bus, Len(b.blocks) <= MaxBlocks, NEW s \in Seq(Event), s # <<>>,
         NEW c, LeadsBus(b, s, c)
  PROVE  /\ LeadsBus(Take(b, Head(s)), Tail(s), c)
         /\ Len(Take(b, Head(s)).blocks) <= MaxBlocks
         /\ \E d : /\ IsChain(d) /\ Ends(b.blocks, d)
                   /\ \E f : Follows(d, Head(s), f)
<1> DEFINE n == Len(s)
           t == Tail(s)
           e == Head(s)
<1>1. PICK cs : Leads(cs, s, c) /\ Ends(b.blocks, cs[0])
  BY DEF LeadsBus
<1> DEFINE ds == [i \in 0..(n - 1) |-> cs[i + 1]]
<1>2. n \in Nat /\ n # 0
  BY LenNat
<1>3. /\ t \in Seq(Event) /\ Len(t) = n - 1 /\ e = s[1] /\ e \in Event
      /\ \A i \in 1..(n - 1) : t[i] = s[i + 1]
  BY <1>2, HeadTailProperties
<1>4. /\ cs[n] = c /\ (\A i \in 0..n : cs[i] \in Seq(Block) /\ IsChain(cs[i]))
      /\ \A i \in 1..n : Follows(cs[i - 1], s[i], cs[i])
  BY <1>1 DEF Leads
<1>5. IsChain(cs[0]) /\ Follows(cs[0], e, cs[1])
  <2>1. 1 \in 1..n /\ 0 \in 0..n /\ 1 - 1 = 0
    BY <1>2
  <2> QED BY <1>3, <1>4, <2>1
<1>6. Ends(Take(b, e).blocks, cs[1]) /\ Len(Take(b, e).blocks) <= MaxBlocks
  BY <1>1, <1>3, <1>5, TakeEnds
<1>7. \A i \in 0..(n - 1) : i + 1 \in 0..n
  BY <1>2
<1>8. ds \in [0..(n - 1) -> Seq(Block)] /\ (\A i \in 0..(n - 1) : IsChain(ds[i]))
      /\ ds[n - 1] = c /\ ds[0] = cs[1]
  BY <1>2, <1>4, <1>7
<1>9. ASSUME NEW i \in 1..(n - 1) PROVE Follows(ds[i - 1], t[i], ds[i])
  <2>1. i + 1 \in 1..n /\ (i - 1) + 1 = i /\ (i + 1) - 1 = i
    BY <1>2
  <2>2. Follows(cs[i], s[i + 1], cs[i + 1])
    BY <1>4, <2>1
  <2>3. ds[i - 1] = cs[i] /\ ds[i] = cs[i + 1]
    BY <1>2, <2>1
  <2> QED BY <1>3, <2>2, <2>3
<1> HIDE DEF ds, t, e
<1>10. Leads(ds, t, c)
  BY <1>3, <1>8, <1>9 DEF Leads
<1>11. LeadsBus(Take(b, e), t, c)
  BY <1>6, <1>8, <1>10 DEF LeadsBus
<1> QED BY <1>1, <1>5, <1>6, <1>11 DEF t, e

\* Once it has taken them all, it holds the end of c.
LEMMA LeadsTo ==
  ASSUME NEW b \in Bus, Len(b.blocks) <= MaxBlocks, NEW s \in Seq(Event),
         NEW c, LeadsBus(b, s, c)
  PROVE  After(b, s) \in Bus /\ Ends(After(b, s).blocks, c)
<1> DEFINE n == Len(s)
<1>1. PICK cs : Leads(cs, s, c) /\ Ends(b.blocks, cs[0])
  BY DEF LeadsBus
<1>2. PICK h : /\ h \in [0..n -> Bus] /\ h[0] = b
               /\ \A i \in 1..n : h[i] = Take(h[i - 1], s[i])
               /\ After(b, s) = h[n]
  BY AfterIs
<1>3. n \in Nat /\ \A i \in 1..n : s[i] \in Event
  BY LenNat
<1>4. /\ cs[n] = c /\ (\A i \in 0..n : IsChain(cs[i]))
      /\ \A i \in 1..n : Follows(cs[i - 1], s[i], cs[i])
  BY <1>1 DEF Leads
<1> DEFINE Right(i) == Ends(h[i].blocks, cs[i]) /\ Len(h[i].blocks) <= MaxBlocks
           T == {i \in 0..n : Right(i)}
<1>5. 0 \in T
  BY <1>1, <1>2, <1>3
<1>6. ASSUME NEW i \in 1..n, i - 1 \in T PROVE i \in T
  <2>1. i - 1 \in 0..n /\ i \in 0..n /\ Right(i - 1)
    BY <1>3, <1>6
  <2>2. h[i - 1] \in Bus /\ IsChain(cs[i - 1]) /\ s[i] \in Event
    BY <1>2, <1>3, <1>4, <2>1
  <2>3. Follows(cs[i - 1], s[i], cs[i]) /\ h[i] = Take(h[i - 1], s[i])
    BY <1>2, <1>4
  <2>4. Right(i)
    BY <2>1, <2>2, <2>3, TakeEnds
  <2> HIDE DEF Right
  <2> QED BY <2>1, <2>4
<1>7. \A i \in 0..n : i \in T
  <2> HIDE DEF T
  <2> QED BY <1>3, <1>5, <1>6, CountUp
<1>8. n \in 0..n
  BY <1>3
<1> QED BY <1>2, <1>4, <1>7, <1>8

-----------------------------------------------------------------------------

\* A page that shows the events of s after v ends up agreeing with b.
Shows(v, s, b) ==
  \E w : /\ w \in [0..Len(s) -> View] /\ w[0] = v
         /\ \A i \in 1..Len(s) : w[i] = Show(w[i - 1], s[i])
         /\ Agrees(w[Len(s)], b)

LEMMA ShowsNow ==
  ASSUME NEW v \in View, NEW b
  PROVE  Shows(v, <<>>, b) <=> Agrees(v, b)
<1> DEFINE w == [i \in 0..0 |-> v]
<1>1. Len(<<>>) = 0 /\ w \in [0..0 -> View] /\ w[0] = v /\ \A i \in 1..0 : FALSE
  OBVIOUS
<1> HIDE DEF w
<1> QED BY <1>1 DEF Shows

LEMMA ShowsMore ==
  ASSUME NEW v \in View, NEW s \in Seq(Event), NEW b \in Bus, Shows(v, s, b),
         NEW e \in Event, NEW c, IsChain(c), Ends(b.blocks, c),
         Len(b.blocks) <= MaxBlocks,
         e.kind \in {"Block", "Rollback"} => \E d : Follows(c, e, d)
  PROVE  Shows(v, Append(s, e), Take(b, e))
<1> DEFINE n == Len(s)
           t == Append(s, e)
<1>1. PICK w : /\ w \in [0..n -> View] /\ w[0] = v
               /\ \A i \in 1..n : w[i] = Show(w[i - 1], s[i])
               /\ Agrees(w[n], b)
  BY DEF Shows
<1> DEFINE u == [i \in 0..(n + 1) |-> IF i = n + 1 THEN Show(w[n], e) ELSE w[i]]
<1>2. n \in Nat /\ n \in 0..n
  BY LenNat
<1>3. Len(t) = n + 1 /\ t[n + 1] = e /\ \A i \in 1..n : t[i] = s[i]
  BY <1>2
<1>4. w[n] \in View
  BY <1>1, <1>2
<1>5. Show(w[n], e) \in View /\ Agrees(Show(w[n], e), Take(b, e))
  BY <1>1, <1>4, ShowType, ShowAgrees
<1>6. u[n + 1] = Show(w[n], e) /\ \A i \in 0..n : u[i] = w[i]
  BY <1>2
<1>7. \A i \in 0..(n + 1) : i \in 0..n \/ i = n + 1
  BY <1>2
<1>8. u \in [0..(n + 1) -> View]
  BY <1>1, <1>5, <1>6, <1>7
<1> HIDE DEF u, t
<1>9. ASSUME NEW i \in 1..(n + 1) PROVE u[i] = Show(u[i - 1], t[i])
  <2>1. i - 1 \in 0..n
    BY <1>2
  <2>2. CASE i = n + 1
    <3>1. i - 1 = n
      BY <1>2, <2>2
    <3> QED BY <1>2, <1>3, <1>6, <2>2, <3>1
  <2>3. CASE i # n + 1
    <3>1. i \in 1..n /\ i \in 0..n
      BY <1>2, <2>3
    <3> QED BY <1>1, <1>3, <1>6, <2>1, <3>1
  <2> QED BY <2>2, <2>3
<1>10. u[0] = v
  BY <1>1, <1>2, <1>6
<1>11. Shows(v, t, Take(b, e))
  BY <1>3, <1>5, <1>6, <1>8, <1>9, <1>10 DEF Shows
<1> QED BY <1>11 DEF t

LEMMA ShowsLess ==
  ASSUME NEW v, NEW s \in Seq(Event), s # <<>>, NEW b, Shows(v, s, b)
  PROVE  Shows(Show(v, Head(s)), Tail(s), b)
<1> DEFINE n == Len(s)
           t == Tail(s)
<1>1. PICK w : /\ w \in [0..n -> View] /\ w[0] = v
               /\ \A i \in 1..n : w[i] = Show(w[i - 1], s[i])
               /\ Agrees(w[n], b)
  BY DEF Shows
<1> DEFINE u == [i \in 0..(n - 1) |-> w[i + 1]]
<1>2. n \in Nat /\ n # 0
  BY LenNat
<1>3. Len(t) = n - 1 /\ Head(s) = s[1] /\ \A i \in 1..(n - 1) : t[i] = s[i + 1]
  BY <1>2, HeadTailProperties
<1>4. u[0] = Show(v, Head(s))
  <2>1. 1 \in 1..n /\ 1 - 1 = 0 /\ 0 \in 0..(n - 1)
    BY <1>2
  <2> QED BY <1>1, <1>3, <2>1
<1>5. u \in [0..(n - 1) -> View] /\ u[n - 1] = w[n]
  BY <1>1, <1>2
<1>6. ASSUME NEW i \in 1..(n - 1) PROVE u[i] = Show(u[i - 1], t[i])
  <2>1. i + 1 \in 1..n /\ (i + 1) - 1 = i /\ (i - 1) + 1 = i
    BY <1>2
  <2>2. w[i + 1] = Show(w[i], s[i + 1])
    BY <1>1, <2>1
  <2>3. u[i] = w[i + 1] /\ u[i - 1] = w[i]
    BY <1>2, <2>1
  <2> QED BY <1>3, <2>2, <2>3
<1> HIDE DEF u, t
<1>7. Shows(Show(v, Head(s)), t, b)
  BY <1>1, <1>3, <1>4, <1>5, <1>6 DEF Shows
<1> QED BY <1>7 DEF t

-----------------------------------------------------------------------------
(* The inductive invariant *)

\* What the port holds leads from the chain the bus knows to the node's.
PortLeads == LeadsBus(bus, port, chain) /\ Len(bus.blocks) <= MaxBlocks

\* A page that missed nothing would agree with the bus.
PagesWillAgree ==
  \A p \in Pages : ~view[p].lost => Shows(view[p], queue[p], bus)

\* Between passes the monitor holds no list; in a pass, what it found is not
\* what the acquired mempool still has to give.  restarts has no other type.
MonitorOrder ==
  /\ ~passing => found = {} /\ todo = {}
  /\ found \cap todo = {}
  /\ restarts \in Nat

IInv == TypeOK /\ PortLeads /\ PagesWillAgree /\ MonitorOrder /\ MonitorRemembers

LEMMA InitInv == Init => IInv
<1> SUFFICES ASSUME Init PROVE IInv
  OBVIOUS
<1>1. MaxBlocks \in Nat /\ PortSize \in Nat /\ Buffer \in Nat
  BY BusAssumption, FeedAssumption
<1>2. bus = [blocks |-> <<>>, mempool |-> <<>>] /\ bus \in Bus
  BY DEF Init, Bus
<1>3. Opened(bus) \in View /\ Agrees(Opened(bus), bus)
  BY <1>2, OpenedAgrees
<1>4. TypeOK
  <2>1. view \in [Pages -> View]
    BY <1>3 DEF Init
  <2>2. <<>> \in Seq(Event) /\ <<>> \in Seq(Block) /\ Len(<<>>) = 0
    OBVIOUS
  <2>3. queue \in [Pages -> Seq(Event)] /\ \A p \in Pages : queue[p] = <<>>
    BY <2>2 DEF Init
  <2>4. /\ chain = <<>> /\ pool = {} /\ port = <<>>
        /\ pending = {} /\ passing = FALSE /\ found = {} /\ todo = {} /\ acquired = {}
    BY DEF Init
  <2>5. Len(port) <= PortSize /\ \A p \in Pages : Len(queue[p]) <= Buffer
    BY <1>1, <2>2, <2>3, <2>4
  <2>6. /\ pool \subseteq Txs /\ pending \subseteq Txs /\ todo \subseteq Txs
        /\ passing \in BOOLEAN /\ found \subseteq Txs /\ acquired \in SUBSET (SUBSET Txs)
    BY <2>4
  <2>7. chain \in Seq(Block) /\ port \in Seq(Event)
    BY <2>2, <2>4
  <2> QED BY <1>2, <2>1, <2>3, <2>5, <2>6, <2>7, Zenon DEF TypeOK
<1>5. PortLeads
  <2>1. IsChain(<<>>) /\ Ends(<<>>, <<>>)
    BY DEF IsChain, Ends
  <2>2. bus.blocks = <<>> /\ Len(<<>>) = 0
    BY <1>2
  <2>3. LeadsBus(bus, <<>>, <<>>)
    BY <2>1, <2>2, LeadsNowhere
  <2> QED BY <1>1, <2>2, <2>3 DEF PortLeads, Init
<1>6. PagesWillAgree
  <2> SUFFICES ASSUME NEW p \in Pages PROVE Shows(view[p], queue[p], bus)
    BY DEF PagesWillAgree
  <2>1. view[p] = Opened(bus) /\ queue[p] = <<>>
    BY DEF Init
  <2> QED BY <1>3, <2>1, ShowsNow
<1>7. MonitorOrder
  BY DEF Init, MonitorOrder
<1>8. MonitorRemembers
  <2>1. ToSet(bus.mempool) = {} /\ IsInjective(bus.mempool)
    BY <1>2 DEF ToSet, IsInjective
  <2> QED BY <2>1 DEF MonitorRemembers
<1> QED BY <1>4, <1>5, <1>6, <1>7, <1>8 DEF IInv

-----------------------------------------------------------------------------
(* The node's steps *)

\* A step that leaves the bus, the monitor and the pages alone keeps theirs.
LEMMA OthersKeep ==
  ASSUME IInv, UNCHANGED <<monitor, bus, pages>>
  PROVE  PagesWillAgree' /\ MonitorOrder' /\ MonitorRemembers'
BY DEF IInv, PagesWillAgree, MonitorOrder, MonitorRemembers, monitor, pages

LEMMA PoolKeeps ==
  ASSUME IInv, pool' \in SUBSET Txs, UNCHANGED <<chain, port, monitor, bus, pages>>
  PROVE  IInv'
<1>1. TypeOK'
  BY DEF IInv, TypeOK, monitor, pages
<1>2. PortLeads'
  BY DEF IInv, PortLeads
<1> QED BY <1>1, <1>2, OthersKeep DEF IInv

\* What the node tells follows its chain.
LEMMA ChainKeeps ==
  ASSUME IInv, NEW e \in Event, Follows(chain, e, chain'), port' = Append(port, e),
         Len(port) < PortSize, pool' \in SUBSET Txs, UNCHANGED <<monitor, bus, pages>>
  PROVE  IInv'
<1>1. port \in Seq(Event) /\ PortSize \in Nat
  BY FeedAssumption DEF IInv, TypeOK
<1>2. LeadsBus(bus, port', chain')
  BY <1>1, LeadsOn DEF IInv, PortLeads
<1>3. PortLeads'
  BY <1>2 DEF IInv, PortLeads
<1>4. port' \in Seq(Event) /\ Len(port') <= PortSize
  BY <1>1
<1>5. chain' \in Seq(Block)
  BY <1>2, <1>4, LeadsNow DEF IsChain
<1>6. TypeOK'
  BY <1>4, <1>5 DEF IInv, TypeOK, monitor, pages
<1> QED BY <1>3, <1>6, OthersKeep DEF IInv

LEMMA MintKeeps ==
  ASSUME IInv, NEW txs \in SUBSET Txs, Mint(txs)
  PROVE  IInv'
<1> DEFINE block == [slot |-> Len(chain) + 1, txs |-> txs]
           e == [kind |-> "Block", block |-> block]
<1>1. Len(chain) \in Nat /\ pool \in SUBSET Txs
  BY LenNat DEF IInv, TypeOK
<1>2. block \in Block
  BY <1>1 DEF Block
<1>3. e \in Event
  BY <1>2 DEF Event
<1>4. Follows(chain, e, chain')
  BY DEF Follows, Mint
<1>5. port' = Append(port, e) /\ Len(port) < PortSize /\ pool' \in SUBSET Txs
      /\ UNCHANGED <<monitor, bus, pages>>
  BY <1>1 DEF Mint
<1> HIDE DEF e
<1> QED BY <1>3, <1>4, <1>5, ChainKeeps

LEMMA SwitchKeeps ==
  ASSUME IInv, NEW n \in 0..MaxHeight, SwitchFork(n)
  PROVE  IInv'
<1> DEFINE e == [kind |-> "Rollback", slot |-> n]
<1>1. n \in Nat /\ pool \in SUBSET Txs
  BY FeedAssumption DEF IInv, TypeOK
<1>2. e \in Event
  BY <1>1 DEF Event
<1>3. Follows(chain, e, chain')
  BY DEF Follows, SwitchFork
<1>4. port' = Append(port, e) /\ Len(port) < PortSize /\ pool' \in SUBSET Txs
      /\ UNCHANGED <<monitor, bus, pages>>
  BY <1>1 DEF SwitchFork
<1> HIDE DEF e
<1> QED BY <1>2, <1>3, <1>4, ChainKeeps

-----------------------------------------------------------------------------
(* Publishing *)

\* An event of the bus: from the sink, one that follows the chain whose end the
\* bus holds; from the monitor, one that is not about blocks.
LEMMA SendKeeps ==
  ASSUME IInv, NEW e \in Event, Send(e),
         NEW c, IsChain(c), Ends(bus.blocks, c),
         e.kind \in {"Block", "Rollback"} => \E d : Follows(c, e, d)
  PROVE  /\ bus' \in Bus
         /\ queue' \in [Pages -> Seq(Event)] /\ \A p \in Pages : Len(queue'[p]) <= Buffer
         /\ view' \in [Pages -> View]
         /\ PagesWillAgree'
<1>1. bus' = Take(bus, e) /\ bus \in Bus /\ Len(bus.blocks) <= MaxBlocks
  BY DEF Send, IInv, TypeOK, PortLeads
<1>2. bus' \in Bus
  BY <1>1, TakeType
<1>3. Buffer \in Nat /\ Buffer # 0
  BY FeedAssumption
<1>4. ASSUME NEW p \in Pages
      PROVE  /\ queue'[p] = Deliver(queue[p], e)
             /\ view'[p] = [view[p] EXCEPT !.lost = @ \/ Len(queue[p]) = Buffer]
             /\ queue[p] \in Seq(Event) /\ Len(queue[p]) \in Nat /\ Len(queue[p]) <= Buffer
             /\ view[p] \in View
  BY LenNat DEF Send, IInv, TypeOK
<1>5. ASSUME NEW p \in Pages
      PROVE  queue'[p] \in Seq(Event) /\ Len(queue'[p]) <= Buffer
  <2> DEFINE q == queue[p]
  <2>1. q \in Seq(Event) /\ Len(q) \in Nat /\ Len(q) <= Buffer
    BY <1>4
  <2>2. queue'[p] = Deliver(q, e)
    BY <1>4
  <2> HIDE DEF q
  <2>3. CASE Len(q) < Buffer
    <3>1. Deliver(q, e) = Append(q, e)
      BY <2>3 DEF Deliver
    <3> QED BY <1>3, <2>1, <2>2, <2>3, <3>1
  <2>4. CASE ~(Len(q) < Buffer)
    <3>1. Deliver(q, e) = Append(Tail(q), e)
      BY <2>4 DEF Deliver
    <3>2. q # <<>>
      BY <1>3, <2>1, <2>4
    <3>3. Tail(q) \in Seq(Event) /\ Len(Tail(q)) = Len(q) - 1
      BY <2>1, <3>2, HeadTailProperties
    <3> QED BY <1>3, <2>1, <2>2, <3>1, <3>3
  <2> QED BY <2>3, <2>4
<1>6. ASSUME NEW p \in Pages PROVE view'[p] \in View
  <2>1. \A v \in View, l \in BOOLEAN : [v EXCEPT !.lost = l] \in View
    BY DEF View
  <2>2. (view[p].lost \/ Len(queue[p]) = Buffer) \in BOOLEAN
    OBVIOUS
  <2> QED BY <1>4, <2>1, <2>2, ZenonT(30)
<1>7. ASSUME NEW p \in Pages, ~view'[p].lost
      PROVE  Shows(view'[p], queue'[p], bus')
  <2>1. ~view[p].lost /\ Len(queue[p]) # Buffer /\ view'[p] = view[p]
    <3> DEFINE v == view[p]
               full == Len(queue[p]) = Buffer
               w == [v EXCEPT !.lost = @ \/ full]
    <3>1. v \in View /\ view'[p] = w /\ ~w.lost
      BY <1>4, <1>7
    <3> HIDE DEF v, full
    <3>2. w.lost = (v.lost \/ full)
      BY <3>1 DEF View
    <3>3. ~v.lost /\ ~full
      BY <3>1, <3>2, Zenon
    <3>4. v.lost = FALSE
      BY <3>1, <3>3 DEF View
    <3>5. w = [v EXCEPT !.lost = FALSE]
      BY <3>3, <3>4, Zenon
    <3>6. [v EXCEPT !.lost = FALSE] = v
      BY <3>1, <3>4 DEF View
    <3> QED BY <3>1, <3>3, <3>5, <3>6, Zenon DEF v, full
  <2>3. queue'[p] = Append(queue[p], e)
    <3> DEFINE n == Len(queue[p])
    <3>1. n \in Nat /\ n <= Buffer /\ n # Buffer
      BY <1>4, <2>1, Zenon
    <3> HIDE DEF n
    <3>2. n < Buffer
      BY <1>3, <3>1
    <3> QED BY <1>4, <3>2, Zenon DEF Deliver, n
  <2>4. Shows(view[p], queue[p], bus)
    BY <2>1 DEF IInv, PagesWillAgree
  <2>5. Shows(view[p], Append(queue[p], e), Take(bus, e))
    BY <1>1, <1>4, <2>4, ShowsMore
  <2> QED BY <1>1, <2>1, <2>3, <2>5
<1>8. queue' = [p \in Pages |-> queue'[p]] /\ view' = [p \in Pages |-> view'[p]]
  BY DEF Send
<1>9. queue' \in [Pages -> Seq(Event)] /\ view' \in [Pages -> View]
  BY <1>5, <1>6, <1>8
<1>10. PagesWillAgree'
  BY <1>7 DEF PagesWillAgree
<1> QED BY <1>2, <1>5, <1>9, <1>10

LEMMA SinkSendKeeps ==
  ASSUME IInv, SinkSend
  PROVE  IInv'
<1> DEFINE e == Head(port)
<1>1. /\ port \in Seq(Event) /\ port # <<>> /\ Send(e) /\ port' = Tail(port)
      /\ UNCHANGED <<node, monitor>>
      /\ bus \in Bus /\ Len(bus.blocks) <= MaxBlocks /\ LeadsBus(bus, port, chain)
  BY DEF SinkSend, IInv, TypeOK, PortLeads
<1>2. e \in Event /\ Tail(port) \in Seq(Event) /\ Len(Tail(port)) = Len(port) - 1
  BY <1>1, HeadTailProperties
<1>3. /\ LeadsBus(Take(bus, e), Tail(port), chain)
      /\ Len(Take(bus, e).blocks) <= MaxBlocks
      /\ \E d : /\ IsChain(d) /\ Ends(bus.blocks, d)
                /\ \E f : Follows(d, e, f)
  BY <1>1, LeadsFrom
<1>4. PICK d : IsChain(d) /\ Ends(bus.blocks, d) /\ \E f : Follows(d, e, f)
  BY <1>3
<1> HIDE DEF e
<1>5. /\ bus' \in Bus
      /\ queue' \in [Pages -> Seq(Event)] /\ \A p \in Pages : Len(queue'[p]) <= Buffer
      /\ view' \in [Pages -> View]
      /\ PagesWillAgree'
  BY <1>1, <1>2, <1>4, SendKeeps
<1>6. bus' = Take(bus, e)
  BY <1>1 DEF Send
<1>7. PortLeads'
  BY <1>1, <1>3, <1>6 DEF PortLeads, node
<1>8. Len(port') <= PortSize
  <2>1. Len(port) \in Nat /\ Len(port) <= PortSize /\ PortSize \in Nat
    BY <1>1, LenNat, FeedAssumption DEF IInv, TypeOK
  <2> QED BY <1>1, <1>2, <2>1
<1>9. TypeOK'
  BY <1>1, <1>2, <1>5, <1>8 DEF IInv, TypeOK, node, monitor
<1>10. MonitorOrder'
  BY <1>1 DEF IInv, MonitorOrder, monitor
<1>11. MonitorRemembers'
  <2> SUFFICES ASSUME restarts = 0
               PROVE  /\ IsInjective(bus'.mempool)
                      /\ ToSet(bus'.mempool) \subseteq pending \cup found
    BY <1>1 DEF MonitorRemembers, monitor
  <2>1. IsInjective(bus.mempool) /\ ToSet(bus.mempool) \subseteq pending \cup found
    BY DEF IInv, MonitorRemembers
  <2>2. e.kind \in {"Block", "Rollback"}
    BY <1>4 DEF Follows
  <2>3. bus.mempool \in Seq(Txs)
    BY <1>1 DEF Bus
  <2>4. CASE e.kind = "Block"
    <3>1. bus'.mempool = Without(bus.mempool, e.block.txs)
      BY <1>1, <1>2, <1>6, <2>4, TakeIs
    <3>2. /\ ToSet(bus'.mempool) = ToSet(bus.mempool) \ e.block.txs
          /\ IsInjective(bus'.mempool)
      BY <2>1, <2>3, <3>1, WithoutIs
    <3> QED BY <2>1, <3>2
  <2>5. CASE e.kind = "Rollback"
    BY <1>1, <1>2, <1>6, <2>1, <2>5, TakeIs
  <2> QED BY <2>2, <2>4, <2>5
<1> QED BY <1>7, <1>5, <1>9, <1>10, <1>11 DEF IInv

-----------------------------------------------------------------------------
(* The monitor's steps *)

\* Its steps leave the node, the port and the blocks of the bus alone.
LEMMA BlocksStay ==
  ASSUME IInv, UNCHANGED <<node, port>>, bus'.blocks = bus.blocks
  PROVE  PortLeads'
BY DEF IInv, PortLeads, LeadsBus, node

\* An event of the monitor is not about blocks.
LEMMA MonitorSendKeeps ==
  ASSUME IInv, NEW e \in Event, e.kind \in {"MempoolTx", "MempoolPrune"}, Send(e),
         UNCHANGED <<node, port>>
  PROVE  /\ bus' \in Bus
         /\ queue' \in [Pages -> Seq(Event)] /\ \A p \in Pages : Len(queue'[p]) <= Buffer
         /\ view' \in [Pages -> View]
         /\ PagesWillAgree' /\ PortLeads'
<1>1. port \in Seq(Event) /\ bus \in Bus /\ LeadsBus(bus, port, chain)
  BY DEF IInv, TypeOK, PortLeads
<1>2. PICK d : IsChain(d) /\ Ends(bus.blocks, d)
  BY <1>1, LeadsNow
<1>3. ~(e.kind \in {"Block", "Rollback"})
  OBVIOUS
<1>4. bus'.blocks = bus.blocks
  BY <1>1, TakeIs DEF Send
<1>5. PortLeads'
  BY <1>4, BlocksStay
<1>6. /\ bus' \in Bus
      /\ queue' \in [Pages -> Seq(Event)] /\ \A p \in Pages : Len(queue'[p]) <= Buffer
      /\ view' \in [Pages -> View]
      /\ PagesWillAgree'
  BY <1>2, <1>3, SendKeeps
<1> QED BY <1>5, <1>6

LEMMA AcquireKeeps ==
  ASSUME IInv, Acquire
  PROVE  IInv'
<1>1. TypeOK'
  BY DEF IInv, TypeOK, Acquire, node, pages
<1>2. PortLeads' /\ PagesWillAgree'
  BY BlocksStay DEF IInv, PagesWillAgree, Acquire, pages
<1>3. MonitorOrder' /\ MonitorRemembers'
  BY DEF IInv, MonitorOrder, MonitorRemembers, Acquire
<1> QED BY <1>1, <1>2, <1>3 DEF IInv

LEMMA QueryKeeps ==
  ASSUME IInv, NEW t \in Txs, QueryNextTx(t)
  PROVE  IInv'
<1>1. /\ t \in todo /\ found' = found \cup {t} /\ todo' = todo \ {t}
      /\ UNCHANGED <<node, port, pending, passing, acquired, restarts>>
  BY DEF QueryNextTx
<1>2. MonitorOrder'
  BY <1>1 DEF IInv, MonitorOrder
<1>3. CASE t \in pending
  <2>1. UNCHANGED <<bus, pages>>
    BY <1>3 DEF QueryNextTx
  <2>2. TypeOK'
    BY <1>1, <2>1 DEF IInv, TypeOK, node, pages
  <2>3. PortLeads' /\ PagesWillAgree'
    BY <1>1, <2>1, BlocksStay DEF IInv, PagesWillAgree, pages
  <2>4. MonitorRemembers'
    BY <1>1, <2>1 DEF IInv, MonitorRemembers
  <2> QED BY <1>2, <2>2, <2>3, <2>4 DEF IInv
<1>4. CASE t \notin pending
  <2> DEFINE e == [kind |-> "MempoolTx", tx |-> t]
  <2>1. e \in Event /\ e.kind = "MempoolTx" /\ e.tx = t /\ Send(e)
    BY <1>4 DEF QueryNextTx, Event
  <2> HIDE DEF e
  <2>2. /\ bus' \in Bus
        /\ queue' \in [Pages -> Seq(Event)] /\ \A p \in Pages : Len(queue'[p]) <= Buffer
        /\ view' \in [Pages -> View]
        /\ PagesWillAgree' /\ PortLeads'
    BY <1>1, <2>1, MonitorSendKeeps
  <2>3. TypeOK'
    BY <1>1, <2>2 DEF IInv, TypeOK, node
  <2>4. MonitorRemembers'
    <3>1. bus \in Bus /\ bus.mempool \in Seq(Txs)
      BY DEF IInv, TypeOK, Bus
    <3>2. bus'.mempool = Append(bus.mempool, t)
      BY <2>1, <3>1, TakeIs DEF Send
    <3>3. /\ ToSet(bus'.mempool) = ToSet(bus.mempool) \cup {t}
          /\ (IsInjective(bus.mempool) /\ t \notin ToSet(bus.mempool))
               => IsInjective(bus'.mempool)
      <4>1. \A m \in Seq(Txs) :
              /\ ToSet(Append(m, t)) = ToSet(m) \cup {t}
              /\ (IsInjective(m) /\ t \notin ToSet(m)) => IsInjective(Append(m, t))
        BY AppendHas
      <4> QED BY <3>1, <3>2, <4>1
    <3>4. t \notin found
      BY <1>1 DEF IInv, MonitorOrder
    <3> QED BY <1>1, <1>4, <3>3, <3>4 DEF IInv, MonitorRemembers
  <2> QED BY <1>2, <2>2, <2>3, <2>4 DEF IInv
<1> QED BY <1>3, <1>4

LEMMA EndPassKeeps ==
  ASSUME IInv, EndPass
  PROVE  IInv'
<1>1. /\ passing /\ todo = {}
      /\ pending' = found /\ passing' = FALSE /\ found' = {}
      /\ UNCHANGED <<node, port, todo, acquired, restarts>>
  BY DEF EndPass, Remembered
<1>2. MonitorOrder'
  BY <1>1 DEF IInv, MonitorOrder
<1>3. CASE pending \ found = {}
  <2>1. UNCHANGED <<bus, pages>>
    BY <1>3 DEF EndPass
  <2>2. TypeOK'
    BY <1>1, <2>1 DEF IInv, TypeOK, node, pages
  <2>3. PortLeads' /\ PagesWillAgree'
    BY <1>1, <2>1, BlocksStay DEF IInv, PagesWillAgree, pages
  <2>4. MonitorRemembers'
    BY <1>1, <1>3, <2>1 DEF IInv, MonitorRemembers
  <2> QED BY <1>2, <2>2, <2>3, <2>4 DEF IInv
<1>4. CASE pending \ found # {}
  <2> DEFINE gone == pending \ found
             e == [kind |-> "MempoolPrune", removed |-> gone]
  <2>1. gone \in SUBSET Txs
    BY DEF IInv, TypeOK
  <2>2. e \in Event /\ e.kind = "MempoolPrune" /\ e.removed = gone /\ Send(e)
    BY <1>4, <2>1 DEF EndPass, Event
  <2> HIDE DEF e
  <2>3. /\ bus' \in Bus
        /\ queue' \in [Pages -> Seq(Event)] /\ \A p \in Pages : Len(queue'[p]) <= Buffer
        /\ view' \in [Pages -> View]
        /\ PagesWillAgree' /\ PortLeads'
    BY <1>1, <2>2, MonitorSendKeeps
  <2>4. TypeOK'
    BY <1>1, <2>3 DEF IInv, TypeOK, node
  <2>5. MonitorRemembers'
    <3>1. bus \in Bus /\ bus.mempool \in Seq(Txs)
      BY DEF IInv, TypeOK, Bus
    <3>2. bus'.mempool = Without(bus.mempool, gone)
      <4>1. bus' = Take(bus, e)
        BY <2>2 DEF Send
      <4>2. Take(bus, e).mempool = Without(bus.mempool, e.removed)
        BY <2>2, <3>1, TakeIs
      <4> QED BY <2>2, <4>1, <4>2, Zenon
    <3>3. /\ ToSet(bus'.mempool) = ToSet(bus.mempool) \ gone
          /\ IsInjective(bus.mempool) => IsInjective(bus'.mempool)
      BY <3>1, <3>2, WithoutIs
    <3> QED BY <1>1, <3>3 DEF IInv, MonitorRemembers
  <2> QED BY <1>2, <2>3, <2>4, <2>5 DEF IInv
<1> QED BY <1>3, <1>4

LEMMA ReconnectKeeps ==
  ASSUME IInv, Reconnect
  PROVE  IInv'
<1>1. restarts \in Nat /\ restarts' = restarts + 1
  BY DEF IInv, MonitorOrder, Reconnect
<1>2. TypeOK'
  BY DEF IInv, TypeOK, Reconnect, node, pages
<1>3. PortLeads' /\ PagesWillAgree'
  BY BlocksStay DEF IInv, PagesWillAgree, Reconnect, pages
<1>4. MonitorOrder' /\ MonitorRemembers'
  BY <1>1 DEF MonitorOrder, MonitorRemembers, Reconnect
<1> QED BY <1>2, <1>3, <1>4 DEF IInv

-----------------------------------------------------------------------------
(* The pages' steps *)

\* They leave the bus and who writes to it alone.
LEMMA BusStays ==
  ASSUME IInv, UNCHANGED <<node, port, monitor, bus>>
  PROVE  PortLeads' /\ MonitorOrder' /\ MonitorRemembers'
BY BlocksStay DEF IInv, MonitorOrder, MonitorRemembers, monitor

\* What one page does keeps PagesWillAgree if what it then holds agrees.
LEMMA PageKeeps ==
  ASSUME IInv, NEW p \in Pages, NEW v \in View, NEW q \in Seq(Event), Len(q) <= Buffer,
         view' = [view EXCEPT ![p] = v], queue' = [queue EXCEPT ![p] = q],
         UNCHANGED <<node, port, monitor, bus>>, ~v.lost => Shows(v, q, bus)
  PROVE  IInv'
<1>1. view \in [Pages -> View] /\ queue \in [Pages -> Seq(Event)]
      /\ \A r \in Pages : Len(queue[r]) <= Buffer
  BY DEF IInv, TypeOK
<1>2. /\ view' \in [Pages -> View] /\ queue' \in [Pages -> Seq(Event)]
      /\ view'[p] = v /\ queue'[p] = q
      /\ \A r \in Pages \ {p} : view'[r] = view[r] /\ queue'[r] = queue[r]
  BY <1>1
<1>3. \A r \in Pages : Len(queue'[r]) <= Buffer
  BY <1>1, <1>2
<1>4. TypeOK'
  BY <1>2, <1>3 DEF IInv, TypeOK, node, monitor
<1>5. ASSUME NEW r \in Pages, ~view'[r].lost PROVE Shows(view'[r], queue'[r], bus')
  <2>1. CASE r = p
    BY <1>2, <1>5, <2>1
  <2>2. CASE r # p
    BY <1>2, <1>5, <2>2 DEF IInv, PagesWillAgree
  <2> QED BY <2>1, <2>2
<1>6. PagesWillAgree'
  BY <1>5 DEF PagesWillAgree
<1> QED BY <1>4, <1>6, BusStays DEF IInv

LEMMA ConnectKeeps ==
  ASSUME IInv, NEW p \in Pages, Connect(p)
  PROVE  IInv'
<1>1. bus \in Bus /\ Buffer \in Nat
  BY FeedAssumption DEF IInv, TypeOK
<1>2. Opened(bus) \in View /\ Shows(Opened(bus), <<>>, bus)
  BY <1>1, OpenedAgrees, ShowsNow
<1>3. <<>> \in Seq(Event) /\ Len(<<>>) <= Buffer
  BY <1>1
<1> QED BY <1>2, <1>3, PageKeeps DEF Connect

LEMMA ShowNextKeeps ==
  ASSUME IInv, NEW p \in Pages, ShowNext(p)
  PROVE  IInv'
<1> DEFINE q == queue[p]
           v == view[p]
           w == Show(v, Head(q))
<1>1. q \in Seq(Event) /\ Len(q) <= Buffer /\ v \in View /\ q # <<>> /\ Buffer \in Nat
  BY FeedAssumption DEF IInv, TypeOK, ShowNext
<1>2. ~v.lost => Shows(v, q, bus)
  BY DEF IInv, PagesWillAgree
<1>3. /\ view' = [view EXCEPT ![p] = w] /\ queue' = [queue EXCEPT ![p] = Tail(q)]
      /\ UNCHANGED <<node, port, monitor, bus>>
  BY DEF ShowNext, IInv, TypeOK
<1> HIDE DEF q, v
<1>4. Head(q) \in Event /\ Tail(q) \in Seq(Event) /\ Len(Tail(q)) <= Buffer
  <2>1. Len(Tail(q)) = Len(q) - 1 /\ Len(q) \in Nat
    BY <1>1, HeadTailProperties
  <2> QED BY <1>1, <2>1, HeadTailProperties
<1>5. w \in View /\ w.lost = v.lost
  BY <1>1, <1>4, ShowType
<1>6. ~w.lost => Shows(w, Tail(q), bus)
  BY <1>1, <1>2, <1>5, ShowsLess
<1> HIDE DEF w
<1> QED BY <1>3, <1>4, <1>5, <1>6, PageKeeps

-----------------------------------------------------------------------------

LEMMA NextInv == IInv /\ [Next]_vars => IInv'
<1> SUFFICES ASSUME IInv, [Next]_vars PROVE IInv'
  OBVIOUS
<1>1. ASSUME NEW t \in Txs, Submit(t) \/ Evict(t) PROVE IInv'
  <2>1. pool' \in SUBSET Txs /\ UNCHANGED <<chain, port, monitor, bus, pages>>
    BY <1>1 DEF Submit, Evict, IInv, TypeOK
  <2> QED BY <2>1, PoolKeeps
<1>2. ASSUME NEW txs \in SUBSET Txs, Mint(txs) PROVE IInv'
  BY <1>2, MintKeeps
<1>3. ASSUME NEW n \in 0..MaxHeight, SwitchFork(n) PROVE IInv'
  BY <1>3, SwitchKeeps
<1>4. CASE SinkSend
  BY <1>4, SinkSendKeeps
<1>5. CASE Acquire
  BY <1>5, AcquireKeeps
<1>6. ASSUME NEW t \in Txs, QueryNextTx(t) PROVE IInv'
  BY <1>6, QueryKeeps
<1>7. CASE EndPass
  BY <1>7, EndPassKeeps
<1>8. CASE Reconnect
  BY <1>8, ReconnectKeeps
<1>9. ASSUME NEW p \in Pages, Connect(p) PROVE IInv'
  BY <1>9, ConnectKeeps
<1>10. ASSUME NEW p \in Pages, ShowNext(p) PROVE IInv'
  BY <1>10, ShowNextKeeps
<1>11. CASE UNCHANGED vars
  <2>1. IInv /\ UNCHANGED <<chain, port, pool, monitor, bus, pages>>
    BY <1>11 DEF vars, node
  <2>2. pool' \in SUBSET Txs
    BY <2>1 DEF IInv, TypeOK
  <2> QED BY <2>1, <2>2, PoolKeeps
<1> QED
  BY <1>1, <1>2, <1>3, <1>4, <1>5, <1>6, <1>7, <1>8, <1>9, <1>10, <1>11
  DEF Next, Node, Pass

LEMMA Invariance == Spec => []IInv
BY InitInv, NextInv, PTL DEF Spec

\* With what is on its way to the sink, the bus's blocks are the end of the
\* node's chain, whatever forks it switched to, and at most MaxBlocks.
THEOREM BusFollowsNode == Spec => []BusHoldsChainEnd
<1>1. IInv => BusHoldsChainEnd
  <2> SUFFICES ASSUME IInv PROVE BusHoldsChainEnd
    OBVIOUS
  <2>1. /\ TypeOK /\ bus \in Bus /\ port \in Seq(Event) /\ chain \in Seq(Block)
        /\ LeadsBus(bus, port, chain) /\ Len(bus.blocks) <= MaxBlocks
    BY DEF IInv, TypeOK, PortLeads
  <2>2. After(bus, port) \in Bus /\ Ends(After(bus, port).blocks, chain)
    BY <2>1, LeadsTo
  <2>3. After(bus, port).blocks \in Seq(Block)
    BY <2>2 DEF Bus
  <2>4. IsSuffix(After(bus, port).blocks, chain)
    BY <2>1, <2>2, <2>3, EndsIsSuffix
  <2> QED BY <2>1, <2>4 DEF BusHoldsChainEnd
<1> QED BY <1>1, Invariance, PTL

\* A page that missed no event and has shown them all agrees with the bus.
LEMMA PagesAgree ==
  ASSUME IInv, NEW p \in Pages, queue[p] = <<>>, ~view[p].lost
  PROVE  Agrees(view[p], bus)
<1>1. view[p] \in View /\ Shows(view[p], <<>>, bus)
  BY DEF IInv, TypeOK, PagesWillAgree
<1> QED BY <1>1, ShowsNow

\* It shows the bus's blocks.
THEOREM PagesShowBlocks == Spec => []PagesShowSameBlocks
<1>1. IInv => PagesShowSameBlocks
  BY PagesAgree DEF PagesShowSameBlocks, Agrees
<1> QED BY <1>1, Invariance, PTL

\* It shows the bus's pending transactions and those it is about to drop, but
\* for the ones announced again while it was about to.
THEOREM PagesShowPending == Spec => []PagesShowSamePending
<1>1. IInv => PagesShowSamePending
  BY PagesAgree DEF PagesShowSamePending, Agrees
<1> QED BY <1>1, Invariance, PTL

\* Until it reconnects, the monitor remembers every pending transaction of the
\* bus, which holds none twice.
THEOREM MonitorKnowsPending == Spec => []MonitorRemembers
<1>1. IInv => MonitorRemembers
  BY DEF IInv
<1> QED BY <1>1, Invariance, PTL
=============================================================================
