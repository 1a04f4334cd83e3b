-------------------------- MODULE FeedScroll_proofs --------------------------
(***************************************************************************)
(* Of FeedScroll, for every set of feeds, every reward and every size of a *)
(* page: it implements PagedReader, the feed it shows has no gap, and the  *)
(* stake that a stake feed shows before a block is the ledger's.           *)
(*                                                                         *)
(* A page of a pool's feed is the newest rows of the newest of each list,  *)
(* which are the newest of all rows: a row that a list did not give is     *)
(* behind a whole page of that list.  A page by slot has a row per block   *)
(* and ends at its oldest block, or earlier.  The invariant ReadInv says   *)
(* that the places a page reads from only go back by the reader's return   *)
(* to the newest edge: that of a request is not above the cursor, nor the  *)
(* cursor above its seed.                                                  *)
(*                                                                         *)
(* PageInv adds what is shown: where a row of a block behind the cursor is *)
(* not shown, the reader has been told, and the blocks that db-sync lacked *)
(* are above the places it reads from.  StakeInv adds the stake: that of a *)
(* place is the ledger's before its block, because the sum of the changes  *)
(* up to the page's top is that of the blocks walked and of the others,    *)
(* whose changes are what they withdraw.                                   *)
(***************************************************************************)
EXTENDS FeedScroll, SequenceLemmas

Row == [slot : Nat, src : Sources, id : Nat]

-----------------------------------------------------------------------------
(* The rows of a history *)

\* The order of rows is that of their ids, and no two have the same.
Ordered(rows) ==
  /\ IsFiniteSet(rows) /\ rows \subseteq Row
  /\ \A r, t \in rows : NewerRow(r, t) <=> r.id > t.id
  /\ \A r, t \in rows : r.id = t.id => r = t

LEMMA RowAt ==
  ASSUME NEW f \in Feeds, NEW n \in 0..Len(f.history), NEW r \in Rows(f.history, n)
  PROVE  \E s \in 1..n : \E i \in 1..MaxRows :
           /\ i <= Len(f.history[s].rows)
           /\ f.history[s].rows[i] \in Sources
           /\ r = [slot |-> s, src |-> f.history[s].rows[i], id |-> RowId(s, i)]
<1> DEFINE H == f.history
<1>1. PICK s \in 1..n : \E i \in DOMAIN H[s].rows :
        r = [slot |-> s, src |-> H[s].rows[i], id |-> RowId(s, i)]
  BY DEF Rows
<1>2. H \in Seq(Blocks) /\ Len(H[s].rows) <= MaxRows
  BY <1>1, FeedsAssumption DEF MaxRows
<1>3. H[s] \in Blocks
  BY <1>1, <1>2
<1>4. H[s].rows \in Seq(Sources)
  BY <1>3 DEF Blocks
<1>5. PICK i \in DOMAIN H[s].rows :
        r = [slot |-> s, src |-> H[s].rows[i], id |-> RowId(s, i)]
  BY <1>1
<1>6. i \in 1..MaxRows /\ i <= Len(H[s].rows) /\ H[s].rows[i] \in Sources
  BY <1>2, <1>4, <1>5 DEF MaxRows
<1> QED BY <1>1, <1>5, <1>6

LEMMA RowsOrdered ==
  ASSUME NEW f \in Feeds, NEW n \in 0..Len(f.history)
  PROVE  Ordered(Rows(f.history, n))
<1> DEFINE H == f.history
           R == Rows(H, n)
           top == MaxRows * n + MaxRows
<1>1. n \in Nat
  BY FeedsAssumption
<1>2. ASSUME NEW r \in R
      PROVE  \E s \in 1..n, i \in 1..3 : r.slot = s /\ r.id = 3 * s + i /\ r \in Row
                /\ r = [slot |-> s, src |-> H[s].rows[i], id |-> 3 * s + i]
  <2>1. PICK s \in 1..n, i \in 1..3 :
          /\ H[s].rows[i] \in Sources
          /\ r = [slot |-> s, src |-> H[s].rows[i], id |-> RowId(s, i)]
    BY RowAt DEF MaxRows
  <2>2. RowId(s, i) = 3 * s + i /\ 3 * s + i \in Nat /\ s \in Nat
    BY <1>1 DEF RowId, MaxRows
  <2> QED BY <2>1, <2>2 DEF Row
<1> HIDE DEF R
<1>3. ASSUME NEW r \in R, NEW t \in R
      PROVE  (NewerRow(r, t) <=> r.id > t.id) /\ (r.id = t.id => r = t)
  <2>1. PICK s \in 1..n, i \in 1..3 : r.slot = s /\ r.id = 3 * s + i
          /\ r = [slot |-> s, src |-> H[s].rows[i], id |-> 3 * s + i]
    BY <1>2
  <2>2. PICK u \in 1..n, j \in 1..3 : t.slot = u /\ t.id = 3 * u + j
          /\ t = [slot |-> u, src |-> H[u].rows[j], id |-> 3 * u + j]
    BY <1>2
  <2>3. r.id = t.id => s = u /\ i = j
    BY <1>1, <2>1, <2>2
  <2>4. r.id = t.id => r = t
    BY <2>1, <2>2, <2>3
  <2>5. NewerRow(r, t) <=> r.id > t.id
    BY <1>1, <2>1, <2>2 DEF NewerRow
  <2> QED BY <2>4, <2>5
<1>4. R \subseteq Row
  BY <1>2
<1>5. IsFiniteSet(R)
  <2> DEFINE id == [r \in R |-> r.id]
  <2>1. top \in Nat
    BY <1>1 DEF MaxRows
  <2>2. ASSUME NEW r \in R PROVE r.id \in 0..top
    <3>1. PICK s \in 1..n, i \in 1..3 : r.id = 3 * s + i
      BY <1>2
    <3> QED BY <1>1, <3>1 DEF MaxRows
  <2> HIDE DEF top
  <2>3. id \in [R -> 0..top]
    BY <2>2
  <2>4. id \in Injection(R, 0..top)
    BY <1>3, <2>3 DEF Injection, IsInjective
  <2>5. IsFiniteSet(0..top)
    BY <2>1, FS_Interval
  <2> QED BY <2>4, <2>5, FS_Injection
<1> QED BY <1>3, <1>4, <1>5 DEF Ordered, R

LEMMA OrderedSubset ==
  ASSUME NEW R, Ordered(R), NEW S, S \subseteq R
  PROVE  Ordered(S)
BY FS_Subset DEF Ordered

\* A feed by slot has one row of a block.
LEMMA OneRow ==
  ASSUME NEW f \in Feeds, f.kind \in {"stake", "address"},
         NEW n \in 0..Len(f.history),
         NEW r \in Rows(f.history, n), NEW t \in Rows(f.history, n), r.slot = t.slot
  PROVE  r = t
<1> DEFINE H == f.history
<1>1. PICK s \in 1..n, i \in 1..MaxRows :
        /\ i <= Len(H[s].rows)
        /\ r = [slot |-> s, src |-> H[s].rows[i], id |-> RowId(s, i)]
  BY RowAt
<1>2. PICK u \in 1..n, j \in 1..MaxRows :
        /\ j <= Len(H[u].rows)
        /\ t = [slot |-> u, src |-> H[u].rows[j], id |-> RowId(u, j)]
  BY RowAt
<1>3. s = u
  BY <1>1, <1>2
<1>4. Len(H[s].rows) <= 1 /\ Len(H[s].rows) \in Nat
  <2>1. H \in Seq(Blocks) /\ Len(H[s].rows) <= 1
    BY FeedsAssumption
  <2>2. H[s] \in Blocks
    BY <2>1
  <2>3. H[s].rows \in Seq(Sources)
    BY <2>2 DEF Blocks
  <2> QED BY <2>1, <2>3
<1>5. i = 1 /\ j = 1
  BY <1>1, <1>2, <1>3, <1>4 DEF MaxRows
<1> QED BY <1>1, <1>2, <1>3, <1>5

\* db-sync only gains rows.
LEMMA RowsGrow ==
  ASSUME NEW f \in Feeds, NEW n \in 0..Len(f.history), NEW m \in 0..n
  PROVE  Rows(f.history, m) \subseteq Rows(f.history, n)
BY FeedsAssumption DEF Rows

-----------------------------------------------------------------------------
(* The newest rows, the newest slots *)

LEMMA NewestRowsAreTop ==
  ASSUME NEW R, Ordered(R)
  PROVE  /\ NewestRows(R) \subseteq R
         /\ IsFiniteSet(NewestRows(R)) /\ Cardinality(NewestRows(R)) <= PageSize
         /\ \A r \in NewestRows(R), t \in R : NewerRow(t, r) => t \in NewestRows(R)
         /\ NewestRows(R) # R => Cardinality(NewestRows(R)) >= PageSize
<1> DEFINE key == [r \in R |-> r.id]
<1>1. Keyed(R, key) /\ IsFiniteSet(R)
  BY DEF Keyed, Ordered, Row
<1>2. \A r \in R : AheadOf(R, key, r) = {t \in R : NewerRow(t, r)}
  BY DEF AheadOf, Ordered
<1> HIDE DEF key
<1>3. NewestRows(R) = TopOf(R, key, PageSize)
  BY <1>2 DEF NewestRows, TopOf
<1>4. PageSize \in Nat \ {0}
  BY ReplayAssumption
<1>5. ASSUME NEW r \in NewestRows(R), NEW t \in R, NewerRow(t, r)
      PROVE  t \in NewestRows(R)
  <2>1. t \in AheadOf(R, key, r)
    BY <1>2, <1>5 DEF NewestRows
  <2> QED BY <1>1, <1>3, <1>4, <2>1, TopIsAhead
<1>6. NewestRows(R) \subseteq R
  BY DEF NewestRows
<1>7. IsFiniteSet(NewestRows(R)) /\ Cardinality(NewestRows(R)) <= PageSize
  BY <1>1, <1>3, <1>4, TopIsFew
<1>8. NewestRows(R) # R => Cardinality(NewestRows(R)) >= PageSize
  BY <1>1, <1>3, <1>4, TopIsFull
<1> QED BY <1>5, <1>6, <1>7, <1>8

LEMMA NewestSlotsAreTop ==
  ASSUME NEW S, IsFiniteSet(S), S \subseteq Nat
  PROVE  /\ NewestSlots(S) \subseteq S
         /\ IsFiniteSet(NewestSlots(S)) /\ Cardinality(NewestSlots(S)) <= PageSize
         /\ \A s \in NewestSlots(S), t \in S : t > s => t \in NewestSlots(S)
         /\ NewestSlots(S) # S => Cardinality(NewestSlots(S)) >= PageSize
<1> DEFINE key == [s \in S |-> s]
<1>1. Keyed(S, key)
  BY DEF Keyed
<1>2. \A s \in S : AheadOf(S, key, s) = {t \in S : t > s}
  BY DEF AheadOf
<1> HIDE DEF key
<1>3. NewestSlots(S) = TopOf(S, key, PageSize)
  BY <1>2 DEF NewestSlots, TopOf
<1>4. PageSize \in Nat \ {0}
  BY ReplayAssumption
<1>5. ASSUME NEW s \in NewestSlots(S), NEW t \in S, t > s
      PROVE  t \in NewestSlots(S)
  <2>1. t \in AheadOf(S, key, s)
    BY <1>2, <1>5 DEF NewestSlots
  <2> QED BY <1>1, <1>3, <1>4, <2>1, TopIsAhead
<1>6. NewestSlots(S) \subseteq S
  BY DEF NewestSlots
<1>7. IsFiniteSet(NewestSlots(S)) /\ Cardinality(NewestSlots(S)) <= PageSize
  BY <1>1, <1>3, <1>4, TopIsFew
<1>8. NewestSlots(S) # S => Cardinality(NewestSlots(S)) >= PageSize
  BY <1>1, <1>3, <1>4, TopIsFull
<1> QED BY <1>5, <1>6, <1>7, <1>8

-----------------------------------------------------------------------------
(* A page of a pool's or a DRep's feed *)

Unseen(rows, before) == {r \in rows : r.id < before[r.src]}

\* The page cut from the newest of each list is the newest of all that is
\* unseen (older_pool_drep), and if there is no more it is all of it.
THEOREM MergedPageIsNewest ==
  ASSUME NEW R, Ordered(R), NEW before \in [Sources -> Nat]
  PROVE  LET unseen == Unseen(R, before)
             cut == MergedPage(R, before)
         IN  /\ cut \subseteq unseen /\ Cardinality(cut) <= PageSize
             /\ \A r \in cut, t \in unseen \ cut : NewerRow(r, t)
             /\ ~HasMore(R, before, cut) => cut = unseen
<1> DEFINE U == Unseen(R, before)
           P == MergedPage(R, before)
           Of(src) == {r \in R : r.src = src /\ r.id < before[src]}
           A == AllFetched(R, before)
<1>1. \A src \in Sources : Of(src) \subseteq U /\ Ordered(Of(src))
  BY OrderedSubset DEF Unseen
<1>2. \A src \in Sources : Fetched(R, before, src) = NewestRows(Of(src))
  BY DEF Fetched
<1>3. \A src \in Sources : Fetched(R, before, src) \subseteq Of(src)
  BY <1>1, <1>2, NewestRowsAreTop
<1>4. A \subseteq U
  <2>1. \A src \in Sources : Fetched(R, before, src) \subseteq U
    BY <1>1, <1>3
  <2> HIDE DEF U
  <2> QED BY <2>1 DEF AllFetched
<1>5. U \subseteq R /\ Ordered(U) /\ Ordered(A)
  BY <1>4, OrderedSubset DEF Unseen
<1>6. P = NewestRows(A)
  BY DEF MergedPage
<1>7. P \subseteq A /\ IsFiniteSet(P) /\ Cardinality(P) <= PageSize
  BY <1>5, <1>6, NewestRowsAreTop
<1>8. \A t \in U : t.src \in Sources /\ t \in Of(t.src)
  BY DEF Unseen, Ordered, Row
<1>9. PageSize \in Nat
  BY ReplayAssumption
<1> HIDE DEF U, P, A
<1>10. ASSUME NEW r \in P, NEW t \in U \ P
       PROVE  NewerRow(r, t)
  <2>1. r \in R /\ t \in R /\ r # t /\ r.id \in Nat /\ t.id \in Nat
    BY <1>4, <1>5, <1>7 DEF Ordered, Row
  <2>2. SUFFICES ASSUME NewerRow(t, r) PROVE FALSE
    BY <2>1 DEF Ordered
  <2>3. CASE t \in A
    BY <1>5, <1>6, <2>2, <2>3, NewestRowsAreTop
  <2>4. CASE t \notin A
    <3> DEFINE F == Fetched(R, before, t.src)
    <3>1. t.src \in Sources /\ t \in Of(t.src) /\ t \notin F
      BY <1>8, <2>4 DEF A, AllFetched
    <3>2. Ordered(Of(t.src)) /\ F = NewestRows(Of(t.src)) /\ F \subseteq A
      BY <1>1, <1>2, <3>1 DEF A, AllFetched
    <3>3. Cardinality(F) >= PageSize /\ IsFiniteSet(F)
      BY <3>1, <3>2, NewestRowsAreTop
    <3> HIDE DEF F
    <3>4. ASSUME NEW x \in F PROVE NewerRow(x, r)
      <4>1. x \in Of(t.src) /\ x \in R /\ x # t
        BY <3>1, <3>2, NewestRowsAreTop
      <4>2. ~NewerRow(t, x)
        BY <3>1, <3>2, NewestRowsAreTop
      <4>3. x.id > t.id
        BY <2>1, <4>1, <4>2 DEF Ordered, Row
      <4>4. x.id > r.id
        BY <2>1, <2>2, <4>1, <4>3 DEF Ordered, Row
      <4> QED BY <2>1, <4>1, <4>4 DEF Ordered
    <3> DEFINE Over == {x \in A : NewerRow(x, r)}
    <3>5. F \in SUBSET Over /\ Over \in SUBSET A
      BY <3>2, <3>4
    <3>6. IsFiniteSet(Over) /\ Cardinality(F) <= Cardinality(Over)
      BY <1>5, <3>5, FS_Subset DEF Ordered
    <3>7. Cardinality(Over) < PageSize
      BY <1>6 DEF NewestRows
    <3>8. Cardinality(F) \in Nat /\ Cardinality(Over) \in Nat
      BY <3>3, <3>6, FS_CardinalityType
    <3> QED BY <1>9, <3>3, <3>6, <3>7, <3>8
  <2> QED BY <2>3, <2>4
<1>11. ASSUME ~HasMore(R, before, P) PROVE P = U
  <2>1. A = P /\ \A src \in Sources : Cardinality(Fetched(R, before, src)) # PageSize
    BY <1>11 DEF HasMore, A
  <2>2. ASSUME NEW t \in U PROVE t \in A
    <3>1. t.src \in Sources /\ t \in Of(t.src)
      BY <1>8
    <3> DEFINE F == Fetched(R, before, t.src)
    <3>2. Ordered(Of(t.src)) /\ F = NewestRows(Of(t.src)) /\ F \subseteq A
      BY <1>1, <1>2, <3>1 DEF A, AllFetched
    <3>3. /\ IsFiniteSet(F) /\ Cardinality(F) <= PageSize
          /\ F # Of(t.src) => Cardinality(F) >= PageSize
      BY <3>2, NewestRowsAreTop
    <3>4. Cardinality(F) \in Nat /\ Cardinality(F) # PageSize
      BY <2>1, <3>1, <3>3, FS_CardinalityType
    <3>5. F = Of(t.src)
      BY <1>9, <3>3, <3>4
    <3> QED BY <3>1, <3>2, <3>5
  <2> QED BY <1>4, <2>1, <2>2
<1> QED BY <1>4, <1>7, <1>10, <1>11 DEF U, P

\* The place after a page leaves exactly the rest ahead, and is not above the
\* place before it.
LEMMA NextCursorIsBelow ==
  ASSUME NEW R, Ordered(R), NEW before \in [Sources -> Nat]
  PROVE  LET cut == MergedPage(R, before)
             next == NextCursor(R, before, cut)
         IN  /\ next \in [Sources -> Nat]
             /\ \A src \in Sources : next[src] <= before[src]
             /\ Unseen(R, next) = Unseen(R, before) \ cut
<1> DEFINE U == Unseen(R, before)
           P == MergedPage(R, before)
           Ids(src) == {r.id : r \in {t \in P : t.src = src}} \cup {before[src]}
           next == [src \in Sources |-> Min(Ids(src))]
<1>1. P \subseteq U /\ \A r \in P, t \in U \ P : NewerRow(r, t)
  BY MergedPageIsNewest
<1>2. U \subseteq R /\ R \subseteq Row
  BY DEF Unseen, Ordered
<1>3. ASSUME NEW src \in Sources
      PROVE  /\ Min(Ids(src)) \in Ids(src) /\ Min(Ids(src)) \in Nat
             /\ \A y \in Ids(src) : Min(Ids(src)) <= y
  <2>1. Ids(src) \subseteq Nat /\ Ids(src) # {}
    BY <1>1, <1>2 DEF Row
  <2> HIDE DEF Ids
  <2> QED BY <2>1, MinIndex
<1>4. next \in [Sources -> Nat] /\ \A src \in Sources : next[src] <= before[src]
  BY <1>3
<1>5. NextCursor(R, before, P) = next
  BY DEF NextCursor
<1> HIDE DEF P
<1>6. ASSUME NEW r \in R PROVE r.id < next[r.src] <=> r \in U \ P
  <2>1. r.src \in Sources /\ r.id \in Nat /\ before[r.src] \in Nat
    BY <1>2 DEF Row
  <2> DEFINE m == Min(Ids(r.src))
  <2>2. next[r.src] = m /\ m \in Nat /\ m <= before[r.src]
        /\ \A p \in P : p.src = r.src => m <= p.id
    BY <1>3, <2>1
  <2>3. m = before[r.src] \/ \E p \in P : p.src = r.src /\ p.id = m
    BY <1>3, <2>1
  <2> HIDE DEF m, next
  <2>4. ASSUME r.id < m PROVE r \in U \ P
    <3>1. r \in U
      BY <2>1, <2>2, <2>4 DEF Unseen
    <3>2. r \notin P
      BY <2>1, <2>2, <2>4
    <3> QED BY <3>1, <3>2
  <2>5. ASSUME r \in U \ P PROVE r.id < m
    <3>1. r.id < before[r.src]
      BY <2>5 DEF Unseen
    <3>2. ASSUME NEW p \in P PROVE r.id < p.id
      BY <1>1, <1>2, <2>5 DEF Ordered
    <3> QED BY <2>3, <3>1, <3>2
  <2> QED BY <2>2, <2>4, <2>5
<1>7. Unseen(R, next) = U \ P
  BY <1>1, <1>2, <1>6 DEF Unseen
<1> QED BY <1>4, <1>5, <1>7 DEF P

-----------------------------------------------------------------------------
(* A page of a stake credential's or an address's feed *)

ByBlock(f) == f.kind \in {"stake", "address"}

\* The rows of the blocks of a page are a page.
LEMMA RowsOfSlots ==
  ASSUME NEW f \in Feeds, ByBlock(f), NEW n \in 0..Len(f.history),
         NEW slots, IsFiniteSet(slots), Cardinality(slots) <= PageSize,
         NEW S, S \subseteq Rows(f.history, n), \A r \in S : r.slot \in slots
  PROVE  /\ Cardinality(S) <= PageSize
         /\ Cardinality(slots) < PageSize => Cardinality(S) < PageSize
<1> DEFINE at == [r \in S |-> r.slot]
<1>1. ASSUME NEW r \in S, NEW t \in S, r.slot = t.slot PROVE r = t
  BY <1>1, OneRow DEF ByBlock
<1>2. at \in Injection(S, slots)
  BY <1>1 DEF Injection, IsInjective
<1>3. IsFiniteSet(S) /\ Cardinality(S) <= Cardinality(slots)
  BY <1>2, FS_Injection
<1>4. Cardinality(S) \in Nat /\ Cardinality(slots) \in Nat /\ PageSize \in Nat
  BY <1>3, FS_CardinalityType, ReplayAssumption
<1> QED BY <1>3, <1>4

LEMMA RowTouches ==
  ASSUME NEW f \in Feeds, NEW n \in 0..Len(f.history), NEW r \in Rows(f.history, n)
  PROVE  r.slot \in Touching(f.history, n) /\ r.slot \in Nat
<1>1. PICK s \in 1..n, i \in 1..MaxRows :
        /\ i <= Len(f.history[s].rows)
        /\ f.history[s].rows[i] \in Sources
        /\ r = [slot |-> s, src |-> f.history[s].rows[i], id |-> RowId(s, i)]
  BY RowAt
<1>2. n \in Nat
  <2>1. f.history \in Seq(Blocks)
    BY FeedsAssumption
  <2> QED BY <2>1
<1>3. r.slot = s
  BY <1>1
<1>4. f.history[s].rows # <<>>
  BY <1>1 DEF MaxRows
<1> QED BY <1>2, <1>3, <1>4 DEF Touching

\* The blocks of a page are the newest ones below its place.
LEMMA RecentBlocksAreTop ==
  ASSUME NEW f \in Feeds, NEW n \in 0..Len(f.history), NEW before \in Nat
  PROVE  LET below == {s \in Touching(f.history, n) : s < before}
             slots == RecentBlocks(f.history, n, before)
         IN  /\ slots \subseteq below /\ below \subseteq 1..n
             /\ IsFiniteSet(slots) /\ Cardinality(slots) <= PageSize
             /\ \A s \in slots, t \in below : t > s => t \in slots
             /\ Cardinality(slots) < PageSize => slots = below
<1> DEFINE below == {s \in Touching(f.history, n) : s < before}
           slots == RecentBlocks(f.history, n, before)
<1>1. n \in Nat
  BY FeedsAssumption
<1>2. below \in SUBSET (1..n) /\ below \subseteq Nat
  BY <1>1 DEF Touching
<1>3. slots = NewestSlots(below)
  BY DEF RecentBlocks
<1> HIDE DEF below, slots
<1>4. IsFiniteSet(below)
  <2>1. IsFiniteSet(1..n)
    BY <1>1, FS_Interval
  <2> QED BY <1>2, <2>1, FS_Subset
<1>5. /\ slots \subseteq below /\ IsFiniteSet(slots) /\ Cardinality(slots) <= PageSize
      /\ \A s \in slots, t \in below : t > s => t \in slots
      /\ slots # below => Cardinality(slots) >= PageSize
  BY <1>2, <1>3, <1>4, NewestSlotsAreTop
<1>6. Cardinality(slots) \in Nat /\ PageSize \in Nat
  BY <1>5, FS_CardinalityType, ReplayAssumption
<1>7. Cardinality(slots) < PageSize => slots = below
  BY <1>5, <1>6
<1> QED BY <1>2, <1>5, <1>7 DEF below, slots

UnseenBelow(rows, slot) == {r \in rows : r.slot < slot}

\* Going on below a block of a page leaves out the newest rows, a page at most.
LEMMA SlotPageIsNewest ==
  ASSUME NEW f \in Feeds, ByBlock(f), NEW n \in 0..Len(f.history), NEW before \in Nat,
         NEW slot \in RecentBlocks(f.history, n, before)
  PROVE  LET unseen == UnseenBelow(Rows(f.history, n), before)
             left == UnseenBelow(Rows(f.history, n), slot)
         IN  /\ slot \in Nat /\ slot < before /\ left \subseteq unseen
             /\ Cardinality(unseen \ left) <= PageSize
             /\ \A r \in unseen \ left, t \in left : NewerRow(r, t)
<1> DEFINE R == Rows(f.history, n)
           unseen == UnseenBelow(R, before)
           left == UnseenBelow(R, slot)
           below == {s \in Touching(f.history, n) : s < before}
           slots == RecentBlocks(f.history, n, before)
<1>1. n \in Nat
  BY FeedsAssumption
<1>2. /\ slots \subseteq below /\ below \subseteq 1..n
      /\ IsFiniteSet(slots) /\ Cardinality(slots) <= PageSize
      /\ \A s \in slots, t \in below : t > s => t \in slots
  BY RecentBlocksAreTop
<1>3. \A r \in R : r.slot \in Touching(f.history, n) /\ r.slot \in Nat
  BY RowTouches
<1>4. slot \in Nat /\ slot < before
  BY <1>1, <1>2
<1> HIDE DEF R, slots
<1>5. ASSUME NEW r \in unseen \ left PROVE r \in R /\ r.slot \in slots
  <2>1. r \in R /\ r.slot < before /\ ~(r.slot < slot)
    BY DEF UnseenBelow
  <2>2. r.slot \in below /\ r.slot \in Nat
    BY <1>3, <2>1
  <2>3. slot \in slots
    BY DEF slots
  <2>4. r.slot = slot \/ r.slot > slot
    BY <1>4, <2>1, <2>2
  <2> QED BY <1>2, <2>1, <2>2, <2>3, <2>4
<1>6. left \subseteq unseen
  BY <1>3, <1>4 DEF UnseenBelow
<1>7. ASSUME NEW r \in unseen \ left, NEW t \in left PROVE NewerRow(r, t)
  BY <1>3, <1>4 DEF UnseenBelow, NewerRow
<1> HIDE DEF unseen, left
<1>8. Cardinality(unseen \ left) <= PageSize
  BY <1>2, <1>5, RowsOfSlots DEF R
<1> QED BY <1>4, <1>6, <1>7, <1>8 DEF R, unseen, left

\* A short page of blocks is all that is left.
LEMMA ShortSlotPage ==
  ASSUME NEW f \in Feeds, ByBlock(f), NEW n \in 0..Len(f.history), NEW before \in Nat,
         Cardinality(RecentBlocks(f.history, n, before)) < PageSize
  PROVE  Cardinality(UnseenBelow(Rows(f.history, n), before)) <= PageSize
<1> DEFINE R == Rows(f.history, n)
           unseen == UnseenBelow(R, before)
           below == {s \in Touching(f.history, n) : s < before}
           slots == RecentBlocks(f.history, n, before)
<1>1. slots = below /\ IsFiniteSet(slots) /\ Cardinality(slots) <= PageSize
  BY RecentBlocksAreTop
<1>2. \A r \in R : r.slot \in Touching(f.history, n)
  BY RowTouches
<1> HIDE DEF R, slots
<1>3. \A r \in unseen : r \in R /\ r.slot \in slots
  BY <1>1, <1>2 DEF UnseenBelow
<1> HIDE DEF unseen
<1>4. Cardinality(unseen) <= PageSize
  BY <1>1, <1>3, RowsOfSlots DEF R
<1> QED BY <1>4 DEF R, unseen

-----------------------------------------------------------------------------
(* The places of a reader *)

Before(c) == Head(c).before

IsPlace(f, c) ==
  c # <<>> => /\ Before(c) \in [Sources -> Nat]
              /\ ByBlock(f) => \A src \in Sources : Before(c)[src] = Before(c)["touch"]

NotAbove(c, d) ==
  c # <<>> => d # <<>> /\ \A src \in Sources : Before(c)[src] <= Before(d)[src]

ReadInv ==
  /\ feed \in Feeds /\ applied \in 0..Len(History) /\ synced \in 0..Len(History)
  /\ page \subseteq Nat
  /\ IsPlace(feed, cursor) /\ IsPlace(feed, seed) /\ IsPlace(feed, pending)
  /\ NotAbove(pending, cursor) /\ NotAbove(cursor, seed)
  /\ done \in BOOLEAN
  /\ done \/ task # "live" => pending = <<>>
  /\ task # "live" => ~done

\* Not above is transitive.
LEMMA NotAboveTrans ==
  ASSUME NEW f, NEW c, NEW d, NEW e, IsPlace(f, c), IsPlace(f, d), IsPlace(f, e),
         NotAbove(c, d), NotAbove(d, e)
  PROVE  NotAbove(c, e)
<1>1. SUFFICES ASSUME c # <<>>, NEW src \in Sources
               PROVE  e # <<>> /\ Before(c)[src] <= Before(e)[src]
  BY DEF NotAbove
<1>2. d # <<>> /\ e # <<>>
  BY <1>1 DEF NotAbove
<1>3. Before(c)[src] \in Nat /\ Before(d)[src] \in Nat /\ Before(e)[src] \in Nat
  BY <1>1, <1>2 DEF IsPlace
<1> QED BY <1>1, <1>2, <1>3 DEF NotAbove

LEMMA NotAboveItself ==
  ASSUME NEW f, NEW c, IsPlace(f, c)
  PROVE  NotAbove(c, c)
BY DEF IsPlace, NotAbove

LEMMA BeforePlace ==
  ASSUME NEW b, NEW e, NEW k
  PROVE  <<Place(b, e, k)>> # <<>> /\ Before(<<Place(b, e, k)>>) = b
<1>1. Head(<<Place(b, e, k)>>) = Place(b, e, k) /\ <<Place(b, e, k)>> # <<>>
  OBVIOUS
<1>2. Place(b, e, k).before = b
  BY DEF Place
<1> QED BY <1>1, <1>2 DEF Before

\* The place after a page of blocks is below a block of the page, or the very
\* first, if a walk got no block; without a place the page was short.
GoesOn(slots, walked, next) ==
  /\ next # <<>> /\ ~(Cardinality(slots) < PageSize)
  /\ \E m \in slots \cup {0} : Before(next) = Below(m) /\ (m \in slots \/ walked = {})

LEMMA SlotPlaceIs ==
  ASSUME NEW slots, slots \subseteq Nat, NEW walked \in SUBSET slots, NEW anchor
  PROVE  LET next == SlotPlace(slots, walked, anchor)
         IN  \/ next = <<>> /\ Cardinality(slots) < PageSize
             \/ GoesOn(slots, walked, next)
<1> DEFINE next == SlotPlace(slots, walked, anchor)
<1>1. CASE Cardinality(slots) < PageSize
  BY <1>1 DEF SlotPlace
<1>2. CASE ~(Cardinality(slots) < PageSize) /\ feed.kind = "stake"
  <2>1. next = <<WalkPlace(slots, walked, anchor)>>
    BY <1>2 DEF SlotPlace
  <2>2. CASE walked = {}
    <3>1. next = <<Place(Below(0), 0, anchor.stake)>>
      BY <2>1, <2>2 DEF WalkPlace
    <3> HIDE DEF next
    <3>2. next # <<>> /\ Before(next) = Below(0)
      BY <3>1, BeforePlace
    <3>3. GoesOn(slots, walked, next)
      BY <1>2, <2>2, <3>2 DEF GoesOn
    <3> QED BY <3>3 DEF next
  <2>3. CASE walked # {}
    <3>1. Min(walked) \in slots
      BY <2>3, MinIndex
    <3>2. next = <<Place(Below(Min(walked)), History[Min(walked)].epoch,
                         PreBlockStake(History, synced, slots, walked, anchor))>>
      BY <2>1, <2>3 DEF WalkPlace
    <3> HIDE DEF next
    <3>3. next # <<>> /\ Before(next) = Below(Min(walked))
      BY <3>2, BeforePlace
    <3>4. GoesOn(slots, walked, next)
      BY <1>2, <3>1, <3>3 DEF GoesOn
    <3> QED BY <3>4 DEF next
  <2> QED BY <2>2, <2>3
<1>3. CASE ~(Cardinality(slots) < PageSize) /\ feed.kind # "stake"
  <2>1. next = <<Place(Below(Min(slots)), 0, 0)>>
    BY <1>3 DEF SlotPlace
  <2>2. slots # {}
    <3>1. Cardinality({}) = 0 /\ PageSize \in Nat \ {0}
      BY FS_EmptySet, ReplayAssumption
    <3> QED BY <1>3, <3>1
  <2>3. Min(slots) \in slots
    BY <2>2, MinIndex
  <2> HIDE DEF next
  <2>4. next # <<>> /\ Before(next) = Below(Min(slots))
    BY <2>1, BeforePlace
  <2>5. GoesOn(slots, walked, next)
    BY <1>3, <2>3, <2>4 DEF GoesOn
  <2> QED BY <2>5 DEF next
<1> QED BY <1>1, <1>2, <1>3

LEMMA SlotPlaceGoesOn ==
  ASSUME NEW slots, slots \subseteq Nat, NEW walked \in SUBSET slots, NEW anchor
  PROVE  LET next == SlotPlace(slots, walked, anchor)
         IN  /\ next = <<>> => Cardinality(slots) < PageSize
             /\ next # <<>> => /\ ~(Cardinality(slots) < PageSize)
                               /\ \E m \in slots \cup {0} :
                                    Before(next) = Below(m) /\ (m \in slots \/ walked = {})
<1> DEFINE next == SlotPlace(slots, walked, anchor)
<1>1. \/ next = <<>> /\ Cardinality(slots) < PageSize
      \/ GoesOn(slots, walked, next)
  BY SlotPlaceIs
<1> HIDE DEF next
<1>2. /\ next = <<>> => Cardinality(slots) < PageSize
      /\ next # <<>> => GoesOn(slots, walked, next)
  BY <1>1 DEF GoesOn
<1> QED BY <1>2 DEF GoesOn, next

-----------------------------------------------------------------------------
(* The invariant *)

\* Where a page by slot goes on.
LEMMA SlotPlaceNext ==
  ASSUME NEW f \in Feeds, NEW slots, slots \subseteq Nat,
         NEW walked \in SUBSET slots, NEW anchor
  PROVE  IsPlace(f, SlotPlace(slots, walked, anchor))
<1> DEFINE next == SlotPlace(slots, walked, anchor)
<1>1. SUFFICES ASSUME next # <<>> PROVE IsPlace(f, next)
  BY DEF IsPlace
<1>2. PICK m \in slots \cup {0} : Before(next) = Below(m)
  BY <1>1, SlotPlaceGoesOn
<1> HIDE DEF next
<1>3. m \in Nat
  OBVIOUS
<1>4. Before(next) \in [Sources -> Nat] /\ \A src \in Sources : Before(next)[src] = m
  BY <1>2, <1>3 DEF Below
<1>5. "touch" \in Sources
  BY DEF Sources
<1> QED BY <1>4, <1>5 DEF IsPlace

LEMMA SlotPlaceBelow ==
  ASSUME NEW f \in Feeds, ByBlock(f), NEW c, c # <<>>, IsPlace(f, c),
         NEW n \in 0..Len(f.history),
         NEW walked \in SUBSET RecentBlocks(f.history, n, Before(c)["touch"]), NEW anchor
  PROVE  NotAbove(SlotPlace(RecentBlocks(f.history, n, Before(c)["touch"]), walked, anchor), c)
<1> DEFINE b == Before(c)["touch"]
           slots == RecentBlocks(f.history, n, b)
           next == SlotPlace(slots, walked, anchor)
<1>1. b \in Nat /\ \A src \in Sources : Before(c)[src] = b
  BY DEF IsPlace, Sources
<1>2. slots \subseteq Nat /\ \A s \in slots : s < b
  <2>1. n \in Nat
    BY FeedsAssumption
  <2>2. /\ slots \subseteq {s \in Touching(f.history, n) : s < b}
        /\ {s \in Touching(f.history, n) : s < b} \subseteq 1..n
    BY <1>1, RecentBlocksAreTop
  <2> QED BY <2>1, <2>2
<1>3. SUFFICES ASSUME next # <<>> PROVE NotAbove(next, c)
  BY DEF NotAbove
<1> HIDE DEF b, slots
<1>4. PICK m \in slots \cup {0} : Before(next) = Below(m)
  BY <1>2, <1>3, SlotPlaceGoesOn DEF slots, b
<1> HIDE DEF next
<1>5. m <= b
  BY <1>1, <1>2
<1> QED BY <1>1, <1>4, <1>5 DEF NotAbove, Below

LEMMA ReadInvInit == Init => ReadInv
<1>1. SUFFICES ASSUME Init PROVE ReadInv
  OBVIOUS
<1>2. History \in Seq(Blocks)
  BY <1>1, FeedsAssumption DEF Init, History
<1>3. Len(History) \in Nat /\ Start \in Nat
  BY <1>2, ScrollAssumption
<1>4. applied \in 0..Len(History) /\ synced \in 0..Len(History)
  BY <1>1, <1>3 DEF Init
<1> QED BY <1>1, <1>4 DEF Init, ReadInv, IsPlace, NotAbove

\* What a response does to the places (Take).
LEMMA TakeInv ==
  ASSUME ReadInv, NEW slots, NEW walked, NEW sections, NEW next,
         Take(slots, walked, sections, next), task = "live",
         IsPlace(feed, next), NotAbove(next, pending)
  PROVE  ReadInv'
<1>1. /\ UNCHANGED <<feed, applied, synced, task, page, seed>>
      /\ cursor' = next /\ done' = (next = <<>>)
      /\ pending' = next \/ pending' = <<>>
  BY DEF Take, chain, stream
<1>2. NotAbove(next, cursor) /\ NotAbove(next, seed)
  BY NotAboveTrans DEF ReadInv
<1>3. NotAbove(pending', next) /\ IsPlace(feed, pending')
  BY <1>1, NotAboveItself DEF NotAbove, IsPlace
<1>4. done' => pending' = <<>>
  BY <1>1
<1>5. History' = History
  BY <1>1 DEF History
<1> QED BY <1>1, <1>2, <1>3, <1>4, <1>5 DEF ReadInv

\* A stake credential's or an address's page, from the place of the request.
LEMMA OlderBlocksTakes ==
  ASSUME ReadInv, OlderBlocks
  PROVE  LET slots == RecentBlocks(History, synced, Before(pending)["touch"])
         IN  /\ task = "live" /\ pending # <<>> /\ ByBlock(feed)
             /\ \E walked, sections :
                  /\ walked \in SUBSET slots
                  /\ Take(slots, walked, sections, SlotPlace(slots, walked, Head(pending)))
BY DEF OlderBlocks, BySlot, ByBlock, Before

LEMMA OlderPoolDrepTakes ==
  ASSUME ReadInv, OlderPoolDrep
  PROVE  LET rows == Rows(History, synced)
             cut == MergedPage(rows, Before(pending))
         IN  /\ task = "live" /\ pending # <<>> /\ ~ByBlock(feed)
             /\ \E slots, walked, sections :
                  Take(slots, walked, sections,
                       IF HasMore(rows, Before(pending), cut)
                       THEN <<Place(NextCursor(rows, Before(pending), cut), 0, 0)>>
                       ELSE <<>>)
BY DEF OlderPoolDrep, BySlot, ByBlock, Before

LEMMA ReadInvNext == ReadInv /\ [Next]_vars => ReadInv'
<1> SUFFICES ASSUME ReadInv, [Next]_vars PROVE ReadInv'
  OBVIOUS
<1>1. History \in Seq(Blocks) /\ Len(History) \in Nat /\ feed \in Feeds
  BY FeedsAssumption DEF ReadInv, History
<1>2. feed' = feed /\ History' = History
  BY DEF Next, vars, chain, Apply, Sync, Connect, Query, SendBlocks, Send, Deliver,
         LoadOlder, Answer, OlderBlocks, OlderPoolDrep, Take, Refuse, ScrollAway,
         ScrollBack, History
<1>3. CASE Apply
  BY <1>1, <1>2, <1>3 DEF Apply, ReadInv, stream, client
<1>4. CASE Sync
  BY <1>1, <1>2, <1>4 DEF Sync, ReadInv, stream, client
<1>5. CASE Connect
  BY <1>2, <1>5 DEF Connect, ReadInv, chain, IsPlace, NotAbove
<1>6. CASE Query
  <2>1. page' \subseteq Nat
    <3>1. page' = FirstPage
      BY <1>6 DEF Query
    <3>2. CASE BySlot
      <4>1. FirstPage \subseteq {s \in Touching(History, synced) : s < Top}
        BY <3>2 DEF FirstPage, RecentBlocks, NewestSlots
      <4>2. synced \in Nat
        BY <1>1 DEF ReadInv
      <4> QED BY <3>1, <4>1, <4>2 DEF Touching
    <3>3. CASE ~BySlot
      <4>1. FirstPage \subseteq
              {r.slot : r \in AllFetched(Rows(History, applied), Below(Top))}
        BY <3>3 DEF FirstPage, NewestSlots
      <4>2. AllFetched(Rows(History, applied), Below(Top)) \subseteq Rows(History, applied)
        BY DEF AllFetched, Fetched, NewestRows
      <4>3. Rows(History, applied) \subseteq Row
        BY <1>1, RowsOrdered DEF Ordered, ReadInv, History
      <4> QED BY <3>1, <4>1, <4>2, <4>3 DEF Row
    <3> QED BY <3>2, <3>3
  <2> QED BY <1>2, <1>6, <2>1 DEF Query, ReadInv, chain, client
<1>7. CASE SendBlocks
  <2>1. PICK walked \in SUBSET page : Send(walked)
    BY <1>7 DEF SendBlocks
  <2> DEFINE place == Seed(walked, Anchor)
  <2>2. IsPlace(feed, place)
    <3>1. CASE BySlot
      BY <1>1, <3>1, SlotPlaceNext DEF Seed, ReadInv
    <3>2. CASE ~BySlot
      <4>1. place = <<Place(Below(Top), 0, 0)>>
        BY <3>2 DEF Seed
      <4>2. Before(place) = Below(Top)
        BY <4>1, BeforePlace
      <4>3. ~ByBlock(feed)
        BY <3>2 DEF BySlot, ByBlock
      <4> QED BY <4>2, <4>3, ReplayAssumption DEF IsPlace, Below
    <3> QED BY <3>1, <3>2
  <2> HIDE DEF place
  <2>3. /\ task = "send" /\ task' = "live" /\ page' = {}
        /\ seed' = place /\ cursor' = place
        /\ UNCHANGED <<applied, synced, done, pending>>
    BY <2>1 DEF Send, chain, place
  <2>4. pending' = <<>> /\ ~done' /\ done' \in BOOLEAN
    BY <2>3 DEF ReadInv
  <2>5. NotAbove(place, place)
    BY <2>2, NotAboveItself
  <2> QED BY <1>2, <2>2, <2>3, <2>4, <2>5 DEF ReadInv, IsPlace, NotAbove
<1>8. CASE Deliver
  BY <1>2, <1>8 DEF Deliver, ReadInv, chain
<1>9. CASE LoadOlder
  <2>1. NotAbove(cursor, cursor)
    BY NotAboveItself DEF ReadInv
  <2> QED BY <1>2, <1>9, <2>1 DEF LoadOlder, ReadInv, chain, stream
<1>10. CASE OlderBlocks
  <2> DEFINE slots == RecentBlocks(History, synced, Before(pending)["touch"])
  <2>1. /\ task = "live" /\ pending # <<>> /\ ByBlock(feed)
        /\ \E walked, sections :
             /\ walked \in SUBSET slots
             /\ Take(slots, walked, sections, SlotPlace(slots, walked, Head(pending)))
    BY <1>10, OlderBlocksTakes
  <2>2. PICK walked, sections :
          /\ walked \in SUBSET slots
          /\ Take(slots, walked, sections, SlotPlace(slots, walked, Head(pending)))
    BY <2>1
  <2>3. walked \in SUBSET slots
    BY <2>2
  <2> DEFINE next == SlotPlace(slots, walked, Head(pending))
  <2>4. slots \subseteq Nat
    BY <1>1 DEF RecentBlocks, NewestSlots, Touching, ReadInv
  <2>5. IsPlace(feed, next)
    BY <1>1, <2>4, <2>3, SlotPlaceNext
  <2>6. NotAbove(next, pending)
    BY <1>1, <2>1, <2>3, SlotPlaceBelow DEF ReadInv, History
  <2> HIDE DEF next, slots
  <2> QED BY <2>1, <2>2, <2>5, <2>6, TakeInv DEF next
<1>11. CASE OlderPoolDrep
  <2> DEFINE rows == Rows(History, synced)
             cut == MergedPage(rows, Before(pending))
             next == IF HasMore(rows, Before(pending), cut)
                     THEN <<Place(NextCursor(rows, Before(pending), cut), 0, 0)>>
                     ELSE <<>>
  <2>1. /\ task = "live" /\ pending # <<>> /\ ~ByBlock(feed)
        /\ \E slots, walked, sections : Take(slots, walked, sections, next)
    BY <1>11, OlderPoolDrepTakes
  <2>2. PICK slots, walked, sections : Take(slots, walked, sections, next)
    BY <2>1
  <2>3. next # <<>> => Before(next) = NextCursor(rows, Before(pending), cut)
    BY BeforePlace
  <2>4. Before(pending) \in [Sources -> Nat] /\ Ordered(rows)
    BY <1>1, <2>1, RowsOrdered DEF ReadInv, IsPlace, History
  <2>5. /\ NextCursor(rows, Before(pending), cut) \in [Sources -> Nat]
        /\ \A src \in Sources :
             NextCursor(rows, Before(pending), cut)[src] <= Before(pending)[src]
    BY <2>4, NextCursorIsBelow
  <2> HIDE DEF next, rows, cut
  <2>6. IsPlace(feed, next) /\ NotAbove(next, pending)
    BY <2>1, <2>3, <2>5 DEF IsPlace, NotAbove
  <2> QED BY <2>1, <2>2, <2>6, TakeInv
<1>12. CASE Refuse
  BY <1>2, <1>12 DEF Refuse, ReadInv, chain, stream, IsPlace, NotAbove
<1>13. CASE ScrollAway
  BY <1>2, <1>13 DEF ScrollAway, ReadInv, chain, stream
<1>14. CASE ScrollBack
  <2>1. UNCHANGED <<applied, synced, task, page, seed, pending>>
    BY <1>14 DEF ScrollBack, chain, stream
  <2>2. CASE seed = <<>>
    BY <1>2, <1>14, <2>1, <2>2 DEF ScrollBack, ReadInv
  <2>3. CASE seed # <<>>
    <3>1. cursor' = seed /\ done' = FALSE
      BY <1>14, <2>3 DEF ScrollBack
    <3>2. NotAbove(pending, seed) /\ NotAbove(seed, seed)
      BY NotAboveTrans, NotAboveItself DEF ReadInv
    <3> QED BY <1>2, <2>1, <3>1, <3>2 DEF ReadInv
  <2> QED BY <2>2, <2>3
<1>15. CASE UNCHANGED vars
  BY <1>2, <1>15 DEF vars, chain, stream, client, ReadInv
<1> QED BY <1>3, <1>4, <1>5, <1>6, <1>7, <1>8, <1>9, <1>10, <1>11, <1>12, <1>13,
           <1>14, <1>15 DEF Next, Answer

-----------------------------------------------------------------------------
(* The refinement *)

\* What is ahead of a place, db-sync being at block n.
ToRead(f, n, c) ==
  {r \in Rows(f.history, n) :
     IF ByBlock(f) THEN r.slot < Before(c)[r.src] ELSE r.id < Before(c)[r.src]}

UnreadFrom(f, n, live, ended, asked, at) ==
  LET place == IF asked # <<>> THEN asked ELSE at
  IN  IF ~live \/ ended \/ place = <<>> THEN {} ELSE ToRead(f, n, place)

LEMMA UnreadIs ==
  /\ Unread = UnreadFrom(feed, synced, task = "live", done, pending, cursor)
  /\ Unread' = UnreadFrom(feed', synced', task' = "live", done', pending', cursor')
BY DEF Unread, UnreadFrom, ToRead, Ahead, BySlot, ByBlock, History, Before

LEMMA ToReadType ==
  ASSUME NEW f \in Feeds, NEW n \in 0..Len(f.history), NEW c
  PROVE  ToRead(f, n, c) \subseteq Row
BY RowsOrdered DEF Ordered, ToRead

\* A place that is not above another one has no more ahead.
LEMMA ToReadBelow ==
  ASSUME NEW f \in Feeds, NEW n \in 0..Len(f.history), NEW c, NEW d, c # <<>>,
         IsPlace(f, c), IsPlace(f, d), NotAbove(c, d)
  PROVE  ToRead(f, n, c) \subseteq ToRead(f, n, d)
<1>1. ASSUME NEW r \in ToRead(f, n, c) PROVE r \in ToRead(f, n, d)
  <2>1. r \in Rows(f.history, n) /\ r \in Row
    BY ToReadType DEF ToRead
  <2>2. r.src \in Sources /\ r.slot \in Nat /\ r.id \in Nat
    BY <2>1 DEF Row
  <2>3. /\ Before(c)[r.src] \in Nat /\ Before(d)[r.src] \in Nat
        /\ Before(c)[r.src] <= Before(d)[r.src]
    BY <2>2 DEF IsPlace, NotAbove
  <2> QED BY <2>1, <2>2, <2>3 DEF ToRead
<1> QED BY <1>1

\* The least that a response does, whatever the feed: it takes the newest of
\* what is ahead of its place, or loses the place.
PageRead(f, n, c, next) ==
  LET unseen == ToRead(f, n, c)
      left == IF next = <<>> THEN {} ELSE ToRead(f, n, next)
  IN  \/ /\ left \subseteq unseen /\ Cardinality(unseen \ left) <= PageSize
         /\ \A r \in unseen \ left, t \in left : NewerRow(r, t)
      \/ next # <<>> /\ left = {}

LEMMA SlotPageRead ==
  ASSUME NEW f \in Feeds, ByBlock(f), NEW n \in 0..Len(f.history),
         NEW c, c # <<>>, IsPlace(f, c), NEW anchor,
         NEW walked \in SUBSET RecentBlocks(f.history, n, Before(c)["touch"])
  PROVE  PageRead(f, n, c,
           SlotPlace(RecentBlocks(f.history, n, Before(c)["touch"]), walked, anchor))
<1> DEFINE b == Before(c)["touch"]
           R == Rows(f.history, n)
           slots == RecentBlocks(f.history, n, b)
           next == SlotPlace(slots, walked, anchor)
<1>1. b \in Nat /\ \A src \in Sources : Before(c)[src] = b
  BY DEF IsPlace, Sources
<1>2. R \subseteq Row
  BY RowsOrdered DEF Ordered
<1>3. ToRead(f, n, c) = UnseenBelow(R, b)
  BY <1>1, <1>2 DEF ToRead, UnseenBelow, Row
<1>4. slots \subseteq Nat
  BY FeedsAssumption DEF RecentBlocks, NewestSlots, Touching
<1>5. CASE next = <<>>
  <2>1. Cardinality(slots) < PageSize
    BY <1>4, <1>5, SlotPlaceGoesOn
  <2>2. Cardinality(UnseenBelow(R, b)) <= PageSize
    BY <1>1, <2>1, ShortSlotPage
  <2> HIDE DEF next
  <2>3. Cardinality(ToRead(f, n, c) \ {}) <= PageSize
    <3>1. ToRead(f, n, c) \ {} = UnseenBelow(R, b)
      BY <1>3
    <3> QED BY <2>2, <3>1
  <2>4. PageRead(f, n, c, next)
    BY <1>5, <2>3 DEF PageRead
  <2> QED BY <2>4 DEF next
<1>6. CASE next # <<>>
  <2>1. PICK m \in slots \cup {0} : Before(next) = Below(m)
    BY <1>4, <1>6, SlotPlaceGoesOn
  <2> HIDE DEF next
  <2>2. ToRead(f, n, next) = UnseenBelow(R, m)
    BY <1>2, <2>1 DEF ToRead, UnseenBelow, Below, Row
  <2>3. CASE m \in slots
    <3> DEFINE unseen == UnseenBelow(R, b)
               left == UnseenBelow(R, m)
    <3>1. /\ left \subseteq unseen /\ Cardinality(unseen \ left) <= PageSize
          /\ \A r \in unseen \ left, t \in left : NewerRow(r, t)
      BY <1>1, <2>3, SlotPageIsNewest
    <3> HIDE DEF unseen, left
    <3>2. ToRead(f, n, c) = unseen /\ ToRead(f, n, next) = left
      BY <1>3, <2>2 DEF unseen, left
    <3>3. PageRead(f, n, c, next)
      BY <1>6, <3>1, <3>2 DEF PageRead
    <3> QED BY <3>3 DEF next
  <2>4. CASE m = 0
    <3>1. UnseenBelow(R, 0) = {}
      BY <1>2 DEF UnseenBelow, Row
    <3>2. PageRead(f, n, c, next)
      BY <1>6, <2>2, <2>4, <3>1 DEF PageRead
    <3> QED BY <3>2 DEF next
  <2> QED BY <2>1, <2>3, <2>4
<1> QED BY <1>5, <1>6

LEMMA MergedPageRead ==
  ASSUME NEW f \in Feeds, ~ByBlock(f), NEW n \in 0..Len(f.history),
         NEW c, c # <<>>, IsPlace(f, c)
  PROVE  LET rows == Rows(f.history, n)
             cut == MergedPage(rows, Before(c))
         IN  PageRead(f, n, c,
               IF HasMore(rows, Before(c), cut)
               THEN <<Place(NextCursor(rows, Before(c), cut), 0, 0)>> ELSE <<>>)
<1> DEFINE rows == Rows(f.history, n)
           b == Before(c)
           U == Unseen(rows, b)
           cut == MergedPage(rows, b)
           after == NextCursor(rows, b, cut)
           next == IF HasMore(rows, b, cut) THEN <<Place(after, 0, 0)>> ELSE <<>>
<1>1. Ordered(rows) /\ b \in [Sources -> Nat]
  BY RowsOrdered DEF IsPlace
<1>2. /\ cut \subseteq U /\ Cardinality(cut) <= PageSize
      /\ \A r \in cut, t \in U \ cut : NewerRow(r, t)
      /\ ~HasMore(rows, b, cut) => cut = U
  BY <1>1, MergedPageIsNewest
<1>3. Unseen(rows, after) = U \ cut
  BY <1>1, NextCursorIsBelow
<1>4. ToRead(f, n, c) = U
  BY DEF ToRead, Unseen
<1>5. CASE HasMore(rows, b, cut)
  <2>1. next = <<Place(after, 0, 0)>>
    BY <1>5
  <2>2. next # <<>> /\ Before(next) = after
    BY <2>1, BeforePlace
  <2> HIDE DEF next
  <2>3. ToRead(f, n, next) = Unseen(rows, after)
    BY <2>2 DEF ToRead, Unseen
  <2> HIDE DEF rows, U, cut, after
  <2>4. U \ (U \ cut) = cut
    BY <1>2
  <2>5. PageRead(f, n, c, next)
    BY <1>2, <1>3, <1>4, <2>2, <2>3, <2>4 DEF PageRead
  <2> QED BY <2>5 DEF next, rows, cut, after
<1>6. CASE ~HasMore(rows, b, cut)
  <2>1. next = <<>>
    BY <1>6
  <2> HIDE DEF next, rows, U, cut
  <2>2. U \ {} = cut
    BY <1>2, <1>6
  <2>3. PageRead(f, n, c, next)
    BY <1>2, <1>4, <2>1, <2>2 DEF PageRead
  <2> QED BY <2>3 DEF next, rows, cut
<1> QED BY <1>5, <1>6

\* A step that leaves the reader's view alone.
LEMMA ReaderStutters ==
  ASSUME (task = "live") = (task' = "live"), Unread' = Unread, done' = done
  PROVE  [Reader!Next]_(Reader!pvars)
BY DEF Reader!pvars

LEMMA ReaderRefills ==
  ASSUME task = "live", task' = "live", Unread \subseteq Unread', Unread' \subseteq Row,
         done' = FALSE
  PROVE  [Reader!Next]_(Reader!pvars)
<1>1. Reader!Refill
  BY DEF Reader!Refill, Row
<1> QED BY <1>1 DEF Reader!Next

LEMMA ReaderReads ==
  ASSUME task = "live", task' = "live", Unread' \subseteq Unread,
         Cardinality(Unread \ Unread') <= PageSize,
         \A r \in Unread \ Unread', t \in Unread' : NewerRow(r, t),
         done' \in BOOLEAN, done' => Unread' = {}
  PROVE  [Reader!Next]_(Reader!pvars)
<1>1. Reader!AreNewest(Unread \ Unread', Unread')
  BY DEF Reader!AreNewest, Reader!Cardinality, Cardinality
<1>2. Reader!Read
  BY <1>1 DEF Reader!Read
<1> QED BY <1>2 DEF Reader!Next

\* A response is a page that is read, or a place that is lost.
LEMMA TakeReads ==
  ASSUME ReadInv, NEW slots, NEW walked, NEW sections, NEW next,
         Take(slots, walked, sections, next), task = "live", pending # <<>>,
         PageRead(feed, synced, pending, next)
  PROVE  [Reader!Next]_(Reader!pvars)
<1>1. /\ UNCHANGED <<feed, synced, task>>
      /\ cursor' = next /\ done' = (next = <<>>)
      /\ pending' = next \/ pending' = <<>>
  BY DEF Take, chain, stream
<1>2. done = FALSE
  BY DEF ReadInv
<1>3. Unread = ToRead(feed, synced, pending)
  BY <1>2, UnreadIs DEF UnreadFrom
<1>4. Unread' = IF next = <<>> THEN {} ELSE ToRead(feed, synced, next)
  BY <1>1, UnreadIs DEF UnreadFrom
<1>5. done' \in BOOLEAN /\ (done' => Unread' = {})
  BY <1>1, <1>4
<1>6. CASE /\ Unread' \subseteq Unread /\ Cardinality(Unread \ Unread') <= PageSize
           /\ \A r \in Unread \ Unread', t \in Unread' : NewerRow(r, t)
  BY <1>1, <1>5, <1>6, ReaderReads
<1>7. CASE next # <<>> /\ Unread' = {}
  <2>1. Reader!GiveUp
    BY <1>1, <1>7 DEF Reader!GiveUp
  <2> QED BY <2>1 DEF Reader!Next
<1> QED BY <1>3, <1>4, <1>6, <1>7 DEF PageRead

\* Every step of the feed is a step of the reader, or leaves it alone.
LEMMA ReadStep == ReadInv /\ [Next]_vars => [Reader!Next]_(Reader!pvars)
<1> SUFFICES ASSUME ReadInv, [Next]_vars PROVE [Reader!Next]_(Reader!pvars)
  OBVIOUS
<1>1. History \in Seq(Blocks) /\ Len(History) \in Nat /\ feed \in Feeds
      /\ synced \in 0..Len(feed.history)
  BY FeedsAssumption DEF ReadInv, History
<1>2. Unread \subseteq Row
  BY <1>1, ToReadType, UnreadIs DEF UnreadFrom
<1>3. CASE Apply
  <2>1. UNCHANGED <<feed, synced, task, done, pending, cursor>>
    BY <1>3 DEF Apply, stream, client
  <2> QED BY <2>1, ReaderStutters, UnreadIs
<1>4. CASE Sync
  <2>1. /\ UNCHANGED <<feed, task, done, pending, cursor>>
        /\ synced' = synced + 1 /\ synced' \in 0..Len(feed.history)
        /\ synced \in 0..synced'
    BY <1>1, <1>4 DEF Sync, stream, client, History
  <2>2. CASE Unread' = Unread
    BY <2>1, <2>2, ReaderStutters
  <2>3. CASE Unread' # Unread
    <3>1. task = "live" /\ ~done
      BY <2>1, <2>3, UnreadIs DEF UnreadFrom
    <3>2. \A c : ToRead(feed, synced, c) \subseteq ToRead(feed, synced', c)
      BY <1>1, <2>1, RowsGrow DEF ToRead
    <3>3. Unread \subseteq Unread'
      BY <2>1, <3>2, UnreadIs DEF UnreadFrom
    <3>4. Unread' \subseteq Row
      BY <1>1, <2>1, ToReadType, UnreadIs DEF UnreadFrom
    <3>5. task' = "live" /\ done' = FALSE
      BY <2>1, <3>1 DEF ReadInv
    <3> QED BY <3>1, <3>3, <3>4, <3>5, ReaderRefills
  <2> QED BY <2>2, <2>3
<1>5. CASE Connect
  <2>1. task' = "query" /\ done' = FALSE
    BY <1>5 DEF Connect
  <2>2. Unread' = {}
    BY <2>1, UnreadIs DEF UnreadFrom
  <2>3. Reader!Close
    BY <2>1, <2>2 DEF Reader!Close
  <2> QED BY <2>3 DEF Reader!Next
<1>6. CASE Query
  <2>1. task = "query" /\ task' = "send" /\ done' = done
    BY <1>6 DEF Query, client
  <2>2. Unread = {} /\ Unread' = {}
    BY <2>1, UnreadIs DEF UnreadFrom
  <2> QED BY <2>1, <2>2, ReaderStutters
<1>7. CASE SendBlocks
  <2>1. /\ task = "send" /\ task' = "live"
        /\ UNCHANGED <<feed, synced, done>>
    BY <1>7 DEF SendBlocks, Send, chain
  <2>2. Unread = {} /\ done = FALSE
    BY <2>1, UnreadIs DEF UnreadFrom, ReadInv
  <2>3. Unread' \subseteq Row
    BY <1>1, <2>1, ToReadType, UnreadIs DEF UnreadFrom
  <2>4. Reader!Open
    BY <2>1, <2>2, <2>3 DEF Reader!Open, Row
  <2> QED BY <2>4 DEF Reader!Next
<1>8. CASE Deliver
  <2>1. UNCHANGED <<feed, synced, task, done, pending, cursor>>
    BY <1>8 DEF Deliver, chain
  <2> QED BY <2>1, ReaderStutters, UnreadIs
<1>9. CASE LoadOlder
  <2>1. /\ UNCHANGED <<feed, synced, task, done, cursor>>
        /\ pending = <<>> /\ pending' = cursor
    BY <1>9 DEF LoadOlder, chain, stream
  <2>2. Unread' = Unread
    BY <2>1, UnreadIs DEF UnreadFrom
  <2> QED BY <2>1, <2>2, ReaderStutters
<1>10. CASE OlderBlocks
  <2> DEFINE slots == RecentBlocks(History, synced, Before(pending)["touch"])
  <2>1. /\ task = "live" /\ pending # <<>> /\ ByBlock(feed)
        /\ \E walked, sections :
             /\ walked \in SUBSET slots
             /\ Take(slots, walked, sections, SlotPlace(slots, walked, Head(pending)))
    BY <1>10, OlderBlocksTakes
  <2>2. PICK walked, sections :
          /\ walked \in SUBSET slots
          /\ Take(slots, walked, sections, SlotPlace(slots, walked, Head(pending)))
    BY <2>1
  <2>3. walked \in SUBSET slots
    BY <2>2
  <2> DEFINE next == SlotPlace(slots, walked, Head(pending))
  <2>4. PageRead(feed, synced, pending, next)
    BY <1>1, <2>1, <2>3, SlotPageRead DEF ReadInv, History
  <2> HIDE DEF next, slots
  <2> QED BY <2>1, <2>2, <2>4, TakeReads DEF next
<1>11. CASE OlderPoolDrep
  <2> DEFINE rows == Rows(History, synced)
             cut == MergedPage(rows, Before(pending))
             next == IF HasMore(rows, Before(pending), cut)
                     THEN <<Place(NextCursor(rows, Before(pending), cut), 0, 0)>>
                     ELSE <<>>
  <2>1. /\ task = "live" /\ pending # <<>> /\ ~ByBlock(feed)
        /\ \E slots, walked, sections : Take(slots, walked, sections, next)
    BY <1>11, OlderPoolDrepTakes
  <2>2. PICK slots, walked, sections : Take(slots, walked, sections, next)
    BY <2>1
  <2>3. PageRead(feed, synced, pending, next)
    BY <1>1, <2>1, MergedPageRead DEF ReadInv, History
  <2> HIDE DEF next, rows, cut
  <2> QED BY <2>1, <2>2, <2>3, TakeReads
<1>12. CASE Refuse
  <2>1. /\ UNCHANGED <<feed, synced, task, done, cursor>>
        /\ task = "live" /\ pending # <<>> /\ pending' = <<>>
    BY <1>12 DEF Refuse, chain, stream
  <2>2. done = FALSE /\ cursor # <<>>
    BY <2>1 DEF ReadInv, NotAbove
  <2>3. Unread = ToRead(feed, synced, pending) /\ Unread' = ToRead(feed, synced, cursor)
    BY <2>1, <2>2, UnreadIs DEF UnreadFrom
  <2>4. Unread \subseteq Unread' /\ Unread' \subseteq Row
    BY <1>1, <2>1, <2>3, ToReadBelow, ToReadType DEF ReadInv
  <2> QED BY <2>1, <2>2, <2>4, ReaderRefills
<1>13. CASE ScrollAway
  <2>1. UNCHANGED <<feed, synced, task, done, pending, cursor>>
    BY <1>13 DEF ScrollAway, chain, stream
  <2> QED BY <2>1, ReaderStutters, UnreadIs
<1>14. CASE ScrollBack
  <2>1. UNCHANGED <<feed, synced, task, seed, pending>>
    BY <1>14 DEF ScrollBack, chain, stream
  <2>2. CASE seed = <<>>
    <3>1. UNCHANGED <<done, cursor>>
      BY <1>14, <2>2 DEF ScrollBack
    <3> QED BY <2>1, <3>1, ReaderStutters, UnreadIs
  <2>3. CASE seed # <<>> /\ task # "live"
    <3>1. Unread = {} /\ Unread' = {} /\ done = FALSE /\ done' = FALSE
      BY <1>14, <2>1, <2>3, UnreadIs DEF ScrollBack, UnreadFrom, ReadInv
    <3> QED BY <2>1, <3>1, ReaderStutters
  <2>4. CASE seed # <<>> /\ task = "live"
    <3>1. cursor' = seed /\ done' = FALSE
      BY <1>14, <2>4 DEF ScrollBack
    <3>2. Unread' \subseteq Row
      BY <1>1, <2>1, ToReadType, UnreadIs DEF UnreadFrom
    <3>3. CASE pending # <<>>
      <4>1. done = FALSE
        BY <3>3 DEF ReadInv
      <4>2. Unread' = Unread
        BY <2>1, <3>1, <3>3, <4>1, UnreadIs DEF UnreadFrom
      <4> QED BY <2>1, <3>1, <4>1, <4>2, ReaderStutters
    <3>4. CASE pending = <<>>
      <4>1. Unread' = ToRead(feed, synced, seed)
        BY <2>1, <2>4, <3>1, <3>4, UnreadIs DEF UnreadFrom
      <4>2. Unread = {} \/ (cursor # <<>> /\ Unread = ToRead(feed, synced, cursor))
        BY <3>4, UnreadIs DEF UnreadFrom
      <4>3. Unread \subseteq Unread'
        BY <1>1, <4>1, <4>2, ToReadBelow DEF ReadInv
      <4> QED BY <2>1, <2>4, <3>1, <3>2, <4>3, ReaderRefills
    <3> QED BY <3>3, <3>4
  <2> QED BY <2>2, <2>3, <2>4
<1>15. CASE UNCHANGED vars
  <2>1. UNCHANGED <<feed, synced, task, done, pending, cursor>>
    BY <1>15 DEF vars, chain, stream, client
  <2> QED BY <2>1, ReaderStutters, UnreadIs
<1> QED BY <1>3, <1>4, <1>5, <1>6, <1>7, <1>8, <1>9, <1>10, <1>11, <1>12, <1>13,
           <1>14, <1>15 DEF Next, Answer

\* However the feed is paged, the reader gets the newest of what it has not yet
\* read and skips nothing, for every subject, through lags, refusals,
\* reconnections and returns to the newest edge: FeedScroll implements
\* PagedReader (loadOlder, older_blocks, older_pool_drep).
THEOREM FeedReadsInOrder == Spec => ReadsInOrder
<1>1. Init => Reader!Init
  BY DEF Init, Reader!Init, Unread
<1>2. Init => ReadInv
  BY ReadInvInit
<1>3. ReadInv /\ [Next]_vars => ReadInv'
  BY ReadInvNext
<1>4. ReadInv /\ [Next]_vars => [Reader!Next]_(Reader!pvars)
  BY ReadStep
<1> QED BY <1>1, <1>2, <1>3, <1>4, PTL DEF Spec, ReadsInOrder, Reader!Spec

-----------------------------------------------------------------------------
(* Where a reader has passed *)

\* The rows of a block, and whether a place is behind all of them.
RowsAt(f, s) == {r \in Rows(f.history, Len(f.history)) : r.slot = s}

AheadIn(f, r, c) ==
  IF ByBlock(f) THEN r.slot < Before(c)[r.src] ELSE r.id < Before(c)[r.src]

PassedBy(f, s, c) == c = <<>> \/ \A r \in RowsAt(f, s) : ~AheadIn(f, r, c)

LEMMA RowsAtIs ==
  ASSUME NEW f \in Feeds
  PROVE  /\ f.history \in Seq(Blocks) /\ Len(f.history) \in Nat
         /\ DOMAIN f.history = 1..Len(f.history)
         /\ \A s : RowsAt(f, s) \subseteq Row
         /\ \A n \in 0..Len(f.history) : \A s \in 1..n :
              RowsAt(f, s) = {r \in Rows(f.history, n) : r.slot = s}
         /\ \A n \in 0..Len(f.history) :
              Touching(f.history, n) = {s \in 1..n : RowsAt(f, s) # {}}
<1> DEFINE H == f.history
           N == Len(H)
<1>1. H \in Seq(Blocks) /\ N \in Nat /\ DOMAIN H = 1..N
  BY FeedsAssumption, LenNat
<1>2. Rows(H, N) \subseteq Row
  BY <1>1, RowsOrdered DEF Ordered
<1>3. ASSUME NEW n \in 0..N, NEW s \in 1..n
      PROVE  RowsAt(f, s) = {r \in Rows(H, n) : r.slot = s}
  <2>1. Rows(H, n) \subseteq Rows(H, N)
    BY <1>1 DEF Rows
  <2>2. ASSUME NEW r \in Rows(H, N), r.slot = s PROVE r \in Rows(H, n)
    <3>1. PICK t \in 1..N : r \in {[slot |-> t, src |-> H[t].rows[i], id |-> RowId(t, i)] :
                                      i \in DOMAIN H[t].rows}
      BY DEF Rows
    <3>2. t = s
      BY <2>2, <3>1
    <3> QED BY <3>1, <3>2 DEF Rows
  <2> QED BY <2>1, <2>2 DEF RowsAt
<1>4. ASSUME NEW n \in 0..N, NEW s \in 1..n
      PROVE  H[s].rows # <<>> <=> RowsAt(f, s) # {}
  <2>1. s \in 1..N
    BY <1>1
  <2>2. H[s].rows \in Seq(Sources)
    <3>1. H[s] \in Blocks
      BY <1>1, <2>1, ElementIn
    <3> QED BY <3>1 DEF Blocks
  <2>3. ASSUME H[s].rows # <<>> PROVE RowsAt(f, s) # {}
    <3>1. 1 \in DOMAIN H[s].rows
      BY <2>2, <2>3
    <3>2. [slot |-> s, src |-> H[s].rows[1], id |-> RowId(s, 1)] \in Rows(H, N)
      BY <2>1, <3>1 DEF Rows
    <3> QED BY <3>2 DEF RowsAt
  <2>4. ASSUME RowsAt(f, s) # {} PROVE H[s].rows # <<>>
    <3>1. PICK r \in Rows(H, N) : r.slot = s
      BY <2>4 DEF RowsAt
    <3>2. r.slot \in Touching(H, N)
      BY <1>1, RowTouches
    <3> QED BY <3>1, <3>2 DEF Touching
  <2> QED BY <2>3, <2>4
<1>5. ASSUME NEW n \in 0..N
      PROVE  Touching(H, n) = {s \in 1..n : RowsAt(f, s) # {}}
  BY <1>4 DEF Touching
<1>6. \A s : RowsAt(f, s) \subseteq Row
  BY <1>2 DEF RowsAt
<1> QED BY <1>1, <1>3, <1>5, <1>6

\* In the terms of the module.
LEMMA PassedIs ==
  ASSUME feed \in Feeds, NEW s \in 1..Len(History)
  PROVE  RowsOf(s) = RowsAt(feed, s) /\ \A c : Passed(s, c) <=> PassedBy(feed, s, c)
<1>1. RowsOf(s) = RowsAt(feed, s)
  <2>1. s \in 0..Len(feed.history) /\ s \in 1..s
    BY RowsAtIs DEF History
  <2>2. RowsAt(feed, s) = {r \in Rows(feed.history, s) : r.slot = s}
    BY <2>1, RowsAtIs
  <2> QED BY <2>2 DEF RowsOf, History
<1>2. \A r, c : Ahead(r, Head(c)) <=> AheadIn(feed, r, c)
  BY DEF Ahead, AheadIn, Before, BySlot, ByBlock
<1> QED BY <1>1, <1>2 DEF Passed, PassedBy

\* A reader that has passed a block has passed it at every lower place.
LEMMA PassedLower ==
  ASSUME NEW f \in Feeds, NEW c, NEW d, IsPlace(f, c), IsPlace(f, d), NotAbove(c, d),
         NEW s, PassedBy(f, s, d)
  PROVE  PassedBy(f, s, c)
<1>1. SUFFICES ASSUME c # <<>>, NEW r \in RowsAt(f, s) PROVE ~AheadIn(f, r, c)
  BY DEF PassedBy
<1>2. r \in Row /\ d # <<>>
  BY <1>1, RowsAtIs DEF NotAbove
<1>3. /\ r.src \in Sources /\ r.slot \in Nat /\ r.id \in Nat
      /\ Before(c)[r.src] \in Nat /\ Before(d)[r.src] \in Nat
      /\ Before(c)[r.src] <= Before(d)[r.src]
  BY <1>1, <1>2 DEF Row, IsPlace, NotAbove
<1>4. ~AheadIn(f, r, d)
  BY <1>1, <1>2 DEF PassedBy
<1> QED BY <1>3, <1>4 DEF AheadIn

\* In a feed by slot, a block of the subject has been passed when the place is
\* not above it.
LEMMA PassedSlot ==
  ASSUME NEW f \in Feeds, ByBlock(f), NEW c, IsPlace(f, c), c # <<>>,
         NEW s \in Touching(f.history, Len(f.history))
  PROVE  PassedBy(f, s, c) <=> Before(c)["touch"] <= s
<1>1. RowsAt(f, s) # {} /\ RowsAt(f, s) \subseteq Row /\ s \in Nat
  <2>1. Len(f.history) \in 0..Len(f.history)
    BY RowsAtIs
  <2>2. s \in {t \in 1..Len(f.history) : RowsAt(f, t) # {}}
    BY <2>1, RowsAtIs
  <2> QED BY <2>2, RowsAtIs
<1>2. \A r \in RowsAt(f, s) : /\ r.slot = s /\ Before(c)[r.src] = Before(c)["touch"]
  BY <1>1 DEF RowsAt, Row, IsPlace
<1>3. Before(c)["touch"] \in Nat
  BY DEF IsPlace, Sources
<1>4. \A r \in RowsAt(f, s) : AheadIn(f, r, c) <=> s < Before(c)["touch"]
  BY <1>2 DEF AheadIn
<1>5. PassedBy(f, s, c) <=> ~(s < Before(c)["touch"])
  BY <1>1, <1>4 DEF PassedBy
<1> QED BY <1>1, <1>3, <1>5

-----------------------------------------------------------------------------
(* The sections of a page *)

\* A section shows rows of its block, all votes among them.
SectionIs(f, sec) ==
  /\ sec.slot \in 1..Len(f.history)
  /\ sec.rows \subseteq RowsAt(f, sec.slot)
  /\ \A r \in RowsAt(f, sec.slot) : r.src = "vote" => r \in sec.rows

OnePerSlot(secs) == \A sec, t \in secs : sec.slot = t.slot => sec = t

\* Sections of a feed, for blocks among the first n.
Listing(f, n, secs) ==
  OnePerSlot(secs) /\ \A sec \in secs : SectionIs(f, sec) /\ sec.slot \in 1..n

\* The sections that are added.
LEMMA InsertIs ==
  ASSUME NEW n \in Nat, Listing(feed, n, shown), NEW new, Listing(feed, n, new)
  PROVE  /\ Listing(feed, n, InsertOlder(new))
         /\ Slots(InsertOlder(new)) = Slots(shown) \cup Slots(new)
         /\ shown \subseteq InsertOlder(new)
         /\ InsertOlder(new) \subseteq shown \cup new
<1>1. InsertOlder(new) = shown \cup {sec \in new : sec.slot \notin Slots(shown)}
  BY DEF InsertOlder
<1>2. OnePerSlot(InsertOlder(new))
  <2> SUFFICES ASSUME NEW sec \in InsertOlder(new), NEW t \in InsertOlder(new),
                      sec.slot = t.slot
               PROVE  sec = t
    BY DEF OnePerSlot
  <2>1. \A x \in shown, y \in {u \in new : u.slot \notin Slots(shown)} : x.slot # y.slot
    BY DEF Slots
  <2>2. \A x, y \in shown : x.slot = y.slot => x = y
    BY DEF Listing, OnePerSlot
  <2>3. \A x, y \in new : x.slot = y.slot => x = y
    BY DEF Listing, OnePerSlot
  <2> QED BY <1>1, <2>1, <2>2, <2>3
<1>3. Listing(feed, n, InsertOlder(new))
  BY <1>1, <1>2 DEF Listing
<1>4. Slots(InsertOlder(new)) = Slots(shown) \cup Slots(new)
  BY <1>1 DEF Slots
<1> QED BY <1>1, <1>3, <1>4

\* Trimming keeps every section with fewer than MaxShown blocks above it.
LEMMA TrimKeeps ==
  ASSUME NEW secs, OnePerSlot(secs), NEW sec \in secs, NEW m \in Nat, sec.slot \in Nat,
         m < sec.slot + MaxShown,
         \A t \in secs : t.slot > sec.slot => t.slot \in (sec.slot + 1)..m
  PROVE  sec \in Trimmed(secs)
<1> DEFINE S == {t \in secs : t.slot > sec.slot}
           at == [t \in S |-> t.slot]
           T == (sec.slot + 1)..m
<1>1. IsFiniteSet(T) /\ Cardinality(T) \in Nat /\ Cardinality(T) < MaxShown
  <2> DEFINE low == sec.slot + 1
             count == Cardinality(low..m)
  <2>1. low \in Int /\ low \in Nat /\ m \in Int /\ m < (low - 1) + MaxShown
    OBVIOUS
  <2>2. T = low..m
    OBVIOUS
  <2> HIDE DEF low
  <2>3. IsFiniteSet(low..m) /\ count = IF low > m THEN 0 ELSE m - low + 1
    BY <2>1, FS_Interval
  <2> HIDE DEF count
  <2>4. count \in Nat /\ count < MaxShown
    BY <2>1, <2>3, ScrollAssumption
  <2> QED BY <2>2, <2>3, <2>4 DEF count
<1>2. at \in Injection(S, T)
  <2>1. at \in [S -> T]
    OBVIOUS
  <2>2. \A t, u \in S : at[t] = at[u] => t = u
    BY DEF OnePerSlot
  <2> QED BY <2>1, <2>2 DEF Injection, IsInjective
<1> HIDE DEF at, S, T
<1>3. Cardinality(S) <= Cardinality(T) /\ IsFiniteSet(S)
  BY <1>1, <1>2, FS_Injection
<1>4. Cardinality(S) \in Nat
  BY <1>3, FS_CardinalityType
<1>5. Cardinality(S) < MaxShown
  BY <1>1, <1>3, <1>4, ScrollAssumption
<1> QED BY <1>5 DEF Trimmed, S

LEMMA TrimIs ==
  ASSUME NEW n, NEW secs, Listing(feed, n, secs)
  PROVE  Trimmed(secs) \subseteq secs /\ Listing(feed, n, Trimmed(secs))
BY DEF Trimmed, Listing, OnePerSlot

\* Without a mark, what trimming takes away the reader comes by again.
LEMMA TrimLoses ==
  ASSUME NEW secs, NEW place, NEW top,
         TrimMark(secs, place, top) \cap {"top", "deep"} = {}
  PROVE  \A s \in Slots(secs) :
           Passed(s, place) \/ (pending # <<>> /\ Passed(s, pending)) =>
             s \in Slots(Trimmed(secs))
<1> DEFINE gone == Slots(secs) \ Slots(Trimmed(secs))
           lost == {s \in gone : Passed(s, place)}
           one == IF lost = {} THEN {} ELSE IF place = top THEN {"top"} ELSE {"deep"}
           two == IF pending # <<>> /\ \E s \in gone : Passed(s, pending)
                  THEN {"deep"} ELSE {}
<1>1. TrimMark(secs, place, top) = one \cup two
  BY DEF TrimMark
<1>2. lost = {}
  BY <1>1
<1>3. ~(pending # <<>> /\ \E s \in gone : Passed(s, pending))
  BY <1>1
<1> QED BY <1>2, <1>3

\* What a section is made of.
LEMMA SectionHas ==
  ASSUME NEW s, NEW pre, NEW rows
  PROVE  /\ Section(s, pre, rows).slot = s /\ Section(s, pre, rows).pre = pre
         /\ Section(s, pre, rows).rows = rows
BY DEF Section

\* Every kind of section there is.
LEMMA WholeIs ==
  ASSUME feed \in Feeds, NEW s \in 1..Len(History)
  PROVE  SectionIs(feed, Whole(s)) /\ Whole(s).slot = s /\ Whole(s).pre = Unknown
<1>1. RowsOf(s) = RowsAt(feed, s)
  BY PassedIs
<1>2. Whole(s).slot = s /\ Whole(s).rows = RowsAt(feed, s) /\ Whole(s).pre = Unknown
  BY <1>1, SectionHas DEF Whole
<1> QED BY <1>2 DEF SectionIs, History

LEMMA WalkedAre ==
  ASSUME feed \in Feeds, NEW n \in 0..Len(History), NEW walked \in SUBSET (1..n),
         NEW slots, NEW anchor
  PROVE  /\ Listing(feed, n, StakeSections(slots, walked, anchor))
         /\ Slots(StakeSections(slots, walked, anchor)) = walked
<1> DEFINE pre(s) == IF feed.kind = "stake"
                     THEN PreBlockStake(History, synced, slots, {w \in walked : w >= s}, anchor)
                     ELSE Unknown
           secs == {Section(s, pre(s), RowsOf(s)) : s \in walked}
<1>1. StakeSections(slots, walked, anchor) = secs
  BY DEF StakeSections
<1>2. Len(History) \in Nat
  BY RowsAtIs DEF History
<1> HIDE DEF pre
<1>3. ASSUME NEW s \in walked
      PROVE  LET sec == Section(s, pre(s), RowsOf(s))
             IN  SectionIs(feed, sec) /\ sec.slot = s
  <2>1. s \in 1..Len(History)
    BY <1>2
  <2>2. RowsOf(s) = RowsAt(feed, s)
    BY <2>1, PassedIs
  <2>3. /\ Section(s, pre(s), RowsOf(s)).slot = s
        /\ Section(s, pre(s), RowsOf(s)).rows = RowsAt(feed, s)
    BY <2>2, SectionHas
  <2> QED BY <2>1, <2>3 DEF SectionIs, History
<1>4. ASSUME NEW sec \in secs
      PROVE  /\ SectionIs(feed, sec) /\ sec.slot \in walked
             /\ sec = Section(sec.slot, pre(sec.slot), RowsOf(sec.slot))
  <2>1. PICK s \in walked : sec = Section(s, pre(s), RowsOf(s))
    OBVIOUS
  <2> QED BY <1>3, <2>1
<1>5. \A s \in walked : \E sec \in secs : sec.slot = s
  BY <1>3
<1> HIDE DEF secs
<1>6. Slots(secs) = walked
  BY <1>4, <1>5 DEF Slots
<1>7. OnePerSlot(secs)
  <2> SUFFICES ASSUME NEW x \in secs, NEW y \in secs, x.slot = y.slot PROVE x = y
    BY DEF OnePerSlot
  <2>1. x = Section(x.slot, pre(x.slot), RowsOf(x.slot))
    BY <1>4
  <2>2. y = Section(y.slot, pre(y.slot), RowsOf(y.slot))
    BY <1>4
  <2> QED BY <2>1, <2>2
<1>8. Listing(feed, n, secs)
  BY <1>4, <1>7 DEF Listing
<1> QED BY <1>1, <1>6, <1>8

LEMMA WholesAre ==
  ASSUME feed \in Feeds, NEW n \in 0..Len(History), NEW some \in SUBSET (1..n)
  PROVE  /\ Listing(feed, n, {Whole(s) : s \in some})
         /\ Slots({Whole(s) : s \in some}) = some
<1> DEFINE secs == {Whole(s) : s \in some}
<1>1. Len(History) \in Nat
  BY RowsAtIs DEF History
<1>2. \A s \in some : SectionIs(feed, Whole(s)) /\ Whole(s).slot = s
  BY <1>1, WholeIs
<1>3. \A sec \in secs : SectionIs(feed, sec) /\ sec.slot \in some /\ sec = Whole(sec.slot)
  BY <1>2
<1>4. \A s \in some : \E sec \in secs : sec.slot = s
  BY <1>2
<1> HIDE DEF secs
<1>5. OnePerSlot(secs)
  <2> SUFFICES ASSUME NEW x \in secs, NEW y \in secs, x.slot = y.slot PROVE x = y
    BY DEF OnePerSlot
  <2> QED BY <1>3
<1>6. Listing(feed, n, secs) /\ Slots(secs) = some
  BY <1>3, <1>4, <1>5 DEF Slots, Listing
<1> QED BY <1>6 DEF secs

\* The rows of a block are those that the block before had not.
LEMMA NewRows ==
  ASSUME NEW f \in Feeds, NEW s \in 1..Len(f.history)
  PROVE  Rows(f.history, s) \ Rows(f.history, s - 1) = RowsAt(f, s)
<1>1. Len(f.history) \in Nat /\ s \in 0..Len(f.history) /\ s - 1 \in 0..Len(f.history)
      /\ s \in 1..s
  BY RowsAtIs
<1>2. RowsAt(f, s) = {r \in Rows(f.history, s) : r.slot = s}
  BY <1>1, RowsAtIs
<1>3. ASSUME NEW r \in Rows(f.history, s), r.slot # s PROVE r \in Rows(f.history, s - 1)
  <2>1. PICK t \in 1..s : r \in {[slot |-> t, src |-> f.history[t].rows[i], id |-> RowId(t, i)] :
                                    i \in DOMAIN f.history[t].rows}
    BY DEF Rows
  <2>2. t \in 1..(s - 1)
    BY <1>3, <2>1
  <2> QED BY <2>1, <2>2 DEF Rows
<1>4. ASSUME NEW r \in Rows(f.history, s - 1) PROVE r.slot # s
  <2>1. PICK t \in 1..(s - 1) : \E i \in 1..MaxRows :
          /\ i <= Len(f.history[t].rows)
          /\ f.history[t].rows[i] \in Sources
          /\ r = [slot |-> t, src |-> f.history[t].rows[i], id |-> RowId(t, i)]
    BY <1>1, RowAt
  <2> QED BY <2>1
<1> QED BY <1>2, <1>3, <1>4

LEMMA MergedAre ==
  ASSUME feed \in Feeds, NEW n \in 0..Len(History), NEW cut \in SUBSET Rows(History, n),
         NEW walked \in SUBSET {r.slot : r \in cut}
  PROVE  LET secs == {Section(s, Unknown, Displayed(History, cut, s)) : s \in walked}
         IN  Listing(feed, n, secs) /\ Slots(secs) = walked
<1> DEFINE shows(s) == Displayed(History, cut, s)
           secs == {Section(s, Unknown, shows(s)) : s \in walked}
<1>1. Len(History) \in Nat
  BY RowsAtIs DEF History
<1>2. walked \subseteq 1..n
  <2>1. \A r \in Rows(History, n) : r.slot \in Touching(History, n)
    BY RowTouches DEF History
  <2> QED BY <2>1 DEF Touching
<1>3. ASSUME NEW s \in walked
      PROVE  /\ shows(s) \subseteq RowsAt(feed, s)
             /\ \A r \in RowsAt(feed, s) : r.src = "vote" => r \in shows(s)
  <2>1. Rows(History, s) \ Rows(History, s - 1) = RowsAt(feed, s)
    BY <1>1, <1>2, NewRows DEF History
  <2> QED BY <2>1 DEF Displayed
<1> HIDE DEF shows
<1>4. ASSUME NEW s \in walked
      PROVE  LET sec == Section(s, Unknown, shows(s))
             IN  SectionIs(feed, sec) /\ sec.slot = s
  <2>1. s \in 1..Len(History)
    BY <1>1, <1>2
  <2>2. Section(s, Unknown, shows(s)).slot = s /\ Section(s, Unknown, shows(s)).rows = shows(s)
    BY SectionHas
  <2> QED BY <1>3, <2>1, <2>2 DEF SectionIs, History
<1>5. ASSUME NEW sec \in secs
      PROVE  /\ SectionIs(feed, sec) /\ sec.slot \in walked
             /\ sec = Section(sec.slot, Unknown, shows(sec.slot))
  <2>1. PICK s \in walked : sec = Section(s, Unknown, shows(s))
    OBVIOUS
  <2> QED BY <1>4, <2>1
<1>6. \A s \in walked : \E sec \in secs : sec.slot = s
  BY <1>4
<1> HIDE DEF secs
<1>7. Slots(secs) = walked
  BY <1>5, <1>6 DEF Slots
<1>8. OnePerSlot(secs)
  <2> SUFFICES ASSUME NEW x \in secs, NEW y \in secs, x.slot = y.slot PROVE x = y
    BY DEF OnePerSlot
  <2>1. x = Section(x.slot, Unknown, shows(x.slot))
    BY <1>5
  <2>2. y = Section(y.slot, Unknown, shows(y.slot))
    BY <1>5
  <2> QED BY <2>1, <2>2
<1>9. Listing(feed, n, secs)
  BY <1>2, <1>5, <1>8 DEF Listing
<1> QED BY <1>7, <1>9 DEF secs, shows

-----------------------------------------------------------------------------
(* What a page gets *)

NoMark(slots, walked, next) == FetchMark(slots, walked, next) = {}

LEMMA UnmarkedIs ==
  ASSUME NEW slots, NEW walked, NEW next, NoMark(slots, walked, next), NEW s \in slots,
         Passed(s, next) \/ s > synced
  PROVE  s \in walked
BY DEF NoMark, FetchMark

LEMMA TouchingIs ==
  ASSUME NEW f \in Feeds, NEW n \in 0..Len(f.history), NEW s \in Touching(f.history, n)
  PROVE  /\ s \in 1..n /\ s \in 1..Len(f.history) /\ s \in Nat
         /\ s \in Touching(f.history, Len(f.history))
         /\ RowsAt(f, s) # {}
<1>1. Len(f.history) \in Nat /\ Len(f.history) \in 0..Len(f.history)
  BY RowsAtIs
<1>2. s \in 1..n /\ RowsAt(f, s) # {}
  BY RowsAtIs
<1>3. s \in 1..Len(f.history) /\ s \in Nat
  BY <1>1, <1>2
<1>4. s \in Touching(f.history, Len(f.history))
  BY <1>1, <1>2, <1>3, RowsAtIs
<1> QED BY <1>2, <1>3, <1>4

\* A page of blocks for which nothing is marked has every block that its place
\* is not above.
LEMMA SlotPageGets ==
  ASSUME feed \in Feeds, ByBlock(feed), NEW n \in 0..Len(History), NEW b \in Nat,
         NEW walked \in SUBSET RecentBlocks(History, n, b), NEW anchor,
         LET slots == RecentBlocks(History, n, b)
         IN  NoMark(slots, walked, SlotPlace(slots, walked, anchor)),
         NEW s \in Touching(History, n), s < b,
         PassedBy(feed, s, SlotPlace(RecentBlocks(History, n, b), walked, anchor))
  PROVE  s \in walked
<1> DEFINE slots == RecentBlocks(History, n, b)
           next == SlotPlace(slots, walked, anchor)
           below == {t \in Touching(History, n) : t < b}
<1>0. Len(History) \in Nat /\ n \in Nat
  BY RowsAtIs DEF History
<1>1. /\ slots \subseteq below /\ below \subseteq 1..n
      /\ \A t \in slots, u \in below : u > t => u \in slots
      /\ Cardinality(slots) < PageSize => slots = below
  BY RecentBlocksAreTop DEF History
<1>2. slots \subseteq Nat /\ s \in below /\ s \in Nat
  BY <1>0, <1>1
<1>5. NoMark(slots, walked, next) /\ PassedBy(feed, s, next) /\ walked \in SUBSET slots
  OBVIOUS
<1> HIDE DEF slots
<1>3. \/ next = <<>> /\ Cardinality(slots) < PageSize
      \/ GoesOn(slots, walked, next)
  BY <1>2, <1>5, SlotPlaceIs
<1>4. IsPlace(feed, next)
  BY <1>2, <1>5, SlotPlaceNext
<1>6. \A t \in below : t \in 1..Len(History) /\ t \in Touching(History, Len(History))
  BY TouchingIs DEF History
<1> HIDE DEF next, below
<1>7. \A t \in slots : PassedBy(feed, t, next) => t \in walked
  <2> SUFFICES ASSUME NEW t \in slots, PassedBy(feed, t, next) PROVE t \in walked
    OBVIOUS
  <2>1. Passed(t, next)
    BY <1>1, <1>6, PassedIs
  <2> QED BY <1>5, <2>1, UnmarkedIs
<1>8. CASE next = <<>>
  <2>1. slots = below
    BY <1>1, <1>3, <1>8 DEF GoesOn
  <2> QED BY <1>2, <1>5, <1>7, <2>1
<1>9. CASE next # <<>>
  <2>0. GoesOn(slots, walked, next)
    BY <1>3, <1>9
  <2>1. PICK m \in slots \cup {0} : Before(next) = Below(m) /\ (m \in slots \/ walked = {})
    BY <2>0 DEF GoesOn
  <2>2. Before(next)["touch"] = m /\ m \in Nat
    BY <1>2, <2>1 DEF Below, Sources
  <2>3. \A t \in below : PassedBy(feed, t, next) <=> m <= t
    BY <1>4, <1>6, <1>9, <2>2, PassedSlot DEF History
  <2>4. CASE m \in slots
    <3>1. s \in slots
      BY <1>1, <1>2, <1>5, <2>2, <2>3, <2>4
    <3> QED BY <1>5, <1>7, <3>1
  <2>5. CASE m = 0 /\ walked = {}
    <3>1. slots # {}
      <4>1. Cardinality({}) = 0 /\ PageSize \in Nat \ {0}
        BY FS_EmptySet, ReplayAssumption
      <4>2. ~(Cardinality(slots) < PageSize)
        BY <2>0 DEF GoesOn
      <4> QED BY <4>1, <4>2
    <3>2. PICK t \in slots : TRUE
      BY <3>1
    <3>3. PassedBy(feed, t, next)
      BY <1>1, <1>2, <2>3, <2>5, <3>2
    <3> QED BY <1>7, <2>5, <3>2, <3>3
  <2> QED BY <2>1, <2>4, <2>5
<1> QED BY <1>8, <1>9

\* So does a page of a pool or a DRep.
LEMMA MergedPageGets ==
  ASSUME feed \in Feeds, ~ByBlock(feed), NEW n \in 0..Len(History),
         NEW c, c # <<>>, IsPlace(feed, c), NEW next, NEW walked,
         LET rows == Rows(History, n)
             cut == MergedPage(rows, Before(c))
         IN  /\ next = IF HasMore(rows, Before(c), cut)
                       THEN <<Place(NextCursor(rows, Before(c), cut), 0, 0)>> ELSE <<>>
             /\ NoMark({r.slot : r \in cut}, walked, next),
         NEW s \in Touching(History, n), ~PassedBy(feed, s, c), PassedBy(feed, s, next)
  PROVE  s \in walked
<1> DEFINE rows == Rows(History, n)
           b == Before(c)
           U == Unseen(rows, b)
           cut == MergedPage(rows, b)
           after == NextCursor(rows, b, cut)
           slots == {r.slot : r \in cut}
<1>1. Ordered(rows) /\ b \in [Sources -> Nat]
  BY RowsOrdered DEF IsPlace, History
<1>2. cut \subseteq U /\ (~HasMore(rows, b, cut) => cut = U)
  BY <1>1, MergedPageIsNewest
<1>3. Unseen(rows, after) = U \ cut
  BY <1>1, NextCursorIsBelow
<1>4. /\ HasMore(rows, b, cut) => next # <<>> /\ Before(next) = after
      /\ ~HasMore(rows, b, cut) => next = <<>>
  BY BeforePlace
<1>5. NoMark(slots, walked, next)
  OBVIOUS
<1>6. s \in 1..n /\ s \in 1..Len(History)
  BY TouchingIs DEF History
<1>7. RowsAt(feed, s) = {r \in rows : r.slot = s}
  BY <1>6, RowsAtIs DEF History
<1>8. PICK r \in rows : r.slot = s /\ r.id < b[r.src]
  BY <1>7 DEF PassedBy, AheadIn
<1> HIDE DEF rows, b, cut, after, slots
<1>9. r \in U
  BY <1>8 DEF Unseen
<1>10. r \in cut
  <2>1. CASE HasMore(rows, b, cut)
    <3>1. ~AheadIn(feed, r, next)
      BY <1>4, <1>7, <1>8, <2>1 DEF PassedBy
    <3>2. r \notin Unseen(rows, after)
      BY <1>4, <2>1, <3>1 DEF Unseen, AheadIn
    <3> QED BY <1>3, <1>9, <3>2
  <2>2. CASE ~HasMore(rows, b, cut)
    BY <1>2, <1>9, <2>2
  <2> QED BY <2>1, <2>2
<1>11. s \in slots
  BY <1>8, <1>10 DEF slots
<1>12. Passed(s, next)
  BY <1>6, PassedIs
<1> QED BY <1>5, <1>11, <1>12, UnmarkedIs

\* From the tip no block has been passed.
LEMMA TipPassesNone ==
  ASSUME NEW f \in Feeds, ~ByBlock(f), NEW n \in 0..Len(f.history),
         NEW c, c # <<>>, Before(c) = Below(Top), NEW s \in Touching(f.history, n)
  PROVE  ~PassedBy(f, s, c)
<1>1. s \in 1..n /\ RowsAt(f, s) # {} /\ RowsAt(f, s) = {r \in Rows(f.history, n) : r.slot = s}
  BY TouchingIs, RowsAtIs
<1>2. PICK r \in RowsAt(f, s) : r \in Rows(f.history, n)
  BY <1>1
<1>3. PICK t \in 1..n, i \in 1..MaxRows :
        /\ f.history[t].rows[i] \in Sources
        /\ r = [slot |-> t, src |-> f.history[t].rows[i], id |-> RowId(t, i)]
  BY <1>2, RowAt, ZenonT(30)
<1>4. Len(f.history) \in Nat /\ RowId(Len(f.history), MaxRows) < Top /\ Top \in Nat
  BY FeedsAssumption, ReplayAssumption, RowsAtIs
<1>5. RowId(t, i) < Top
  <2> DEFINE N == Len(f.history)
  <2>1. N \in Nat /\ 3 * N + 3 < Top /\ t \in 1..N /\ i \in 1..3
    BY <1>4 DEF RowId, MaxRows
  <2> HIDE DEF N
  <2>2. 3 * t + i < Top
    BY <1>4, <2>1
  <2> QED BY <2>2 DEF RowId, MaxRows
<1>6. r.id < Before(c)[r.src]
  BY <1>3, <1>5 DEF Below
<1> QED BY <1>2, <1>6 DEF PassedBy, AheadIn

-----------------------------------------------------------------------------
(* The feed has no gap *)

Later(a, b) == IF a < b THEN b ELSE a

\* Among the first n blocks, those that a place is not above are shown.
NoGap(f, n, c, secs) == \A s \in Touching(f.history, n) : PassedBy(f, s, c) => s \in Slots(secs)

Marked(m, names) == m \cap names # {}

Pace ==
  /\ applied \in 1..Len(History) /\ synced \in 1..Len(History)
  /\ applied <= synced + MaxLag /\ synced <= applied + MaxLag
  /\ sent \in 0..applied
  /\ task \in {"closed", "query", "send", "live"} /\ away \in BOOLEAN

\* The first page is db-sync's of when it was asked for.
PageIsRecent ==
  /\ page \subseteq 1..Later(applied, synced)
  /\ task = "send" => /\ upto \in 1..synced /\ sent <= upto + MaxLag
                      /\ ByBlock(feed) => page = RecentBlocks(History, upto, Top)

\* The first page's place is one that db-sync is at; a pool's is the tip.
SeedIsKnown ==
  seed # <<>> => IF ByBlock(feed) THEN Before(seed)["touch"] <= synced
                 ELSE Before(seed) = Below(Top)

\* What db-sync does not have yet came with the stream.
LagIsShown ==
  (task = "live" /\ ~Marked(marks, {"fetch"})) =>
     \A s \in Touching(History, sent) : s > synced => s \in Slots(shown)

\* Neither the cursor nor its seed nor a request under way is past a block that
\* is not shown.
GapsAreAhead ==
  (task = "live" /\ ~Marked(marks, {"fetch", "top", "deep"})) =>
     /\ NoGap(feed, sent, cursor, shown) /\ NoGap(feed, sent, seed, shown)
     /\ pending # <<>> => NoGap(feed, sent, pending, shown)

PageInv ==
  /\ ReadInv /\ Pace /\ PageIsRecent /\ SeedIsKnown /\ LagIsShown /\ GapsAreAhead
  /\ Listing(feed, Later(applied, synced), shown)
  /\ marks \subseteq {"top", "deep", "fetch", "lag"}
  /\ \A place \in {cursor, seed, pending} : Len(place) <= 1

LEMMA ListingMore ==
  ASSUME NEW f, NEW n \in Nat, NEW m \in Nat, n <= m, NEW secs, Listing(f, n, secs)
  PROVE  Listing(f, m, secs)
BY DEF Listing

LEMMA LaterIs ==
  ASSUME NEW a \in Nat, NEW b \in Nat
  PROVE  Later(a, b) \in Nat /\ a <= Later(a, b) /\ b <= Later(a, b)
         /\ (Later(a, b) = a \/ Later(a, b) = b)
BY DEF Later

LEMMA PaceIs ==
  ASSUME PageInv
  PROVE  /\ feed \in Feeds /\ Len(History) \in Nat
         /\ applied \in Nat /\ synced \in Nat /\ sent \in Nat
         /\ applied \in 0..Len(History) /\ synced \in 0..Len(History)
         /\ sent \in 0..Len(History) /\ sent <= applied
         /\ Later(applied, synced) \in 0..Len(History)
         /\ MaxLag \in Nat
<1>1. feed \in Feeds /\ Len(History) \in Nat
  BY RowsAtIs DEF PageInv, ReadInv, History
<1>2. Retained \in Nat /\ MaxLag \in Nat
  BY ScrollAssumption
<1> QED BY <1>1, <1>2 DEF PageInv, Pace, Later

\* A step that leaves the sections, their marks and the places alone, but for
\* the request under way.
LEMMA SameSections ==
  ASSUME PageInv, ReadInv', Pace', PageIsRecent', SeedIsKnown',
         UNCHANGED <<feed, sent, shown, marks, cursor, seed>>,
         applied' >= applied, synced' >= synced,
         task' = "live" => task = "live",
         pending' = pending \/ pending' = cursor \/ pending' = <<>>
  PROVE  PageInv'
<1>1. History' = History
  BY DEF History
<1>2. Listing(feed, Later(applied, synced), shown)'
  <2>1. /\ applied \in Nat /\ synced \in Nat /\ applied' \in Nat /\ synced' \in Nat
    BY <1>1, PaceIs DEF Pace
  <2>2. Later(applied, synced) \in Nat /\ Later(applied', synced') \in Nat
        /\ Later(applied, synced) <= Later(applied', synced')
    BY <2>1 DEF Later
  <2>3. Listing(feed, Later(applied, synced), shown)
    BY DEF PageInv
  <2>4. Listing(feed, Later(applied', synced'), shown)
    BY <2>2, <2>3, ListingMore
  <2> QED BY <2>4
<1>3. LagIsShown'
  <2>1. synced \in Nat /\ synced' \in Nat
    BY <1>1, PaceIs DEF Pace
  <2>2. \A s \in Touching(History, sent) : s \in Nat
    BY PaceIs, TouchingIs DEF History
  <2> QED BY <1>1, <2>1, <2>2 DEF PageInv, LagIsShown
<1>4. GapsAreAhead'
  BY <1>1 DEF PageInv, GapsAreAhead
<1>5. \A place \in {cursor', seed', pending'} : Len(place) <= 1
  <2>1. Len(<<>>) <= 1
    OBVIOUS
  <2>2. Len(cursor) <= 1 /\ Len(seed) <= 1 /\ Len(pending) <= 1
    BY DEF PageInv
  <2> QED BY <2>1, <2>2
<1>6. (marks \subseteq {"top", "deep", "fetch", "lag"})'
  BY DEF PageInv
<1> QED BY <1>2, <1>3, <1>4, <1>5, <1>6 DEF PageInv

\* A block that db-sync does not have is not trimmed.
LEMMA TrimShows ==
  ASSUME PageInv, NEW secs, Listing(feed, Later(applied, synced), secs),
         NEW s \in Slots(secs), s > synced
  PROVE  s \in Slots(Trimmed(secs))
<1>1. PICK sec \in secs : sec.slot = s
  BY DEF Slots
<1>2. applied \in Nat /\ synced \in Nat /\ applied <= synced + MaxLag
  BY PaceIs DEF PageInv, Pace
<1>3. \A t \in secs : t.slot \in 1..Later(applied, synced)
  BY DEF Listing
<1>4. Later(applied, synced) \in Nat
      /\ (Later(applied, synced) = applied \/ Later(applied, synced) = synced)
  BY <1>2 DEF Later
<1>5. s \in Nat
  BY <1>1, <1>3, <1>4
<1>6. \A t \in secs : t.slot > s => t.slot \in (s + 1)..applied
  BY <1>2, <1>3, <1>4, <1>5
<1>7. MaxLag \in Nat /\ MaxShown \in Nat /\ MaxLag <= MaxShown
  BY ScrollAssumption
<1>8. applied < s + MaxShown
  BY <1>2, <1>5, <1>7
<1>9. sec \in Trimmed(secs)
  BY <1>1, <1>2, <1>5, <1>6, <1>8, TrimKeeps DEF Listing
<1> QED BY <1>1, <1>9 DEF Slots

\* A response.
LEMMA TakeKeeps ==
  ASSUME PageInv, ReadInv', NEW slots, NEW walked, NEW sections, NEW next,
         Take(slots, walked, sections, next), task = "live", pending # <<>>,
         Len(next) <= 1, Listing(feed, synced, sections), Slots(sections) = walked,
         NoMark(slots, walked, next) =>
           \A s \in Touching(History, synced) :
             ~PassedBy(feed, s, pending) /\ PassedBy(feed, s, next) => s \in walked
  PROVE  PageInv'
<1>1. /\ UNCHANGED <<feed, applied, synced, task, page, upto, sent, seed, away>>
      /\ shown' = InsertOlder(sections) /\ cursor' = next
      /\ marks' = marks \cup FetchMark(slots, walked, next)
      /\ pending' = next \/ pending' = <<>>
  BY DEF Take, chain, stream
<1>2. History' = History
  BY <1>1 DEF History
<1> DEFINE n == Later(applied, synced)
<1>3. /\ n \in Nat /\ synced \in Nat /\ synced <= n /\ sent \in 0..Len(History)
      /\ applied \in Nat /\ feed \in Feeds /\ synced \in 0..Len(History)
  BY PaceIs DEF Later
<1>4. Listing(feed, n, shown) /\ Listing(feed, n, sections)
  BY <1>3, ListingMore DEF PageInv
<1>5. /\ Listing(feed, n, shown') /\ Slots(shown') = Slots(shown) \cup walked
  BY <1>1, <1>3, <1>4, InsertIs
<1>6. LagIsShown'
  BY <1>1, <1>2, <1>5 DEF LagIsShown, PageInv, Marked
<1>7. GapsAreAhead'
  <2>1. SUFFICES ASSUME ~Marked(marks', {"fetch", "top", "deep"})
                 PROVE  /\ NoGap(feed, sent, next, shown') /\ NoGap(feed, sent, seed, shown')
    BY <1>1, <1>2 DEF GapsAreAhead
  <2>2. ~Marked(marks, {"fetch", "top", "deep"}) /\ ~Marked(marks, {"fetch"})
    BY <1>1, <2>1 DEF Marked
  <2>3. NoMark(slots, walked, next)
    BY <1>1, <2>1 DEF Marked, NoMark, FetchMark
  <2>4. NoGap(feed, sent, seed, shown) /\ NoGap(feed, sent, pending, shown)
    BY <2>2 DEF PageInv, GapsAreAhead
  <2>5. NoGap(feed, sent, seed, shown')
    BY <1>5, <2>4 DEF NoGap
  <2>6. ASSUME NEW s \in Touching(History, sent), PassedBy(feed, s, next)
        PROVE  s \in Slots(shown) \cup walked
    <3>1. CASE PassedBy(feed, s, pending)
      BY <2>4, <2>6, <3>1 DEF NoGap, History
    <3>2. CASE s > synced
      BY <2>2, <2>6, <3>2 DEF PageInv, LagIsShown
    <3>3. CASE ~PassedBy(feed, s, pending) /\ ~(s > synced)
      <4>1. s \in Touching(History, synced)
        BY <1>3, <2>6, <3>3 DEF Touching
      <4> QED BY <2>3, <2>6, <3>3, <4>1
    <3> QED BY <3>1, <3>2, <3>3
  <2>7. NoGap(feed, sent, next, shown')
    BY <1>5, <2>6 DEF NoGap, History
  <2> QED BY <2>5, <2>7
<1>8. \A place \in {cursor', seed', pending'} : Len(place) <= 1
  <2>1. Len(<<>>) <= 1
    OBVIOUS
  <2>2. Len(seed) <= 1
    BY DEF PageInv
  <2> QED BY <1>1, <2>1, <2>2
<1>9. marks' \subseteq {"top", "deep", "fetch", "lag"}
  BY <1>1 DEF PageInv, FetchMark
<1>10. Pace' /\ PageIsRecent' /\ SeedIsKnown'
  BY <1>1, <1>2 DEF PageInv, Pace, PageIsRecent, SeedIsKnown
<1>11. Listing(feed, Later(applied, synced), shown)'
  BY <1>1, <1>5
<1> QED BY <1>6, <1>7, <1>8, <1>9, <1>10, <1>11 DEF PageInv

\* The stream's next block.
LEMMA DeliverKeeps ==
  ASSUME PageInv, ReadInv', Deliver
  PROVE  PageInv'
<1> DEFINE new == IF History[sent + 1].rows = <<>> THEN {} ELSE {Whole(sent + 1)}
           secs == InsertOlder(new)
           n == Later(applied, synced)
<1>1. /\ UNCHANGED <<feed, applied, synced, task, page, upto, seed, cursor, pending, away>>
      /\ shown' = Trimmed(secs) /\ sent' = sent + 1 /\ sent < applied /\ task = "live"
      /\ marks' = marks \cup TrimMark(secs, cursor, seed)
  BY DEF Deliver, chain
<1>2. History' = History
  BY <1>1 DEF History
<1>3. /\ n \in Nat /\ synced \in Nat /\ applied \in Nat /\ applied <= n
      /\ sent \in Nat /\ sent + 1 \in 1..Len(History) /\ sent' \in 0..Len(History)
      /\ sent + 1 <= n /\ feed \in Feeds /\ sent' = sent + 1 /\ sent + 1 \in 1..n
      /\ n \in 0..Len(History)
  BY <1>1, PaceIs DEF Later
<1>4. /\ Listing(feed, n, new)
      /\ sent + 1 \in Touching(History, sent + 1) => Slots(new) = {sent + 1}
  <2>1. SectionIs(feed, Whole(sent + 1)) /\ Whole(sent + 1).slot = sent + 1
    BY <1>3, WholeIs
  <2>2. Listing(feed, n, {}) /\ Listing(feed, n, {Whole(sent + 1)})
    BY <1>3, <2>1 DEF Listing, OnePerSlot
  <2>3. Slots({Whole(sent + 1)}) = {sent + 1}
    BY <2>1 DEF Slots
  <2> QED BY <2>2, <2>3 DEF Touching
<1>5. Listing(feed, n, shown)
  BY DEF PageInv
<1> HIDE DEF new, n
<1>6. Listing(feed, n, secs) /\ Slots(secs) = Slots(shown) \cup Slots(new)
  BY <1>3, <1>4, <1>5, InsertIs
<1> HIDE DEF secs
<1>7. Listing(feed, n, shown')
  BY <1>1, <1>6, TrimIs
<1>8. \A s \in Touching(History, sent + 1) :
         s \in Touching(History, sent) \/ s \in Slots(secs)
  BY <1>3, <1>4, <1>6 DEF Touching
<1>9. LagIsShown'
  <2>1. SUFFICES ASSUME ~Marked(marks', {"fetch"}), NEW s \in Touching(History, sent + 1),
                        s > synced
                 PROVE  s \in Slots(shown')
    BY <1>1, <1>2 DEF LagIsShown
  <2>2. ~Marked(marks, {"fetch"})
    BY <1>1, <2>1 DEF Marked
  <2>3. s \in Slots(secs)
    BY <1>1, <1>6, <1>8, <2>1, <2>2 DEF PageInv, LagIsShown
  <2> QED BY <1>1, <1>6, <2>1, <2>3, TrimShows DEF n
<1>10. GapsAreAhead'
  <2>1. SUFFICES ASSUME ~Marked(marks', {"fetch", "top", "deep"})
                 PROVE  /\ NoGap(feed, sent + 1, cursor, shown')
                        /\ NoGap(feed, sent + 1, seed, shown')
                        /\ pending # <<>> => NoGap(feed, sent + 1, pending, shown')
    BY <1>1, <1>2 DEF GapsAreAhead
  <2>2. ~Marked(marks, {"fetch", "top", "deep"})
        /\ TrimMark(secs, cursor, seed) \cap {"top", "deep"} = {}
    BY <1>1, <2>1 DEF Marked
  <2>3. \A s \in Slots(secs) :
           Passed(s, cursor) \/ (pending # <<>> /\ Passed(s, pending)) => s \in Slots(shown')
    BY <1>1, <2>2, TrimLoses
  <2>4. \A s \in Slots(secs) : s \in 1..Len(History)
    BY <1>3, <1>6 DEF Slots, Listing, SectionIs, History
  <2>5. \A s \in Slots(secs) :
           PassedBy(feed, s, cursor) \/ (pending # <<>> /\ PassedBy(feed, s, pending))
             => s \in Slots(shown')
    BY <1>3, <2>3, <2>4, PassedIs
  <2>6. /\ NoGap(feed, sent, cursor, shown) /\ NoGap(feed, sent, seed, shown)
        /\ pending # <<>> => NoGap(feed, sent, pending, shown)
    BY <1>1, <2>2 DEF PageInv, GapsAreAhead
  <2>7. \A c : NoGap(feed, sent, c, shown) =>
           \A s \in Touching(History, sent + 1) : PassedBy(feed, s, c) => s \in Slots(secs)
    BY <1>6, <1>8 DEF NoGap, History
  <2>8. IsPlace(feed, cursor) /\ IsPlace(feed, seed) /\ NotAbove(cursor, seed)
    BY DEF PageInv, ReadInv
  <2>9. \A s : PassedBy(feed, s, seed) => PassedBy(feed, s, cursor)
    BY <1>3, <2>8, PassedLower
  <2>10. NoGap(feed, sent + 1, cursor, shown')
    BY <2>5, <2>6, <2>7 DEF NoGap, History
  <2>11. NoGap(feed, sent + 1, seed, shown')
    BY <2>5, <2>6, <2>7, <2>9 DEF NoGap, History
  <2>12. pending # <<>> => NoGap(feed, sent + 1, pending, shown')
    BY <2>5, <2>6, <2>7 DEF NoGap, History
  <2> QED BY <2>10, <2>11, <2>12
<1>11. marks' \subseteq {"top", "deep", "fetch", "lag"}
  BY <1>1 DEF PageInv, TrimMark
<1>12. Pace' /\ PageIsRecent' /\ SeedIsKnown'
  BY <1>1, <1>2, <1>3 DEF PageInv, Pace, PageIsRecent, SeedIsKnown
<1>13. Listing(feed, Later(applied, synced), shown)'
  BY <1>1, <1>7 DEF n
<1>14. \A place \in {cursor', seed', pending'} : Len(place) <= 1
  BY <1>1 DEF PageInv
<1> QED BY <1>9, <1>10, <1>11, <1>12, <1>13, <1>14 DEF PageInv

\* Sections of different blocks.
LEMMA TogetherAre ==
  ASSUME NEW n, NEW a, NEW b, Listing(feed, n, a), Listing(feed, n, b),
         Slots(a) \cap Slots(b) = {}
  PROVE  Listing(feed, n, a \cup b) /\ Slots(a \cup b) = Slots(a) \cup Slots(b)
<1>1. Slots(a \cup b) = Slots(a) \cup Slots(b)
  BY DEF Slots
<1>2. \A x \in a, y \in b : x.slot # y.slot
  BY DEF Slots
<1>3. OnePerSlot(a \cup b)
  BY <1>2 DEF Listing, OnePerSlot
<1> QED BY <1>1, <1>3 DEF Listing

\* The blocks of the first page that the node gave, and those that the bus kept.
LEMMA FirstSectionsAre ==
  ASSUME PageInv, task = "send", NEW walked \in SUBSET page, NEW anchor
  PROVE  LET secs == FirstSections(walked, anchor) \cup SnapshotSections
             kept == {t \in Touching(History, sent) : t > sent - Retained /\ t \notin page}
         IN  /\ Listing(feed, Later(applied, synced), secs)
             /\ Slots(secs) = walked \cup kept
<1> DEFINE n == Later(applied, synced)
           first == FirstSections(walked, anchor)
           kept == {t \in Touching(History, sent) : t > sent - Retained /\ t \notin page}
<1>1. /\ feed \in Feeds /\ n \in 0..Len(History) /\ sent \in 0..Len(History) /\ sent <= n
      /\ sent \in Nat /\ n \in Nat
  BY PaceIs DEF Later
<1>2. page \subseteq 1..n
  BY DEF PageInv, PageIsRecent
<1>3. walked \in SUBSET (1..n)
  BY <1>2
<1>4. kept \in SUBSET (1..n)
  BY <1>1, TouchingIs DEF History
<1> HIDE DEF n
<1>5. Listing(feed, n, first) /\ Slots(first) = walked
  <2>1. CASE BySlot
    <3>1. first = StakeSections(page, walked, anchor)
      BY <2>1 DEF FirstSections
    <3> QED BY <1>1, <1>3, <3>1, WalkedAre
  <2>2. CASE ~BySlot
    <3>1. first = {Whole(s) : s \in walked}
      BY <2>2 DEF FirstSections
    <3> QED BY <1>1, <1>3, <3>1, WholesAre
  <2> QED BY <2>1, <2>2
<1>6. Listing(feed, n, SnapshotSections) /\ Slots(SnapshotSections) = kept
  <2>1. SnapshotSections = {Whole(s) : s \in kept}
    BY DEF SnapshotSections
  <2> HIDE DEF kept
  <2> QED BY <1>1, <1>4, <2>1, WholesAre
<1>7. walked \cap kept = {}
  OBVIOUS
<1> HIDE DEF first, kept
<1>8. /\ Listing(feed, n, first \cup SnapshotSections)
      /\ Slots(first \cup SnapshotSections) = walked \cup kept
  BY <1>5, <1>6, <1>7, TogetherAre
<1> QED BY <1>8 DEF n, first, kept

\* A block of the first page or of before it, that the place is not above, and
\* that is not on the page, was kept by the bus.
LEMMA SendGets ==
  ASSUME PageInv, task = "send", NEW walked \in SUBSET page, NEW anchor,
         NoMark(page, walked, Seed(walked, anchor)),
         NEW s \in Touching(History, sent),
         PassedBy(feed, s, Seed(walked, anchor)) \/ s > synced
  PROVE  s \in walked \/ (s > sent - Retained /\ s \notin page)
<1> DEFINE place == Seed(walked, anchor)
<1>1. /\ feed \in Feeds /\ sent \in 0..Len(History) /\ sent \in Nat /\ synced \in Nat
      /\ Len(History) \in Nat /\ MaxLag \in Nat
  BY PaceIs
<1>2. s \in 1..sent /\ s \in 1..Len(History) /\ s \in Nat
  BY <1>1, TouchingIs DEF History
<1>3. /\ upto \in 1..synced /\ sent <= upto + MaxLag
      /\ ByBlock(feed) => page = RecentBlocks(History, upto, Top)
  BY DEF PageInv, PageIsRecent
<1>4. Retained \in Nat /\ MaxLag <= Retained
  BY ScrollAssumption
<1>5. CASE s \in page
  <2>1. Passed(s, place) \/ s > synced
    BY <1>1, <1>2, PassedIs
  <2> QED BY <1>5, <2>1, UnmarkedIs
<1>6. CASE s \notin page /\ s > upto
  BY <1>1, <1>2, <1>3, <1>4, <1>6
<1>7. CASE s \notin page /\ ~(s > upto)
  <2>1. PassedBy(feed, s, place)
    BY <1>1, <1>2, <1>3, <1>7
  <2>2. CASE ByBlock(feed)
    <3>1. place = SlotPlace(page, walked, anchor) /\ page = RecentBlocks(History, upto, Top)
      BY <1>3, <2>2 DEF Seed, BySlot, ByBlock
    <3>2. upto \in 0..Len(History) /\ s \in Touching(History, upto) /\ Top \in Nat
      <4>1. synced \in 1..Len(History)
        BY DEF PageInv, Pace
      <4> QED BY <1>1, <1>2, <1>3, <1>7, <4>1, ReplayAssumption DEF Touching
    <3>3. s < Top
      <4> DEFINE N == Len(History)
      <4>1. 3 * N + 3 < Top
        BY <1>1, FeedsAssumption DEF History, RowId, MaxRows
      <4>2. s <= N /\ N \in Nat
        BY <1>1, <1>2
      <4> HIDE DEF N
      <4> QED BY <1>2, <3>2, <4>1, <4>2
    <3>4. NoMark(page, walked, place)
      OBVIOUS
    <3> HIDE DEF place
    <3>5. s \in walked
      BY <1>1, <2>1, <2>2, <3>1, <3>2, <3>3, <3>4, SlotPageGets
    <3> QED BY <1>7, <3>5
  <2>3. CASE ~ByBlock(feed)
    <3>1. place = <<Place(Below(Top), 0, 0)>>
      BY <2>3 DEF Seed, BySlot, ByBlock
    <3>2. place # <<>> /\ Before(place) = Below(Top)
      BY <3>1, BeforePlace
    <3> HIDE DEF place
    <3> QED BY <1>1, <2>1, <2>3, <3>2, TipPassesNone DEF History
  <2> QED BY <2>2, <2>3
<1> QED BY <1>5, <1>6, <1>7

\* The place of the first page.
LEMMA SeedIs ==
  ASSUME PageInv, task = "send", NEW walked \in SUBSET page, NEW anchor
  PROVE  LET place == Seed(walked, anchor)
         IN  /\ Len(place) <= 1
             /\ place # <<>> => IF ByBlock(feed) THEN Before(place)["touch"] <= synced
                                ELSE Before(place) = Below(Top)
<1> DEFINE place == Seed(walked, anchor)
<1>1. synced \in Nat /\ feed \in Feeds /\ synced \in 1..Len(History) /\ Len(History) \in Nat
  BY PaceIs DEF PageInv, Pace
<1>2. CASE ByBlock(feed)
  <2>1. place = SlotPlace(page, walked, anchor) /\ page = RecentBlocks(History, upto, Top)
        /\ upto \in 0..Len(History) /\ upto <= synced /\ upto \in Nat /\ Top \in Nat
    BY <1>1, <1>2, ReplayAssumption DEF Seed, BySlot, ByBlock, PageInv, PageIsRecent
  <2>2. page \subseteq 1..upto
    <3> DEFINE below == {t \in Touching(History, upto) : t < Top}
    <3>1. page \subseteq below /\ below \subseteq 1..upto
      BY <1>1, <2>1, RecentBlocksAreTop DEF History
    <3> QED BY <3>1
  <2>3. page \subseteq Nat /\ \A m \in page \cup {0} : m <= synced
    BY <1>1, <2>1, <2>2
  <2> HIDE DEF place
  <2>4. \/ place = <<>> \/ GoesOn(page, walked, place)
    BY <2>1, <2>3, SlotPlaceIs
  <2>5. place # <<>> => Before(place)["touch"] <= synced
    BY <2>3, <2>4 DEF GoesOn, Below, Sources
  <2>6. Len(place) <= 1
    <3>1. \A x : Len(<<x>>) <= 1 /\ Len(<<>>) <= 1
      OBVIOUS
    <3>2. place = <<>> \/ \E x : place = <<x>>
      BY <2>1 DEF SlotPlace
    <3> QED BY <3>1, <3>2
  <2> QED BY <1>2, <2>5, <2>6 DEF place
<1>3. CASE ~ByBlock(feed)
  <2>1. place = <<Place(Below(Top), 0, 0)>>
    BY <1>3 DEF Seed, BySlot, ByBlock
  <2>2. \A x : Len(<<x>>) <= 1
    OBVIOUS
  <2> HIDE DEF place
  <2>3. Len(place) <= 1 /\ Before(place) = Below(Top)
    BY <2>1, <2>2, BeforePlace
  <2> QED BY <1>3, <2>3 DEF place
<1> QED BY <1>2, <1>3

LEMMA SendKeeps ==
  ASSUME PageInv, ReadInv', SendBlocks
  PROVE  PageInv'
<1>1. PICK walked \in SUBSET page : Send(walked)
  BY DEF SendBlocks
<1> DEFINE place == Seed(walked, Anchor)
           secs == FirstSections(walked, Anchor) \cup SnapshotSections
           kept == {t \in Touching(History, sent) : t > sent - Retained /\ t \notin page}
           n == Later(applied, synced)
           lag == IF applied # upto \/ synced # upto THEN {"lag"} ELSE {}
<1>2. /\ UNCHANGED <<feed, applied, synced, sent, pending, away>>
      /\ task = "send" /\ task' = "live" /\ page' = {} /\ shown' = Trimmed(secs)
      /\ seed' = place /\ cursor' = place
      /\ marks' = TrimMark(secs, place, place) \cup FetchMark(page, walked, place) \cup lag
  BY <1>1 DEF Send, chain
<1>3. History' = History /\ pending = <<>> /\ pending' = <<>>
  BY <1>2 DEF History, PageInv, ReadInv
<1>4. /\ feed \in Feeds /\ sent \in 0..Len(History) /\ synced \in Nat /\ n \in Nat
      /\ n \in 0..Len(History)
  BY PaceIs DEF Later
<1>5. Listing(feed, n, secs) /\ Slots(secs) = walked \cup kept
  BY <1>2, FirstSectionsAre
<1>6. /\ Len(place) <= 1
      /\ place # <<>> => IF ByBlock(feed) THEN Before(place)["touch"] <= synced
                         ELSE Before(place) = Below(Top)
  BY <1>2, SeedIs
<1>7. NoMark(page, walked, place) =>
        \A s \in Touching(History, sent) :
          PassedBy(feed, s, place) \/ s > synced => s \in walked \cup kept
  BY <1>2, SendGets
<1> HIDE DEF place, secs, kept, n, lag
<1>8. Listing(feed, n, shown')
  BY <1>2, <1>5, TrimIs
<1>9. ~Marked(marks', {"fetch"}) => NoMark(page, walked, place)
  BY <1>2 DEF Marked, NoMark, FetchMark
<1>10. LagIsShown'
  <2>1. SUFFICES ASSUME ~Marked(marks', {"fetch"}), NEW s \in Touching(History, sent),
                        s > synced
                 PROVE  s \in Slots(shown')
    BY <1>2, <1>3 DEF LagIsShown
  <2>2. s \in Slots(secs)
    BY <1>5, <1>7, <1>9, <2>1
  <2> QED BY <1>2, <1>5, <2>1, <2>2, TrimShows DEF n
<1>11. GapsAreAhead'
  <2>1. SUFFICES ASSUME ~Marked(marks', {"fetch", "top", "deep"})
                 PROVE  NoGap(feed, sent, place, shown')
    BY <1>2, <1>3 DEF GapsAreAhead
  <2>2. ~Marked(marks', {"fetch"}) /\ TrimMark(secs, place, place) \cap {"top", "deep"} = {}
    BY <1>2, <2>1 DEF Marked
  <2>3. \A s \in Slots(secs) : Passed(s, place) => s \in Slots(shown')
    BY <1>2, <2>2, TrimLoses
  <2>4. ASSUME NEW s \in Touching(History, sent), PassedBy(feed, s, place)
        PROVE  s \in Slots(shown')
    <3>1. s \in Slots(secs)
      BY <1>5, <1>7, <1>9, <2>2, <2>4
    <3>2. s \in 1..Len(History)
      BY <1>4, TouchingIs DEF History
    <3>3. Passed(s, place)
      BY <1>4, <2>4, <3>2, PassedIs
    <3> QED BY <2>3, <3>1, <3>3
  <2> QED BY <2>4 DEF NoGap, History
<1>12. marks' \subseteq {"top", "deep", "fetch", "lag"}
  BY <1>2 DEF TrimMark, FetchMark, lag
<1>13. Pace'
  BY <1>2, <1>3 DEF PageInv, Pace
<1>14. PageIsRecent' /\ SeedIsKnown'
  BY <1>2, <1>6 DEF PageIsRecent, SeedIsKnown
<1>15. Listing(feed, Later(applied, synced), shown)'
  BY <1>2, <1>8 DEF n
<1>16. \A c \in {cursor', seed', pending'} : Len(c) <= 1
  <2>1. Len(<<>>) <= 1
    OBVIOUS
  <2> QED BY <1>2, <1>3, <1>6, <2>1
<1> QED BY <1>10, <1>11, <1>12, <1>13, <1>14, <1>15, <1>16 DEF PageInv

LEMMA QueryKeeps ==
  ASSUME PageInv, ReadInv', Query
  PROVE  PageInv'
<1>1. /\ UNCHANGED <<feed, applied, synced, sent, shown, cursor, seed, pending, away, marks>>
      /\ task' = "send" /\ page' = FirstPage /\ upto' = synced
  BY DEF Query, chain, client
<1>2. History' = History
  BY <1>1 DEF History
<1>3. /\ feed \in Feeds /\ Len(History) \in Nat /\ applied \in Nat /\ synced \in Nat
      /\ applied \in 0..Len(History) /\ synced \in 0..Len(History)
      /\ sent \in Nat /\ sent <= applied
  BY PaceIs
<1>4. Pace'
  BY <1>1, <1>2 DEF PageInv, Pace
<1>5. FirstPage \subseteq 1..Later(applied, synced)
  <2>1. CASE BySlot
    <3>1. FirstPage \subseteq Touching(History, synced)
      BY <2>1 DEF FirstPage, RecentBlocks, NewestSlots
    <3> QED BY <1>3, <3>1 DEF Touching, Later
  <2>2. CASE ~BySlot
    <3>1. FirstPage \subseteq {r.slot : r \in AllFetched(Rows(History, applied), Below(Top))}
      BY <2>2 DEF FirstPage, NewestSlots
    <3>2. AllFetched(Rows(History, applied), Below(Top)) \subseteq Rows(History, applied)
      BY DEF AllFetched, Fetched, NewestRows
    <3>3. \A r \in Rows(History, applied) : r.slot \in Touching(History, applied)
      BY <1>3, RowTouches DEF History
    <3> QED BY <1>3, <3>1, <3>2, <3>3 DEF Touching, Later
  <2> QED BY <2>1, <2>2
<1>6. ByBlock(feed) => FirstPage = RecentBlocks(History, synced, Top)
  BY DEF FirstPage, BySlot, ByBlock
<1>7. synced \in 1..synced /\ sent <= synced + MaxLag
  <2>1. synced \in 1..Len(History) /\ applied <= synced + MaxLag /\ MaxLag \in Nat
    BY PaceIs DEF PageInv, Pace
  <2> QED BY <1>3, <2>1
<1>8. PageIsRecent'
  BY <1>1, <1>2, <1>5, <1>6, <1>7 DEF PageIsRecent
<1>9. SeedIsKnown'
  BY <1>1 DEF PageInv, SeedIsKnown
<1> QED BY <1>1, <1>3, <1>4, <1>8, <1>9, SameSections

LEMMA ConnectKeeps ==
  ASSUME PageInv, ReadInv', Connect
  PROVE  PageInv'
<1>1. /\ UNCHANGED <<feed, applied, synced>> /\ task' = "query" /\ sent' = applied
      /\ page' = {} /\ shown' = {} /\ cursor' = <<>> /\ seed' = <<>> /\ pending' = <<>>
      /\ away' = FALSE /\ marks' = {}
  BY DEF Connect, chain
<1>2. History' = History
  BY <1>1 DEF History
<1>3. Pace'
  <2>1. applied \in 0..applied
    BY PaceIs
  <2> QED BY <1>1, <1>2, <2>1 DEF PageInv, Pace
<1>4. Listing(feed, Later(applied, synced), shown)'
  BY <1>1 DEF Listing, OnePerSlot
<1>5. \A place \in {cursor', seed', pending'} : Len(place) <= 1
  <2>1. Len(<<>>) <= 1
    OBVIOUS
  <2> QED BY <1>1, <2>1
<1>6. PageIsRecent' /\ SeedIsKnown' /\ LagIsShown' /\ GapsAreAhead'
  BY <1>1 DEF PageIsRecent, SeedIsKnown, LagIsShown, GapsAreAhead
<1> QED BY <1>1, <1>3, <1>4, <1>5, <1>6 DEF PageInv

LEMMA ScrollBackKeeps ==
  ASSUME PageInv, ReadInv', ScrollBack
  PROVE  PageInv'
<1>1. /\ UNCHANGED <<feed, applied, synced, task, page, upto, sent, shown, seed, pending>>
      /\ away' = FALSE
  BY DEF ScrollBack, chain, stream
<1>2. History' = History
  BY <1>1 DEF History
<1>3. Pace' /\ PageIsRecent' /\ SeedIsKnown'
  BY <1>1, <1>2 DEF PageInv, Pace, PageIsRecent, SeedIsKnown
<1>4. CASE seed = <<>>
  <2>1. UNCHANGED <<cursor, marks>>
    BY <1>4 DEF ScrollBack
  <2> QED BY <1>1, <1>3, <2>1, PaceIs, SameSections
<1>5. CASE seed # <<>>
  <2>1. /\ cursor' = seed
        /\ marks' = IF BySlot \/ pending # <<>> THEN marks ELSE marks \ {"deep"}
    BY <1>5 DEF ScrollBack
  <2>2. Listing(feed, Later(applied, synced), shown)'
    BY <1>1 DEF PageInv
  <2>3. LagIsShown'
    BY <1>1, <1>2, <2>1 DEF PageInv, LagIsShown, Marked
  <2>4. GapsAreAhead'
    <3>1. CASE BySlot \/ pending # <<>>
      BY <1>1, <1>2, <2>1, <3>1 DEF PageInv, GapsAreAhead
    <3>2. CASE ~BySlot /\ pending = <<>>
      <4>1. Before(seed) = Below(Top) /\ ~ByBlock(feed)
        BY <1>5, <3>2 DEF PageInv, SeedIsKnown, BySlot, ByBlock
      <4>2. feed \in Feeds /\ sent \in 0..Len(feed.history)
        BY PaceIs DEF History
      <4>3. NoGap(feed, sent, seed, shown)
        BY <1>5, <4>1, <4>2, TipPassesNone DEF NoGap
      <4> QED BY <1>1, <2>1, <3>2, <4>3 DEF GapsAreAhead
    <3> QED BY <3>1, <3>2
  <2>5. marks' \subseteq {"top", "deep", "fetch", "lag"}
    BY <2>1 DEF PageInv
  <2>6. \A place \in {cursor', seed', pending'} : Len(place) <= 1
    BY <1>1, <2>1 DEF PageInv
  <2> QED BY <1>3, <2>2, <2>3, <2>4, <2>5, <2>6 DEF PageInv
<1> QED BY <1>4, <1>5

LEMMA PageInvInit == Init => PageInv
<1> SUFFICES ASSUME Init PROVE PageInv
  OBVIOUS
<1>1. ReadInv
  BY ReadInvInit
<1>2. Start \in Nat \ {0} /\ MaxLag \in Nat
  BY ScrollAssumption
<1>3. Len(History) \in Nat
  BY RowsAtIs DEF Init, History
<1>4. Pace
  <2>1. applied \in Start..Len(History) /\ synced = applied /\ sent = 0
        /\ task = "closed" /\ away = FALSE
    BY DEF Init
  <2> DEFINE N == Len(History)
  <2> HIDE DEF N
  <2>2. applied \in 1..N /\ applied <= applied + MaxLag /\ 0 \in 0..applied
    BY <1>2, <1>3, <2>1 DEF N
  <2> QED BY <2>1, <2>2 DEF Pace, N
<1>5. Listing(feed, Later(applied, synced), shown)
  BY DEF Init, Listing, OnePerSlot
<1>6. \A place \in {cursor, seed, pending} : Len(place) <= 1
  <2>1. Len(<<>>) <= 1
    OBVIOUS
  <2> QED BY <2>1 DEF Init
<1>7. PageIsRecent /\ SeedIsKnown /\ LagIsShown /\ GapsAreAhead
  BY DEF Init, PageIsRecent, SeedIsKnown, LagIsShown, GapsAreAhead
<1> QED BY <1>1, <1>4, <1>5, <1>6, <1>7 DEF PageInv, Init

LEMMA PageInvNext == PageInv /\ [Next]_vars => PageInv'
<1> SUFFICES ASSUME PageInv, [Next]_vars PROVE PageInv'
  OBVIOUS
<1>1. ReadInv'
  BY ReadInvNext DEF PageInv
<1>2. /\ feed \in Feeds /\ Len(History) \in Nat /\ applied \in Nat /\ synced \in Nat
      /\ synced \in 0..Len(History) /\ sent \in Nat /\ MaxLag \in Nat
  BY PaceIs
<1>3. CASE Apply
  <2>1. /\ UNCHANGED <<feed, synced, stream, client, marks>> /\ applied' = applied + 1
        /\ applied < Len(History) /\ applied - synced < MaxLag
    BY <1>3 DEF Apply
  <2>2. History' = History
    BY <2>1 DEF History
  <2>3. Pace'
    BY <1>2, <2>1, <2>2 DEF PageInv, Pace, stream, client
  <2>4. PageIsRecent' /\ SeedIsKnown'
    BY <1>2, <2>1, <2>2 DEF PageInv, PageIsRecent, SeedIsKnown, Later, stream, client
  <2>5. UNCHANGED <<sent, shown, cursor, seed, task, pending>>
    BY <2>1 DEF stream, client
  <2> QED BY <1>1, <1>2, <2>1, <2>3, <2>4, <2>5, SameSections
<1>4. CASE Sync
  <2>1. /\ UNCHANGED <<feed, applied, stream, client, marks>> /\ synced' = synced + 1
        /\ synced < Len(History) /\ synced - applied < MaxLag
    BY <1>4 DEF Sync
  <2>2. History' = History
    BY <2>1 DEF History
  <2>3. Pace'
    BY <1>2, <2>1, <2>2 DEF PageInv, Pace, stream, client
  <2>4. PageIsRecent'
    BY <1>2, <2>1, <2>2 DEF PageInv, PageIsRecent, Later, stream, client
  <2>5. UNCHANGED <<sent, shown, cursor, seed, task, pending>>
    BY <2>1 DEF stream, client
  <2>6. SeedIsKnown'
    <3>1. seed # <<>> /\ ByBlock(feed) => Before(seed)["touch"] \in Nat
      BY DEF PageInv, ReadInv, IsPlace, Sources
    <3> QED BY <1>2, <2>1, <2>5, <3>1 DEF PageInv, SeedIsKnown
  <2> QED BY <1>1, <1>2, <2>1, <2>3, <2>4, <2>5, <2>6, SameSections
<1>5. CASE Connect
  BY <1>1, <1>5, ConnectKeeps
<1>6. CASE Query
  BY <1>1, <1>6, QueryKeeps
<1>7. CASE SendBlocks
  BY <1>1, <1>7, SendKeeps
<1>8. CASE Deliver
  BY <1>1, <1>8, DeliverKeeps
<1>9. CASE LoadOlder \/ Refuse \/ ScrollAway \/ UNCHANGED vars
  <2>1. /\ UNCHANGED <<feed, applied, synced, task, page, upto, sent, shown, cursor, seed, marks>>
        /\ pending' = pending \/ pending' = cursor \/ pending' = <<>>
        /\ away' \in BOOLEAN
    BY <1>9 DEF LoadOlder, Refuse, ScrollAway, vars, chain, stream, client, PageInv, Pace
  <2>2. History' = History
    BY <2>1 DEF History
  <2>3. Pace' /\ PageIsRecent' /\ SeedIsKnown'
    BY <2>1, <2>2 DEF PageInv, Pace, PageIsRecent, SeedIsKnown
  <2> QED BY <1>1, <1>2, <2>1, <2>3, SameSections
<1>10. CASE OlderBlocks
  <2> DEFINE b == Before(pending)["touch"]
             slots == RecentBlocks(History, synced, b)
  <2>1. task = "live" /\ pending # <<>> /\ ByBlock(feed) /\ IsPlace(feed, pending)
    BY <1>10, OlderBlocksTakes DEF PageInv, ReadInv
  <2>2. PICK walked \in SUBSET slots :
          Take(slots, walked, StakeSections(slots, walked, Head(pending)),
               SlotPlace(slots, walked, Head(pending)))
    BY <1>10 DEF OlderBlocks, Before
  <2> DEFINE next == SlotPlace(slots, walked, Head(pending))
             secs == StakeSections(slots, walked, Head(pending))
  <2>3. b \in Nat /\ \A src \in Sources : Before(pending)[src] = b
    BY <2>1 DEF IsPlace, Sources
  <2>4. slots \subseteq 1..synced
    <3> DEFINE below == {t \in Touching(History, synced) : t < b}
    <3>1. slots \subseteq below /\ below \subseteq 1..synced
      BY <1>2, <2>3, RecentBlocksAreTop DEF History
    <3> QED BY <3>1
  <2>5. Listing(feed, synced, secs) /\ Slots(secs) = walked
    <3>1. walked \in SUBSET (1..synced)
      BY <2>2, <2>4
    <3> QED BY <1>2, <3>1, WalkedAre
  <2>6. Len(next) <= 1
    <3>1. \A x : Len(<<x>>) <= 1 /\ Len(<<>>) <= 1
      OBVIOUS
    <3>2. next = <<>> \/ \E x : next = <<x>>
      BY DEF SlotPlace
    <3> HIDE DEF next
    <3> QED BY <3>1, <3>2
  <2>7. NoMark(slots, walked, next) =>
          \A s \in Touching(History, synced) :
            ~PassedBy(feed, s, pending) /\ PassedBy(feed, s, next) => s \in walked
    <3>1. SUFFICES ASSUME NoMark(slots, walked, next), NEW s \in Touching(History, synced),
                          ~PassedBy(feed, s, pending), PassedBy(feed, s, next)
                   PROVE  s \in walked
      OBVIOUS
    <3>2. s \in Touching(History, Len(History)) /\ s \in Nat
      BY <1>2, TouchingIs DEF History
    <3>3. ~(b <= s)
      BY <1>2, <2>1, <3>1, <3>2, PassedSlot DEF History
    <3>4. s < b
      BY <2>3, <3>2, <3>3
    <3> QED BY <1>2, <2>1, <2>2, <2>3, <3>1, <3>4, SlotPageGets
  <2> HIDE DEF b, slots, next, secs
  <2>8. Take(slots, walked, secs, next)
    BY <2>2 DEF next, secs
  <2> QED BY <1>1, <2>1, <2>5, <2>6, <2>7, <2>8, TakeKeeps
<1>11. CASE OlderPoolDrep
  <2> DEFINE rows == Rows(History, synced)
             cut == MergedPage(rows, Before(pending))
             next == IF HasMore(rows, Before(pending), cut)
                     THEN <<Place(NextCursor(rows, Before(pending), cut), 0, 0)>>
                     ELSE <<>>
             slots == {r.slot : r \in cut}
  <2>1. task = "live" /\ pending # <<>> /\ ~ByBlock(feed) /\ IsPlace(feed, pending)
    BY <1>11, OlderPoolDrepTakes DEF PageInv, ReadInv
  <2>2. PICK walked \in SUBSET slots :
          Take(slots, walked,
               {Section(s, Unknown, Displayed(History, cut, s)) : s \in walked}, next)
    BY <1>11 DEF OlderPoolDrep, Before
  <2> DEFINE secs == {Section(s, Unknown, Displayed(History, cut, s)) : s \in walked}
  <2>3. cut \in SUBSET rows
    BY DEF MergedPage, NewestRows, AllFetched, Fetched
  <2>4. Listing(feed, synced, secs) /\ Slots(secs) = walked
    BY <1>2, <2>2, <2>3, MergedAre
  <2>5. Len(next) <= 1
    <3>1. \A x : Len(<<x>>) <= 1 /\ Len(<<>>) <= 1
      OBVIOUS
    <3>2. next = <<>> \/ \E x : next = <<x>>
      OBVIOUS
    <3> HIDE DEF next
    <3> QED BY <3>1, <3>2
  <2>6. NoMark(slots, walked, next) =>
          \A s \in Touching(History, synced) :
            ~PassedBy(feed, s, pending) /\ PassedBy(feed, s, next) => s \in walked
    BY <1>2, <2>1, MergedPageGets
  <2> HIDE DEF cut, slots, next, secs
  <2>7. Take(slots, walked, secs, next)
    BY <2>2 DEF secs
  <2> QED BY <1>1, <2>1, <2>4, <2>5, <2>6, <2>7, TakeKeeps
<1>12. CASE ScrollBack
  BY <1>1, <1>12, ScrollBackKeeps
<1> QED BY <1>3, <1>4, <1>5, <1>6, <1>7, <1>8, <1>9, <1>10, <1>11, <1>12 DEF Next, Answer

LEMMA PageInvIsGapFree == PageInv => FeedHasNoGap
<1> SUFFICES ASSUME PageInv PROVE FeedHasNoGap
  OBVIOUS
<1>1. SUFFICES ASSUME task = "live", marks \cap {"fetch", "top", "deep"} = {},
                      NEW slot \in Touching(History, Min({sent, applied})),
                      Passed(slot, cursor)
               PROVE  Covered(slot)
  BY DEF FeedHasNoGap
<1>2. /\ feed \in Feeds /\ sent \in 0..Len(History) /\ sent \in Nat /\ applied \in Nat
      /\ sent <= applied
  BY PaceIs
<1>3. Min({sent, applied}) = sent
  <2>1. {sent, applied} \subseteq Nat /\ {sent, applied} # {}
    BY <1>2
  <2>2. Min({sent, applied}) \in {sent, applied}
        /\ \A y \in {sent, applied} : Min({sent, applied}) <= y
    BY <2>1, MinIndex
  <2> QED BY <1>2, <2>2
<1>4. slot \in Touching(History, sent)
  BY <1>1, <1>3
<1>5. slot \in 1..Len(History)
  BY <1>2, <1>4, TouchingIs DEF History
<1>6. RowsOf(slot) = RowsAt(feed, slot) /\ PassedBy(feed, slot, cursor)
  BY <1>1, <1>2, <1>5, PassedIs
<1>7. slot \in Slots(shown)
  BY <1>1, <1>4, <1>6 DEF PageInv, GapsAreAhead, NoGap, Marked, History
<1>8. PICK sec \in shown : sec.slot = slot
  BY <1>7 DEF Slots
<1>9. SectionIs(feed, sec)
  BY <1>8 DEF PageInv, Listing
<1> QED BY <1>6, <1>8, <1>9 DEF Covered, SectionIs

\* Whatever the subject and its history, the feed shows every block between the
\* newest one and the reader's place, with its votes: through lags of db-sync,
\* refused requests, reconnections and returns to the newest edge (loadOlder,
\* insertOlderBlock, filtered_events, older_blocks, older_pool_drep), unless the
\* node did not give a block or the page was trimmed below its reader.
THEOREM FeedIsGapFree == Spec => []FeedHasNoGap
<1>1. Init => PageInv
  BY PageInvInit
<1>2. PageInv /\ [Next]_vars => PageInv'
  BY PageInvNext
<1>3. PageInv => FeedHasNoGap
  BY PageInvIsGapFree
<1> QED BY <1>1, <1>2, <1>3, PTL DEF Spec

-----------------------------------------------------------------------------
(* Sums at some places of a list *)

LEMMA IntSums == \A s \in Seq(Int) : \E f : IsSum(f, s, Int) /\ SumSeq(s) = f[Len(s)]
<1> SUFFICES ASSUME NEW s \in Seq(Int)
             PROVE  \E f : IsSum(f, s, Int) /\ SumSeq(s) = f[Len(s)]
  OBVIOUS
<1>1. 0 \in Int /\ \A a, b \in Int : a + b \in Int
  OBVIOUS
<1> QED BY <1>1, SumRuns

LEMMA AddingUp ==
  /\ \A p \in Int : p + 0 = p /\ 0 + p = p
  /\ 0 + 0 = 0
OBVIOUS

\* Lists that add up place by place have sums that add up.
LEMMA SumsAddUp ==
  ASSUME NEW x \in Seq(Int), NEW y \in Seq(Int), NEW z \in Seq(Int),
         Len(x) = Len(z), Len(y) = Len(z), \A i \in 1..Len(z) : x[i] + y[i] = z[i]
  PROVE  SumSeq(x) + SumSeq(y) = SumSeq(z)
<1> DEFINE n == Len(z)
<1>1. PICK f : IsSum(f, x, Int) /\ SumSeq(x) = f[Len(x)]
  BY IntSums
<1>2. PICK g : IsSum(g, y, Int) /\ SumSeq(y) = g[Len(y)]
  BY IntSums
<1>3. PICK h : IsSum(h, z, Int) /\ SumSeq(z) = h[Len(z)]
  BY IntSums
<1> DEFINE T == {i \in 0..n : f[i] + g[i] = h[i]}
<1>4. n \in Nat /\ (\A i \in 1..n : x[i] \in Int /\ y[i] \in Int /\ z[i] \in Int
                                    /\ x[i] + y[i] = z[i])
  BY LenNat
<1>5. /\ f \in [0..n -> Int] /\ g \in [0..n -> Int] /\ h \in [0..n -> Int]
      /\ f[0] = 0 /\ g[0] = 0 /\ h[0] = 0
      /\ \A i \in 1..n : /\ f[i] = f[i - 1] + x[i] /\ g[i] = g[i - 1] + y[i]
                         /\ h[i] = h[i - 1] + z[i]
  BY <1>1, <1>2, <1>3 DEF IsSum
<1> HIDE DEF n
<1>6. 0 \in T
  BY <1>4, <1>5
<1>7. ASSUME NEW i \in 1..n, i - 1 \in T PROVE i \in T
  <2>1. i \in 0..n /\ i - 1 \in 0..n
    BY <1>4
  <2>0. f[i - 1] \in Int /\ g[i - 1] \in Int /\ h[i - 1] \in Int
    BY <1>5, <2>1
  <2>9. x[i] \in Int /\ y[i] \in Int /\ z[i] \in Int /\ x[i] + y[i] = z[i]
    BY <1>4
  <2>8. f[i - 1] + g[i - 1] = h[i - 1]
    BY <1>7
  <2>2. /\ f[i - 1] \in Int /\ g[i - 1] \in Int /\ h[i - 1] \in Int
        /\ x[i] \in Int /\ y[i] \in Int /\ z[i] \in Int /\ x[i] + y[i] = z[i]
        /\ f[i - 1] + g[i - 1] = h[i - 1]
    BY <2>0, <2>9, <2>8
  <2>3. f[i] = f[i - 1] + x[i] /\ g[i] = g[i - 1] + y[i] /\ h[i] = h[i - 1] + z[i]
    BY <1>5
  <2>4. f[i] + g[i] = h[i]
    <3> DEFINE p == f[i - 1]
               q == g[i - 1]
               r == h[i - 1]
               u == x[i]
               v == y[i]
               w == z[i]
    <3>1. /\ p \in Int /\ q \in Int /\ r \in Int /\ u \in Int /\ v \in Int /\ w \in Int
          /\ p + q = r /\ u + v = w /\ f[i] = p + u /\ g[i] = q + v /\ h[i] = r + w
      BY <2>2, <2>3, Zenon
    <3> HIDE DEF p, q, r, u, v, w
    <3>2. (p + u) + (q + v) = r + w
      BY <3>1
    <3> QED BY <3>1, <3>2, Zenon
  <2> QED BY <2>1, <2>4
<1>8. \A i \in 0..n : i \in T
  <2> HIDE DEF T
  <2> QED BY <1>4, <1>6, <1>7, CountUp
<1>9. f[n] + g[n] = h[n]
  BY <1>4, <1>8
<1> QED BY <1>1, <1>2, <1>3, <1>9 DEF n

\* What a sum is of.
Masked(f, set) == [i \in DOMAIN f |-> IF i \in set THEN f[i] ELSE 0]

LEMMA MaskedIs ==
  ASSUME NEW f \in Seq(Int), NEW set
  PROVE  /\ Masked(f, set) \in Seq(Int) /\ Len(Masked(f, set)) = Len(f)
         /\ \A i \in 1..Len(f) : Masked(f, set)[i] = IF i \in set THEN f[i] ELSE 0
         /\ \A i \in 1..Len(f) : f[i] \in Int
         /\ Total(f, set) = SumSeq(Masked(f, set)) /\ Total(f, set) \in Int
         /\ Len(f) \in Nat /\ DOMAIN f = 1..Len(f)
<1>1. Len(f) \in Nat /\ DOMAIN f = 1..Len(f) /\ \A i \in 1..Len(f) : f[i] \in Int
  BY LenNat
<1>2. Masked(f, set) \in [1..Len(f) -> Int]
  BY <1>1 DEF Masked
<1>3. Masked(f, set) \in Seq(Int) /\ Len(Masked(f, set)) = Len(f)
  BY <1>1, <1>2
<1>4. \A i \in 1..Len(f) : Masked(f, set)[i] = IF i \in set THEN f[i] ELSE 0
  BY <1>1 DEF Masked
<1>5. Total(f, set) = SumSeq(Masked(f, set))
  BY DEF Total, Masked
<1>6. SumSeq(Masked(f, set)) \in Int
  <2>1. \A a, b \in Int : a + b \in Int
    OBVIOUS
  <2> QED BY <1>3, <2>1, SumIn
<1> QED BY <1>1, <1>3, <1>4, <1>5, <1>6

\* The places c of a list are those in a and those in b, which have none in common.
Parts(f, a, b, c) ==
  \A i \in 1..Len(f) : (i \in c <=> i \in a \/ i \in b) /\ ~(i \in a /\ i \in b)

LEMMA TotalSplits ==
  ASSUME NEW f \in Seq(Int), NEW a, NEW b, NEW c, Parts(f, a, b, c)
  PROVE  /\ Total(f, a) + Total(f, b) = Total(f, c)
         /\ Total(f, a) \in Int /\ Total(f, b) \in Int /\ Total(f, c) \in Int
<1> DEFINE x == Masked(f, a)
           y == Masked(f, b)
           z == Masked(f, c)
<1>1. /\ x \in Seq(Int) /\ Len(x) = Len(f) /\ Total(f, a) = SumSeq(x)
      /\ \A i \in 1..Len(f) : x[i] = IF i \in a THEN f[i] ELSE 0
      /\ \A i \in 1..Len(f) : f[i] \in Int
      /\ Total(f, a) \in Int
  BY MaskedIs
<1>4. /\ y \in Seq(Int) /\ Len(y) = Len(f) /\ Total(f, b) = SumSeq(y)
      /\ \A i \in 1..Len(f) : y[i] = IF i \in b THEN f[i] ELSE 0
      /\ \A i \in 1..Len(f) : f[i] \in Int
      /\ Total(f, b) \in Int
  BY MaskedIs
<1>5. /\ z \in Seq(Int) /\ Len(z) = Len(f) /\ Total(f, c) = SumSeq(z)
      /\ \A i \in 1..Len(f) : z[i] = IF i \in c THEN f[i] ELSE 0
      /\ \A i \in 1..Len(f) : f[i] \in Int
      /\ Total(f, c) \in Int
  BY MaskedIs
<1> HIDE DEF x, y, z
<1>2. \A i \in 1..Len(z) : x[i] + y[i] = z[i]
  <2> SUFFICES ASSUME NEW i \in 1..Len(z) PROVE x[i] + y[i] = z[i]
    OBVIOUS
  <2>1. /\ f[i] \in Int
        /\ x[i] = IF i \in a THEN f[i] ELSE 0
        /\ y[i] = IF i \in b THEN f[i] ELSE 0
        /\ z[i] = IF i \in c THEN f[i] ELSE 0
        /\ (i \in c <=> i \in a \/ i \in b) /\ ~(i \in a /\ i \in b)
    BY <1>1, <1>4, <1>5 DEF Parts
  <2> DEFINE v == f[i]
             r == x[i]
             s == y[i]
             q == z[i]
  <2> HIDE DEF v, r, s, q
  <2>2. /\ v \in Int /\ r = (IF i \in a THEN v ELSE 0) /\ s = (IF i \in b THEN v ELSE 0)
        /\ q = (IF i \in c THEN v ELSE 0)
        /\ (i \in c <=> i \in a \/ i \in b) /\ ~(i \in a /\ i \in b)
    BY <2>1, Zenon DEF v, r, s, q
  <2>3. r + s = q
    BY <2>2
  <2> QED BY <2>3 DEF r, s, q
<1>3. SumSeq(x) + SumSeq(y) = SumSeq(z)
  BY <1>1, <1>2, <1>4, <1>5, SumsAddUp
<1> QED BY <1>1, <1>3, <1>4, <1>5

\* A sum of nothing but zeros.
LEMMA TotalZero ==
  ASSUME NEW f \in Seq(Int), NEW a, \A i \in 1..Len(f) : i \in a => f[i] = 0
  PROVE  Total(f, a) = 0
<1> DEFINE x == Masked(f, a)
<1>1. /\ x \in Seq(Int) /\ Len(x) = Len(f) /\ Total(f, a) = SumSeq(x)
      /\ \A i \in 1..Len(f) : x[i] = IF i \in a THEN f[i] ELSE 0
      /\ Total(f, a) \in Int
  BY MaskedIs
<1> HIDE DEF x
<1>2. \A i \in 1..Len(x) : x[i] + x[i] = x[i]
  <2> SUFFICES ASSUME NEW i \in 1..Len(x) PROVE x[i] + x[i] = x[i]
    OBVIOUS
  <2>1. x[i] = 0
    BY <1>1
  <2> QED BY <2>1, AddingUp, Zenon
<1>3. SumSeq(x) + SumSeq(x) = SumSeq(x)
  BY <1>1, <1>2, SumsAddUp
<1> QED BY <1>1, <1>3

\* What cancels place by place cancels in total.
Cancel(f, g, a) == \A i \in 1..Len(f) : i \in a => f[i] + g[i] = 0

LEMMA TotalCancels ==
  ASSUME NEW f \in Seq(Int), NEW g \in Seq(Int), Len(f) = Len(g), NEW a, Cancel(f, g, a)
  PROVE  Total(f, a) + Total(g, a) = 0
<1> DEFINE x == Masked(f, a)
           y == Masked(g, a)
           z == Masked(f, {})
<1>1. /\ x \in Seq(Int) /\ Len(x) = Len(f) /\ Total(f, a) = SumSeq(x)
      /\ \A i \in 1..Len(f) : x[i] = IF i \in a THEN f[i] ELSE 0
      /\ \A i \in 1..Len(f) : f[i] \in Int
      /\ Total(f, a) \in Int
  BY MaskedIs
<1>5. /\ y \in Seq(Int) /\ Len(y) = Len(g) /\ Total(g, a) = SumSeq(y)
      /\ \A i \in 1..Len(g) : y[i] = IF i \in a THEN g[i] ELSE 0
      /\ \A i \in 1..Len(g) : g[i] \in Int
      /\ Total(g, a) \in Int
  BY MaskedIs
<1>6. /\ z \in Seq(Int) /\ Len(z) = Len(f) /\ Total(f, {}) = SumSeq(z)
      /\ \A i \in 1..Len(f) : z[i] = IF i \in {} THEN f[i] ELSE 0
      /\ \A i \in 1..Len(f) : f[i] \in Int
      /\ Total(f, {}) \in Int
  BY MaskedIs
<1>2. Total(f, {}) = 0
  BY TotalZero
<1> HIDE DEF x, y, z
<1>3. \A i \in 1..Len(z) : x[i] + y[i] = z[i]
  <2> SUFFICES ASSUME NEW i \in 1..Len(z) PROVE x[i] + y[i] = z[i]
    OBVIOUS
  <2>1. CASE i \in a
    <3>1. x[i] = f[i] /\ y[i] = g[i] /\ z[i] = 0 /\ f[i] + g[i] = 0
      BY <1>1, <1>5, <1>6, <2>1 DEF Cancel
    <3> QED BY <3>1, Zenon
  <2>2. CASE i \notin a
    <3>1. x[i] = 0 /\ y[i] = 0 /\ z[i] = 0
      BY <1>1, <1>5, <1>6, <2>2
    <3> QED BY <3>1, AddingUp, Zenon
  <2> QED BY <2>1, <2>2
<1>4. SumSeq(x) + SumSeq(y) = SumSeq(z)
  BY <1>1, <1>3, <1>5, <1>6, SumsAddUp
<1> QED BY <1>1, <1>2, <1>4, <1>5, <1>6

-----------------------------------------------------------------------------
(* The stake before a block *)

Nets(h) == [s \in DOMAIN h |-> h[s].net]
Wds(h) == [s \in DOMAIN h |-> h[s].wd]

LEMMA BlockIs ==
  ASSUME NEW f \in Feeds
  PROVE  /\ Len(f.history) \in Nat
         /\ Nets(f.history) \in Seq(Int) /\ Len(Nets(f.history)) = Len(f.history)
         /\ Wds(f.history) \in Seq(Int) /\ Len(Wds(f.history)) = Len(f.history)
         /\ \A s \in 1..Len(f.history) :
              /\ Nets(f.history)[s] = f.history[s].net /\ Wds(f.history)[s] = f.history[s].wd
              /\ f.history[s].net \in Int /\ f.history[s].wd \in Nat
              /\ f.history[s].epoch \in Nat
              /\ \A t \in 1..s : f.history[t].epoch <= f.history[s].epoch
              /\ f.kind = "stake" /\ f.history[s].rows = <<>>
                   => f.history[s].net + f.history[s].wd = 0
<1> DEFINE H == f.history
<1>1. H \in Seq(Blocks) /\ Len(H) \in Nat /\ DOMAIN H = 1..Len(H)
  BY RowsAtIs
<1>2. ASSUME NEW s \in 1..Len(H)
      PROVE  H[s].net \in Int /\ H[s].wd \in Nat /\ H[s].epoch \in Nat
  <2>1. H[s] \in Blocks
    BY <1>1, ElementIn
  <2> QED BY <2>1 DEF Blocks
<1>3. ASSUME NEW s \in 1..Len(H)
      PROVE  /\ \A t \in 1..s : H[t].epoch <= H[s].epoch
             /\ f.kind = "stake" /\ H[s].rows = <<>> => H[s].net + H[s].wd = 0
  BY <1>1, FeedsAssumption
<1> HIDE DEF H
<1>4. Nets(H) \in [1..Len(H) -> Int] /\ Wds(H) \in [1..Len(H) -> Int]
  BY <1>1, <1>2 DEF Nets, Wds
<1>5. /\ Nets(H) \in Seq(Int) /\ Len(Nets(H)) = Len(H)
      /\ Wds(H) \in Seq(Int) /\ Len(Wds(H)) = Len(H)
  <2>1. \A n \in Nat : \A g \in [1..n -> Int] : g \in Seq(Int) /\ Len(g) = n
    OBVIOUS
  <2> QED BY <1>1, <1>4, <2>1, Zenon
<1>6. \A s \in 1..Len(H) : Nets(H)[s] = H[s].net /\ Wds(H)[s] = H[s].wd
  BY <1>1 DEF Nets, Wds
<1> QED BY <1>1, <1>2, <1>3, <1>5, <1>6 DEF H

\* What is known where a walk begins: the stake before the block top, with the
\* rewards of an epoch.
Anchored(h, top, anchor) ==
  /\ anchor.epoch \in Nat
  /\ anchor.stake = Stake0 + Total(Nets(h), 1..(top - 1)) + Total(Rewards, 1..anchor.epoch)

\* Nothing was withdrawn in the blocks from b to n.
Quiet(h, b, n) == \A t \in b..n : h[t].wd = 0

\* Blocks walked from top down to s: all of the page's on the way, and the others
\* there are not the subject's.
WalkedTo(h, slots, walked, s, top) ==
  /\ walked \in SUBSET slots /\ s \in walked /\ \A w \in walked : s <= w /\ w < top
  /\ \A t \in s..(top - 1) : t \in walked \/ (t \notin slots /\ h[t].rows = <<>>)

CanWalk(f, n, top, slots, walked, s, anchor) ==
  /\ f \in Feeds /\ f.kind = "stake" /\ n \in 1..Len(f.history) /\ top \in 1..(n + 1)
  /\ slots \in SUBSET (1..n) /\ WalkedTo(f.history, slots, walked, s, top)
  /\ Anchored(f.history, top, anchor) /\ f.history[s].epoch <= anchor.epoch
  /\ Quiet(f.history, top, n)

\* A walk from there to a block of the page comes to the stake before the block,
\* if it took every block on the way that the page has, and nothing was withdrawn
\* from top on.
LEMMA WalkIs ==
  ASSUME NEW f, NEW n, NEW top, NEW slots, NEW walked, NEW s, NEW anchor,
         CanWalk(f, n, top, slots, walked, s, anchor)
  PROVE  PreBlockStake(f.history, n, slots, walked, anchor) = StakeBefore(f.history, s)
<1> SUFFICES ASSUME f \in Feeds, f.kind = "stake", n \in 1..Len(f.history),
                    top \in 1..(n + 1), slots \in SUBSET (1..n),
                    WalkedTo(f.history, slots, walked, s, top),
                    Anchored(f.history, top, anchor), f.history[s].epoch <= anchor.epoch,
                    Quiet(f.history, top, n)
             PROVE  PreBlockStake(f.history, n, slots, walked, anchor)
                      = StakeBefore(f.history, s)
  BY DEF CanWalk
<1> DEFINE H == f.history
           N == Len(H)
           net == Nets(H)
           wd == Wds(H)
           E == H[s].epoch
           A == anchor.epoch
           between == {t \in s..(top - 1) : t \notin walked}
           late == {t \in top..n : t \notin slots}
           off == {t \in (s + 1)..n : t \notin slots}
           since == {e \in DOMAIN Rewards : e > E /\ e <= A}
<1>0. /\ walked \in SUBSET slots /\ s \in walked /\ \A w \in walked : s <= w /\ w < top
      /\ \A t \in s..(top - 1) : t \in walked \/ (t \notin slots /\ f.history[t].rows = <<>>)
      /\ \A t \in top..n : f.history[t].wd = 0
  BY DEF WalkedTo, Quiet
<1>1. /\ N \in Nat /\ n \in Nat /\ n <= N /\ top \in Nat /\ top <= n + 1 /\ s \in 1..n
      /\ s < top /\ s \in 1..N
  BY <1>0, BlockIs
<1>2. /\ net \in Seq(Int) /\ Len(net) = N /\ wd \in Seq(Int) /\ Len(wd) = N
  BY BlockIs
<1>3. \A t \in 1..N : /\ net[t] = H[t].net /\ wd[t] = H[t].wd
                      /\ H[t].net \in Int /\ H[t].wd \in Nat
                      /\ H[t].rows = <<>> => H[t].net + H[t].wd = 0
  BY BlockIs
<1>4. E \in Nat /\ A \in Nat /\ E <= A
  BY <1>1, BlockIs DEF Anchored
<1>5. Rewards \in Seq(Int) /\ Stake0 \in Int /\ DOMAIN Rewards = 1..Len(Rewards)
      /\ Len(Rewards) \in Nat
  BY ReplayAssumption
<1>6. \A t \in s..(top - 1) : t \in walked \/ (t \notin slots /\ H[t].rows = <<>>)
  BY <1>0
<1>7. \A t \in top..n : H[t].wd = 0
  BY <1>0
<1>8. Min(walked) = s
  <2>1. walked \subseteq Nat /\ walked # {}
    BY <1>0, <1>1
  <2>2. Min(walked) \in walked /\ \A y \in walked : Min(walked) <= y
    BY <2>1, MinIndex
  <2> DEFINE m == Min(walked)
  <2> HIDE DEF m
  <2>3. m \in walked /\ m <= s /\ s <= m /\ m \in Nat /\ s \in Nat
    BY <1>0, <1>1, <2>1, <2>2 DEF m
  <2>4. m = s
    BY <2>3
  <2> QED BY <2>4 DEF m
<1>9. \A w \in walked : w \in s..(top - 1) /\ w \in slots
  BY <1>0, <1>1
<1> HIDE DEF H, N, net, wd, E, A
<1>10. /\ Total(net, 1..(s - 1)) + Total(net, s..(top - 1)) = Total(net, 1..(top - 1))
       /\ Total(net, 1..(s - 1)) \in Int /\ Total(net, s..(top - 1)) \in Int
       /\ Total(net, 1..(top - 1)) \in Int
  <2>1. Parts(net, 1..(s - 1), s..(top - 1), 1..(top - 1))
    BY <1>1, <1>2 DEF Parts
  <2> QED BY <1>2, <2>1, TotalSplits
<1>11. /\ Total(net, walked) + Total(net, between) = Total(net, s..(top - 1))
       /\ Total(net, walked) \in Int /\ Total(net, between) \in Int
  <2>1. Parts(net, walked, between, s..(top - 1))
    BY <1>9 DEF Parts
  <2> QED BY <1>2, <2>1, TotalSplits
<1>12. Total(net, between) + Total(wd, between) = 0
  <2>1. Cancel(net, wd, between)
    <3>1. ASSUME NEW i \in 1..Len(net), i \in between PROVE net[i] + wd[i] = 0
      <4>1. H[i].rows = <<>> /\ i \in 1..N
        BY <1>2, <1>6, <3>1
      <4>2. net[i] = H[i].net /\ wd[i] = H[i].wd /\ H[i].net + H[i].wd = 0
        BY <1>3, <4>1
      <4> QED BY <4>2, Zenon
    <3> QED BY <3>1 DEF Cancel
  <2> QED BY <1>2, <2>1, TotalCancels
<1>13. /\ Total(wd, between) + Total(wd, late) = Total(wd, off)
       /\ Total(wd, between) \in Int /\ Total(wd, late) \in Int /\ Total(wd, off) \in Int
  <2>1. ASSUME NEW i \in 1..Len(wd)
        PROVE  (i \in off <=> i \in between \/ i \in late) /\ ~(i \in between /\ i \in late)
    <3>1. i \in Nat /\ s \in Nat /\ s \in walked
      BY <1>0, <1>1, <1>2
    <3>2. i \in between => i \in off /\ i \notin late
      BY <1>1, <1>6, <3>1
    <3>3. i \in late => i \in off
      BY <1>1, <3>1
    <3>4. i \in off => i \in between \/ i \in late
      BY <1>1, <1>9, <3>1
    <3> HIDE DEF between, late, off
    <3> QED BY <3>2, <3>3, <3>4
  <2>2. Parts(wd, between, late, off)
    BY <2>1 DEF Parts
  <2> HIDE DEF between, late, off
  <2> QED BY <1>2, <2>2, TotalSplits
<1>14. Total(wd, late) = 0
  <2>1. \A i \in 1..Len(wd) : i \in late => wd[i] = 0
    BY <1>2, <1>3, <1>7
  <2> QED BY <1>2, <2>1, TotalZero
<1>15. /\ Total(Rewards, 1..E) + Total(Rewards, since) = Total(Rewards, 1..A)
       /\ Total(Rewards, 1..E) \in Int /\ Total(Rewards, since) \in Int
       /\ Total(Rewards, 1..A) \in Int
  <2>1. Parts(Rewards, 1..E, since, 1..A)
    BY <1>4, <1>5 DEF Parts
  <2> QED BY <1>5, <2>1, TotalSplits
<1>16. anchor.stake = Stake0 + Total(net, 1..(top - 1)) + Total(Rewards, 1..A)
  BY DEF Anchored, net, A, H
<1>17. PreBlockStake(H, n, slots, walked, anchor)
         = anchor.stake - Total(Rewards, since) + Total(wd, off) - Total(net, walked)
  BY <1>8 DEF PreBlockStake, RewardsSince, OffWindow, E, A, net, wd, Nets, Wds
<1>18. StakeBefore(H, s) = Stake0 + Total(net, 1..(s - 1)) + Total(Rewards, 1..E)
  BY DEF StakeBefore, net, Nets, E
<1> DEFINE n1 == Total(net, 1..(s - 1))
           n2 == Total(net, s..(top - 1))
           n3 == Total(net, 1..(top - 1))
           n4 == Total(net, walked)
           n5 == Total(net, between)
           w1 == Total(wd, between)
           w2 == Total(wd, late)
           w3 == Total(wd, off)
           r1 == Total(Rewards, 1..E)
           r2 == Total(Rewards, since)
           r3 == Total(Rewards, 1..A)
           x == anchor.stake
           y == PreBlockStake(H, n, slots, walked, anchor)
           z == StakeBefore(H, s)
           k == Stake0
<1>19. /\ n1 \in Int /\ n2 \in Int /\ n3 \in Int /\ n4 \in Int /\ n5 \in Int
       /\ w1 \in Int /\ w2 \in Int /\ w3 \in Int /\ r1 \in Int /\ r2 \in Int /\ r3 \in Int
       /\ k \in Int /\ n1 + n2 = n3 /\ n4 + n5 = n2 /\ n5 + w1 = 0 /\ w1 + w2 = w3 /\ w2 = 0
       /\ r1 + r2 = r3 /\ x = k + n3 + r3 /\ y = x - r2 + w3 - n4 /\ z = k + n1 + r1
  BY <1>5, <1>10, <1>11, <1>12, <1>13, <1>14, <1>15, <1>16, <1>17, <1>18, Zenon
<1> HIDE DEF n1, n2, n3, n4, n5, w1, w2, w3, r1, r2, r3, x, y, z, k
<1>20. y = z
  BY <1>19
<1> QED BY <1>20 DEF y, z, H

\* The place after a page of blocks of a stake credential.
LEMMA WalkPlaceIs ==
  ASSUME feed.kind = "stake", NEW slots, NEW walked, NEW anchor,
         SlotPlace(slots, walked, anchor) # <<>>
  PROVE  LET next == SlotPlace(slots, walked, anchor)
         IN  IF walked = {} THEN Before(next) = Below(0)
             ELSE /\ Before(next) = Below(Min(walked))
                  /\ Head(next).epoch = History[Min(walked)].epoch
                  /\ Head(next).stake = PreBlockStake(History, synced, slots, walked, anchor)
<1> DEFINE next == SlotPlace(slots, walked, anchor)
           m == Min(walked)
           e == History[m].epoch
           k == PreBlockStake(History, synced, slots, walked, anchor)
<1>1. next = <<WalkPlace(slots, walked, anchor)>>
  BY DEF SlotPlace
<1>2. \A x : Head(<<x>>) = x
  OBVIOUS
<1>3. Head(next) = WalkPlace(slots, walked, anchor)
  BY <1>1, <1>2, Zenon
<1>4. ASSUME NEW b, NEW x, NEW y, Head(next) = Place(b, x, y)
      PROVE  Before(next) = b /\ Head(next).epoch = x /\ Head(next).stake = y
  BY <1>4 DEF Place, Before
<1> HIDE DEF next
<1>5. CASE walked = {}
  <2>1. Head(next) = Place(Below(0), 0, anchor.stake)
    BY <1>3, <1>5 DEF WalkPlace
  <2>2. Before(next) = Below(0)
    BY <1>4, <2>1
  <2> QED BY <1>5, <2>2 DEF next
<1>6. CASE walked # {}
  <2>1. Head(next) = Place(Below(m), e, k)
    BY <1>3, <1>6 DEF WalkPlace
  <2> HIDE DEF m, e, k
  <2>2. Before(next) = Below(m) /\ Head(next).epoch = e /\ Head(next).stake = k
    BY <1>4, <2>1
  <2> QED BY <1>6, <2>2 DEF next, m, e, k
<1> QED BY <1>5, <1>6

\* Below b there are the blocks below top.
SameBelow(b, top) == \A t \in 1..synced : t < b <=> t < top

\* A page that starts below top can be walked from an anchor.
Anchors(top, anchor) ==
  /\ anchor.epoch \in Nat
  /\ \A t \in 1..synced : t < top => History[t].epoch <= anchor.epoch
  /\ Quiet(History, top, synced) => Anchored(History, top, anchor)

\* The blocks walked are the subject's, and have the ledger's stake if nothing
\* was withdrawn from top on.
WalkIsExact(b, top, slots, walked, anchor) ==
  \A s \in walked :
    /\ s \in Touching(History, synced) /\ s < b
    /\ Quiet(History, top, synced) =>
         PreBlockStake(History, synced, slots, {w \in walked : w >= s}, anchor)
           = StakeBefore(History, s)

\* So has the place after them.
NextIsExact(b, top, next) ==
  next # <<>> =>
    /\ Before(next)["touch"] \in 1..synced /\ Before(next)["touch"] < b
    /\ Head(next).epoch = History[Before(next)["touch"]].epoch
    /\ Quiet(History, top, synced) =>
         Head(next).stake = StakeBefore(History, Before(next)["touch"])

LEMMA PageIsExact ==
  ASSUME feed \in Feeds, feed.kind = "stake", synced \in 1..Len(History),
         NEW b \in Nat, NEW top \in 1..(synced + 1), SameBelow(b, top),
         NEW slots, slots = RecentBlocks(History, synced, b), NEW walked \in SUBSET slots,
         NEW anchor, Anchors(top, anchor),
         NEW next, next = SlotPlace(slots, walked, anchor), NoMark(slots, walked, next)
  PROVE  WalkIsExact(b, top, slots, walked, anchor) /\ NextIsExact(b, top, next)
<1> DEFINE below == {t \in Touching(History, synced) : t < b}
<1>1. /\ Len(History) \in Nat /\ synced \in Nat /\ synced \in 0..Len(History)
      /\ ByBlock(feed) /\ synced <= Len(History) /\ top \in Nat
  BY RowsAtIs DEF History, ByBlock
<1>2. /\ slots \subseteq below /\ below \subseteq 1..synced
      /\ \A s \in slots, t \in below : t > s => t \in slots
  BY <1>1, RecentBlocksAreTop DEF History
<1>3. slots \in SUBSET (1..synced) /\ slots \subseteq Nat
  BY <1>2
<1>4. next # <<>> =>
        IF walked = {} THEN Before(next) = Below(0)
        ELSE /\ Before(next) = Below(Min(walked))
             /\ Head(next).epoch = History[Min(walked)].epoch
             /\ Head(next).stake = PreBlockStake(History, synced, slots, walked, anchor)
  BY WalkPlaceIs
<1>5. \/ next = <<>> /\ Cardinality(slots) < PageSize
      \/ GoesOn(slots, walked, next)
  BY <1>3, SlotPlaceIs
<1>6. IsPlace(feed, next)
  BY <1>3, SlotPlaceNext
<1>7. \A t \in below : PassedBy(feed, t, next) => t \in walked
  <2> SUFFICES ASSUME NEW t \in below, PassedBy(feed, t, next) PROVE t \in walked
    OBVIOUS
  <2> QED BY <1>1, SlotPageGets
<1>8. \A t \in below : t \in Touching(History, Len(History)) /\ t \in Nat
  BY <1>1, TouchingIs DEF History
<1>9. next # <<>> => walked # {}
  <2>1. SUFFICES ASSUME next # <<>>, walked = {} PROVE FALSE
    OBVIOUS
  <2>2. slots # {}
    <3>1. Cardinality({}) = 0 /\ PageSize \in Nat \ {0}
      BY FS_EmptySet, ReplayAssumption
    <3>2. ~(Cardinality(slots) < PageSize)
      BY <1>5, <2>1 DEF GoesOn
    <3>3. slots = {} => Cardinality(slots) = 0
      BY <3>1
    <3> DEFINE k == Cardinality(slots)
    <3>4. PageSize \in Nat \ {0} /\ ~(k < PageSize) /\ (slots = {} => k = 0)
      BY <3>1, <3>2, <3>3
    <3> HIDE DEF k
    <3> QED BY <3>4
  <2>3. PICK t \in slots : t \in below
    BY <1>2, <2>2
  <2>4. Before(next)["touch"] <= t
    BY <1>4, <1>8, <2>1, <2>3 DEF Below, Sources
  <2>5. PassedBy(feed, t, next)
    BY <1>1, <1>6, <1>8, <2>1, <2>3, <2>4, PassedSlot DEF History
  <2> QED BY <1>7, <2>1, <2>3, <2>5
<1>10. ASSUME NEW s \in walked, NEW t \in below, t >= s PROVE t \in walked
  <2>1. CASE next = <<>>
    BY <1>7, <2>1 DEF PassedBy
  <2>2. CASE next # <<>>
    <3>1. Min(walked) \in Nat /\ Min(walked) <= s
      <4>1. walked \subseteq Nat /\ walked # {} /\ s \in walked
        BY <1>3, <1>10
      <4>2. Min(walked) \in walked /\ \A y \in walked : Min(walked) <= y
        BY <4>1, MinIndex
      <4> QED BY <4>1, <4>2
    <3>2. s \in Nat /\ t \in Nat
      BY <1>3, <1>8
    <3>3. Before(next)["touch"] = Min(walked)
      BY <1>4, <2>2 DEF Below, Sources
    <3>4. Before(next)["touch"] <= t
      BY <1>10, <3>1, <3>2, <3>3
    <3>5. PassedBy(feed, t, next)
      BY <1>1, <1>6, <1>8, <2>2, <3>4, PassedSlot DEF History
    <3> QED BY <1>7, <3>5
  <2> QED BY <2>1, <2>2
<1>11. ASSUME NEW s \in walked, NEW W, W = {w \in walked : w >= s}, Quiet(History, top, synced)
       PROVE  PreBlockStake(History, synced, slots, W, anchor) = StakeBefore(History, s)
  <2>1. s \in 1..synced /\ s < b /\ s < top /\ s \in Nat
    BY <1>2 DEF SameBelow
  <2>2. \A w \in W : s <= w /\ w < top
    <3>1. \A w \in walked : w \in 1..synced /\ w < b /\ w < top
      BY <1>2 DEF SameBelow
    <3> QED BY <1>1, <1>11, <2>1, <3>1
  <2>3. W \in SUBSET slots /\ s \in W
    <3>1. s \in walked /\ s >= s /\ \A w : w \in W <=> w \in walked /\ w >= s
      BY <1>11, <2>1
    <3>2. walked \subseteq slots
      OBVIOUS
    <3> QED BY <3>1, <3>2, Zenon
  <2>4. \A t \in s..(top - 1) : t \in W \/ (t \notin slots /\ History[t].rows = <<>>)
    <3> SUFFICES ASSUME NEW t \in s..(top - 1), t \notin W
                 PROVE  t \notin slots /\ History[t].rows = <<>>
      OBVIOUS
    <3>1. t \in 1..synced /\ t < top /\ t >= s
      BY <1>1, <2>1
    <3>2. t < b
      BY <3>1 DEF SameBelow
    <3>3. t \notin below
      BY <1>10, <1>11, <3>1
    <3>4. t \notin Touching(History, synced)
      BY <3>2, <3>3
    <3> QED BY <1>2, <3>1, <3>3, <3>4 DEF Touching
  <2>5. WalkedTo(feed.history, slots, W, s, top)
    BY <2>2, <2>3, <2>4 DEF WalkedTo, History
  <2>6. /\ feed.history[s].epoch <= anchor.epoch /\ Anchored(feed.history, top, anchor)
        /\ Quiet(feed.history, top, synced)
    BY <1>11, <2>1 DEF Anchors, History
  <2>7. synced \in 1..Len(feed.history) /\ slots \in SUBSET (1..synced)
    BY <1>3 DEF History
  <2> HIDE DEF below
  <2>8. PreBlockStake(feed.history, synced, slots, W, anchor) = StakeBefore(feed.history, s)
    <3>1. CanWalk(feed, synced, top, slots, W, s, anchor)
      BY <2>5, <2>6, <2>7 DEF CanWalk
    <3> QED BY <3>1, WalkIs
  <2> QED BY <2>8 DEF History
<1>12. ASSUME NEW s \in walked
       PROVE  /\ s \in Touching(History, synced) /\ s < b
              /\ Quiet(History, top, synced) =>
                   PreBlockStake(History, synced, slots, {w \in walked : w >= s}, anchor)
                     = StakeBefore(History, s)
  BY <1>2, <1>11
<1>13. ASSUME next # <<>>
       PROVE  /\ Before(next)["touch"] \in 1..synced /\ Before(next)["touch"] < b
              /\ Head(next).epoch = History[Before(next)["touch"]].epoch
              /\ Quiet(History, top, synced) =>
                   Head(next).stake = StakeBefore(History, Before(next)["touch"])
  <2> DEFINE m == Min(walked)
  <2>1. m \in walked /\ \A w \in walked : m <= w
    <3>1. walked \subseteq Nat /\ walked # {}
      BY <1>3, <1>9, <1>13
    <3> QED BY <3>1, MinIndex
  <2>2. /\ Before(next) = Below(m) /\ Head(next).epoch = History[m].epoch
        /\ Head(next).stake = PreBlockStake(History, synced, slots, walked, anchor)
    BY <1>4, <1>9, <1>13
  <2> HIDE DEF m
  <2>3. Before(next)["touch"] = m
    BY <2>2 DEF Below, Sources
  <2>4. m \in 1..synced /\ m < b
    BY <1>2, <2>1
  <2>5. walked = {w \in walked : w >= m}
    BY <1>3, <2>1
  <2>6. Quiet(History, top, synced) =>
          PreBlockStake(History, synced, slots, walked, anchor) = StakeBefore(History, m)
    BY <1>11, <2>1, <2>5
  <2> QED BY <2>2, <2>3, <2>4, <2>6
<1> QED BY <1>12, <1>13 DEF WalkIsExact, NextIsExact

-----------------------------------------------------------------------------
(* The stake that a feed shows is the ledger's *)

\* A place is in the ledger's epoch, and has its stake unless something was
\* withdrawn from its block on.
PlaceIsExact(f, n, c) ==
  c # <<>> =>
    /\ Before(c)["touch"] \in 1..n
    /\ Head(c).epoch = f.history[Before(c)["touch"]].epoch
    /\ Quiet(f.history, Before(c)["touch"], n) =>
         Head(c).stake = StakeBefore(f.history, Before(c)["touch"])

\* A section shows no stake or the ledger's, or is below the first page, with
\* something withdrawn after its block.
SectionIsExact(f, n, c, sec) ==
  \/ sec.pre = Unknown \/ sec.pre = StakeBefore(f.history, sec.slot)
  \/ c # <<>> /\ ~PassedBy(f, sec.slot, c) /\ \E t \in (sec.slot + 1)..n : f.history[t].wd > 0

Exact(f, m) == f.kind = "stake" /\ ~Marked(m, {"lag", "fetch"})

StakeInv ==
  Exact(feed, marks) =>
    /\ PlaceIsExact(feed, synced, cursor) /\ PlaceIsExact(feed, synced, seed)
    /\ PlaceIsExact(feed, synced, pending)
    /\ \A sec \in shown : SectionIsExact(feed, synced, seed, sec)

LEMMA QuietLess ==
  ASSUME NEW h, NEW b \in Nat, NEW n \in Nat, NEW m \in Nat, n <= m, Quiet(h, b, m)
  PROVE  Quiet(h, b, n)
BY DEF Quiet

\* db-sync takes a block up.
LEMMA ExactMore ==
  ASSUME NEW f, NEW n \in Nat, NEW m \in Nat, n <= m
  PROVE  /\ \A c : PlaceIsExact(f, n, c) => PlaceIsExact(f, m, c)
         /\ \A c, sec : sec.slot \in Nat /\ SectionIsExact(f, n, c, sec)
                          => SectionIsExact(f, m, c, sec)
<1>1. ASSUME NEW c, PlaceIsExact(f, n, c), c # <<>>
      PROVE  PlaceIsExact(f, m, c)
  <2> DEFINE b == Before(c)["touch"]
  <2>1. /\ b \in 1..n /\ Head(c).epoch = f.history[b].epoch
        /\ Quiet(f.history, b, n) => Head(c).stake = StakeBefore(f.history, b)
    BY <1>1 DEF PlaceIsExact
  <2> HIDE DEF b
  <2>2. b \in Nat /\ b \in 1..m
    BY <2>1
  <2>3. Quiet(f.history, b, m) => Quiet(f.history, b, n)
    BY <2>2, QuietLess
  <2> QED BY <2>1, <2>2, <2>3 DEF PlaceIsExact, b
<1>2. \A c : c = <<>> => PlaceIsExact(f, m, c)
  BY DEF PlaceIsExact
<1>3. ASSUME NEW c, NEW sec, sec.slot \in Nat, SectionIsExact(f, n, c, sec)
      PROVE  SectionIsExact(f, m, c, sec)
  <2>1. (sec.slot + 1)..n \subseteq (sec.slot + 1)..m
    BY <1>3
  <2> QED BY <1>3, <2>1 DEF SectionIsExact
<1> QED BY <1>1, <1>2, <1>3

\* Sections that are not of a walk show no stake.
LEMMA NoStakeIsExact ==
  ASSUME NEW f, NEW n, NEW c, NEW s
  PROVE  SectionIsExact(f, n, c, Whole(s))
BY SectionHas DEF SectionIsExact, Whole

\* The sections of a walk.
LEMMA WalkedStakes ==
  ASSUME feed.kind = "stake", NEW slots, NEW walked, NEW anchor, NEW n, NEW c,
         \A s \in walked :
           \/ PreBlockStake(History, synced, slots, {w \in walked : w >= s}, anchor)
                = StakeBefore(History, s)
           \/ c # <<>> /\ ~PassedBy(feed, s, c) /\ \E t \in (s + 1)..n : History[t].wd > 0
  PROVE  \A sec \in StakeSections(slots, walked, anchor) : SectionIsExact(feed, n, c, sec)
<1> SUFFICES ASSUME NEW sec \in StakeSections(slots, walked, anchor)
             PROVE  SectionIsExact(feed, n, c, sec)
  OBVIOUS
<1> DEFINE pre(s) == PreBlockStake(History, synced, slots, {w \in walked : w >= s}, anchor)
<1>1. PICK s \in walked : sec = Section(s, pre(s), RowsOf(s))
  BY DEF StakeSections
<1>2. \/ pre(s) = StakeBefore(History, s)
      \/ c # <<>> /\ ~PassedBy(feed, s, c) /\ \E t \in (s + 1)..n : History[t].wd > 0
  OBVIOUS
<1> HIDE DEF pre
<1>3. sec.slot = s /\ sec.pre = pre(s)
  BY <1>1, SectionHas
<1> QED BY <1>2, <1>3 DEF SectionIsExact, History

LEMMA StakeTakes ==
  ASSUME PageInv, StakeInv, OlderBlocks
  PROVE  StakeInv'
<1> DEFINE b == Before(pending)["touch"]
           slots == RecentBlocks(History, synced, b)
           from == Head(pending)
<1>1. task = "live" /\ pending # <<>> /\ ByBlock(feed) /\ IsPlace(feed, pending)
  BY OlderBlocksTakes DEF PageInv, ReadInv
<1>2. PICK walked \in SUBSET slots :
        Take(slots, walked, StakeSections(slots, walked, from), SlotPlace(slots, walked, from))
  BY DEF OlderBlocks, Before
<1> DEFINE next == SlotPlace(slots, walked, from)
           secs == StakeSections(slots, walked, from)
<1>3. /\ UNCHANGED <<feed, synced, seed>>
      /\ shown' = InsertOlder(secs) /\ cursor' = next
      /\ marks' = marks \cup FetchMark(slots, walked, next)
      /\ pending' = next \/ pending' = <<>>
  BY <1>2 DEF Take, chain, stream
<1>4. SUFFICES ASSUME feed.kind = "stake", ~Marked(marks', {"lag", "fetch"})
               PROVE  /\ PlaceIsExact(feed, synced, next) /\ PlaceIsExact(feed, synced, seed)
                      /\ \A sec \in shown' : SectionIsExact(feed, synced, seed, sec)
  <2>1. PlaceIsExact(feed, synced, <<>>)
    BY DEF PlaceIsExact
  <2> HIDE DEF next
  <2> QED BY <1>3, <2>1 DEF StakeInv, Exact
<1>5. ~Marked(marks, {"lag", "fetch"}) /\ NoMark(slots, walked, next)
  BY <1>3, <1>4 DEF Marked, NoMark, FetchMark
<1>6. /\ PlaceIsExact(feed, synced, seed) /\ PlaceIsExact(feed, synced, pending)
      /\ \A sec \in shown : SectionIsExact(feed, synced, seed, sec)
  BY <1>4, <1>5 DEF StakeInv, Exact
<1>7. /\ b \in 1..synced /\ from.epoch = History[b].epoch
      /\ Quiet(History, b, synced) => from.stake = StakeBefore(History, b)
  BY <1>1, <1>6 DEF PlaceIsExact, History
<1>8. /\ feed \in Feeds /\ synced \in 1..Len(History) /\ synced \in Nat /\ Len(History) \in Nat
      /\ synced \in 0..Len(History)
  BY PaceIs DEF PageInv, Pace
<1>9. b \in 1..Len(History) /\ b \in Nat /\ b \in 1..(synced + 1)
  BY <1>7, <1>8
<1>10. from.epoch \in Nat /\ \A t \in 1..synced : t < b => History[t].epoch <= from.epoch
  <2>1. History[b].epoch \in Nat /\ \A t \in 1..b : History[t].epoch <= History[b].epoch
    BY <1>8, <1>9, BlockIs DEF History
  <2> QED BY <1>7, <1>9, <2>1
<1>11. Quiet(History, b, synced) => Anchored(History, b, from)
  BY <1>7, <1>10 DEF Anchored, StakeBefore, Nets
<1> HIDE DEF b, slots, from, next, secs
<1>12. WalkIsExact(b, b, slots, walked, from) /\ NextIsExact(b, b, next)
  <2>1. slots = RecentBlocks(History, synced, b) /\ next = SlotPlace(slots, walked, from)
    BY DEF slots, next
  <2>2. SameBelow(b, b) /\ Anchors(b, from)
    BY <1>10, <1>11 DEF SameBelow, Anchors
  <2> QED BY <1>4, <1>5, <1>8, <1>9, <2>1, <2>2, PageIsExact
<1>13. PlaceIsExact(feed, synced, next)
  <2> DEFINE m == Before(next)["touch"]
  <2>1. SUFFICES ASSUME next # <<>>, Quiet(History, m, synced)
                 PROVE  Head(next).stake = StakeBefore(History, m)
    BY <1>12 DEF PlaceIsExact, NextIsExact, History
  <2>2. m \in 1..synced /\ m < b
    BY <1>12, <2>1 DEF NextIsExact
  <2> HIDE DEF m
  <2>3. Quiet(History, b, synced)
    BY <1>9, <2>1, <2>2 DEF Quiet
  <2> QED BY <1>12, <2>1, <2>3 DEF NextIsExact, m
<1>14. \A sec \in secs : SectionIsExact(feed, synced, seed, sec)
  <2>1. ASSUME NEW s \in walked
        PROVE  \/ PreBlockStake(History, synced, slots, {w \in walked : w >= s}, from)
                    = StakeBefore(History, s)
               \/ seed # <<>> /\ ~PassedBy(feed, s, seed)
                  /\ \E t \in (s + 1)..synced : History[t].wd > 0
    <3>1. SUFFICES ASSUME ~Quiet(History, b, synced)
                   PROVE  seed # <<>> /\ ~PassedBy(feed, s, seed)
                          /\ \E t \in (s + 1)..synced : History[t].wd > 0
      BY <1>12 DEF WalkIsExact
    <3>2. s \in Touching(History, synced) /\ s < b
      BY <1>12 DEF WalkIsExact
    <3>3. s \in Nat /\ s \in Touching(History, Len(History))
      BY <1>8, <3>2, TouchingIs DEF History
    <3>4. PICK t \in b..synced : History[t].wd # 0
      BY <3>1 DEF Quiet
    <3>5. t \in (s + 1)..synced /\ t \in 1..Len(History)
      BY <1>8, <1>9, <3>2, <3>3, <3>4
    <3>6. History[t].wd \in Nat
      BY <1>8, <3>5, BlockIs DEF History
    <3>7. IsPlace(feed, seed) /\ IsPlace(feed, cursor) /\ NotAbove(pending, seed)
      BY NotAboveTrans DEF PageInv, ReadInv
    <3>8. seed # <<>> /\ b <= Before(seed)["touch"] /\ Before(seed)["touch"] \in Nat
      BY <1>1, <3>7 DEF NotAbove, IsPlace, Sources, b
    <3>9. ~(Before(seed)["touch"] <= s)
      BY <1>9, <3>2, <3>3, <3>8
    <3>10. ~PassedBy(feed, s, seed)
      BY <1>1, <1>8, <3>3, <3>7, <3>8, <3>9, PassedSlot DEF History
    <3> QED BY <3>4, <3>5, <3>6, <3>8, <3>10
  <2> QED BY <1>4, <2>1, WalkedStakes DEF secs
<1>15. shown' \subseteq shown \cup secs
  BY <1>3 DEF InsertOlder
<1> QED BY <1>6, <1>13, <1>14, <1>15

LEMMA StakeSends ==
  ASSUME PageInv, StakeInv, SendBlocks
  PROVE  StakeInv'
<1>1. PICK walked \in SUBSET page : Send(walked)
  BY DEF SendBlocks
<1> DEFINE place == Seed(walked, Anchor)
           first == FirstSections(walked, Anchor)
<1>2. /\ UNCHANGED <<feed, applied, synced, pending>>
      /\ task = "send" /\ shown' = Trimmed(first \cup SnapshotSections)
      /\ seed' = place /\ cursor' = place
      /\ marks' = TrimMark(first \cup SnapshotSections, place, place)
                    \cup FetchMark(page, walked, place)
                    \cup IF applied # upto \/ synced # upto THEN {"lag"} ELSE {}
  BY <1>1 DEF Send, chain
<1>3. SUFFICES ASSUME feed.kind = "stake", ~Marked(marks', {"lag", "fetch"})
               PROVE  /\ PlaceIsExact(feed, synced, place)
                      /\ \A sec \in shown' : SectionIsExact(feed, synced, place, sec)
  <2>1. PlaceIsExact(feed, synced, <<>>) /\ pending = <<>>
    BY <1>2 DEF PlaceIsExact, PageInv, ReadInv
  <2> HIDE DEF place
  <2> QED BY <1>2, <2>1 DEF StakeInv, Exact
<1>4. applied = upto /\ synced = upto /\ NoMark(page, walked, place)
  BY <1>2, <1>3 DEF Marked, NoMark, FetchMark
<1>5. /\ feed \in Feeds /\ synced \in 1..Len(History) /\ synced \in Nat /\ Len(History) \in Nat
      /\ synced \in 0..Len(History)
  BY PaceIs DEF PageInv, Pace
<1>6. /\ place = SlotPlace(page, walked, Anchor) /\ first = StakeSections(page, walked, Anchor)
      /\ page = RecentBlocks(History, synced, Top)
  BY <1>2, <1>3, <1>4 DEF Seed, FirstSections, BySlot, ByBlock, PageInv, PageIsRecent
<1> DEFINE top == synced + 1
           from == Anchor
<1>7. top \in 1..(synced + 1) /\ Top \in Nat /\ \A t \in 1..synced : t < Top <=> t < top
  <2> DEFINE N == Len(History)
  <2>1. 3 * N + 3 < Top /\ Top \in Nat
    BY <1>5, FeedsAssumption, ReplayAssumption DEF History, RowId, MaxRows
  <2>2. N \in Nat /\ synced <= N
    BY <1>5
  <2> HIDE DEF N
  <2> QED BY <1>5, <2>1, <2>2
<1>8. from.epoch = History[synced].epoch /\ from.stake = LiveStake(History, synced)
  BY <1>4 DEF Anchor
<1>9. from.epoch \in Nat /\ \A t \in 1..synced : t < top => History[t].epoch <= from.epoch
  BY <1>5, <1>8, BlockIs DEF History
<1>10. Anchored(History, top, from)
  <2>1. top - 1 = synced
    BY <1>5
  <2> HIDE DEF top, from
  <2> QED BY <1>8, <1>9, <2>1 DEF Anchored, LiveStake, Nets
<1>11. Quiet(History, top, synced)
  BY <1>5 DEF Quiet
<1> HIDE DEF place, first, top, from
<1>12. WalkIsExact(Top, top, page, walked, from) /\ NextIsExact(Top, top, place)
  <2>1. place = SlotPlace(page, walked, from)
    BY <1>6 DEF from
  <2>2. SameBelow(Top, top) /\ Anchors(top, from)
    BY <1>7, <1>9, <1>10 DEF SameBelow, Anchors
  <2> QED BY <1>3, <1>4, <1>5, <1>6, <1>7, <2>1, <2>2, PageIsExact
<1>13. PlaceIsExact(feed, synced, place)
  <2> DEFINE m == Before(place)["touch"]
  <2>1. SUFFICES ASSUME place # <<>>
                 PROVE  m \in 1..synced /\ Head(place).epoch = History[m].epoch
                        /\ Head(place).stake = StakeBefore(History, m)
    BY DEF PlaceIsExact, History
  <2> QED BY <1>11, <1>12, <2>1 DEF NextIsExact
<1>14. \A sec \in first : SectionIsExact(feed, synced, place, sec)
  <2>1. first = StakeSections(page, walked, from)
    BY <1>6 DEF from
  <2>2. \A s \in walked :
          PreBlockStake(History, synced, page, {w \in walked : w >= s}, from)
            = StakeBefore(History, s)
    BY <1>11, <1>12 DEF WalkIsExact
  <2> QED BY <1>3, <2>1, <2>2, WalkedStakes
<1>15. \A sec \in SnapshotSections : SectionIsExact(feed, synced, place, sec)
  BY NoStakeIsExact DEF SnapshotSections
<1>16. shown' \subseteq first \cup SnapshotSections
  BY <1>2 DEF Trimmed
<1> QED BY <1>13, <1>14, <1>15, <1>16

LEMMA StakeInvNext == PageInv /\ StakeInv /\ [Next]_vars => StakeInv'
<1> SUFFICES ASSUME PageInv, StakeInv, [Next]_vars PROVE StakeInv'
  OBVIOUS
<1>1. CASE Sync
  <2>1. /\ UNCHANGED <<feed, cursor, seed, pending, shown, marks>> /\ synced' = synced + 1
    BY <1>1 DEF Sync, client
  <2>2. synced \in Nat /\ synced' \in Nat /\ synced <= synced'
    BY <2>1, PaceIs
  <2>3. \A sec \in shown : sec.slot \in Nat
    BY PaceIs DEF PageInv, Listing, SectionIs, History
  <2>4. /\ \A c : PlaceIsExact(feed, synced, c) => PlaceIsExact(feed, synced', c)
        /\ \A c, sec : sec.slot \in Nat /\ SectionIsExact(feed, synced, c, sec)
                         => SectionIsExact(feed, synced', c, sec)
    BY <2>2, ExactMore
  <2> QED BY <2>1, <2>3, <2>4 DEF StakeInv
<1>2. CASE Connect
  BY <1>2 DEF Connect, StakeInv, PlaceIsExact
<1>3. CASE SendBlocks
  BY <1>3, StakeSends
<1>4. CASE Deliver
  <2> DEFINE new == IF History[sent + 1].rows = <<>> THEN {} ELSE {Whole(sent + 1)}
  <2>1. /\ UNCHANGED <<feed, synced, seed, cursor, pending>>
        /\ shown' = Trimmed(InsertOlder(new))
        /\ marks' = marks \cup TrimMark(InsertOlder(new), cursor, seed)
    BY <1>4 DEF Deliver, chain
  <2>2. shown' \subseteq shown \cup {Whole(sent + 1)}
    BY <2>1 DEF Trimmed, InsertOlder
  <2>3. Exact(feed', marks') => Exact(feed, marks)
    BY <2>1 DEF Exact, Marked
  <2> HIDE DEF new
  <2> QED BY <2>1, <2>2, <2>3, NoStakeIsExact DEF StakeInv
<1>5. CASE OlderBlocks
  BY <1>5, StakeTakes
<1>6. CASE OlderPoolDrep
  <2>1. feed' = feed /\ feed.kind # "stake"
    BY <1>6, OlderPoolDrepTakes DEF OlderPoolDrep, Take, chain, PageInv, ByBlock
  <2> QED BY <2>1 DEF StakeInv, Exact
<1>7. CASE ScrollBack
  <2>1. UNCHANGED <<feed, synced, shown, seed, pending>>
    BY <1>7 DEF ScrollBack, chain, stream
  <2>2. cursor' = cursor \/ cursor' = seed
    BY <1>7 DEF ScrollBack
  <2>3. Exact(feed', marks') => Exact(feed, marks)
    BY <1>7, <2>1 DEF ScrollBack, Exact, Marked
  <2> QED BY <2>1, <2>2, <2>3 DEF StakeInv
<1>8. CASE Apply \/ Query \/ LoadOlder \/ Refuse \/ ScrollAway \/ UNCHANGED vars
  <2>1. UNCHANGED <<feed, synced, shown, seed, cursor, marks>>
        /\ (pending' = pending \/ pending' = cursor \/ pending' = <<>>)
    BY <1>8 DEF Apply, Query, LoadOlder, Refuse, ScrollAway, vars, chain, stream, client
  <2>2. PlaceIsExact(feed, synced, <<>>)
    BY DEF PlaceIsExact
  <2> QED BY <2>1, <2>2 DEF StakeInv
<1> QED BY <1>1, <1>2, <1>3, <1>4, <1>5, <1>6, <1>7, <1>8 DEF Next, Answer

LEMMA PageInvIsTyped == PageInv => TypeOK
<1> SUFFICES ASSUME PageInv PROVE TypeOK
  OBVIOUS
<1>1. /\ feed \in Feeds /\ Len(History) \in Nat /\ Later(applied, synced) \in 0..Len(History)
  BY PaceIs
<1>2. \A sec \in shown : sec.slot \in 1..Len(History) /\ sec.rows \subseteq RowsOf(sec.slot)
  <2> SUFFICES ASSUME NEW sec \in shown
               PROVE  sec.slot \in 1..Len(History) /\ sec.rows \subseteq RowsOf(sec.slot)
    OBVIOUS
  <2>1. SectionIs(feed, sec)
    BY DEF PageInv, Listing
  <2>2. sec.slot \in 1..Len(History)
    BY <2>1 DEF SectionIs, History
  <2>3. RowsOf(sec.slot) = RowsAt(feed, sec.slot)
    BY <1>1, <2>2, PassedIs
  <2> QED BY <2>1, <2>2, <2>3 DEF SectionIs
<1>3. \A sec, t \in shown : sec.slot = t.slot => sec = t
  BY DEF PageInv, Listing, OnePerSlot
<1>4. page \subseteq 1..Len(History)
  BY <1>1 DEF PageInv, PageIsRecent
<1> QED BY <1>1, <1>2, <1>3, <1>4 DEF PageInv, Pace, ReadInv, TypeOK

LEMMA StakeInvIsExact == PageInv /\ StakeInv => StakeIsTheLedgers
<1> SUFFICES ASSUME PageInv, StakeInv PROVE StakeIsTheLedgers
  OBVIOUS
<1>1. TypeOK
  BY PageInvIsTyped
<1>2. ASSUME feed.kind = "stake", marks \cap {"lag", "fetch"} = {}, NEW sec \in shown
      PROVE  sec.pre = Unknown \/ sec.pre = StakeBefore(History, sec.slot)
               \/ (seed # <<>> /\ ~Passed(sec.slot, seed)
                   /\ \E s \in (sec.slot + 1)..synced : History[s].wd > 0)
  <2>1. SectionIsExact(feed, synced, seed, sec)
    BY <1>2 DEF StakeInv, Exact, Marked
  <2>2. feed \in Feeds /\ sec.slot \in 1..Len(History)
    BY <1>1 DEF TypeOK
  <2>3. Passed(sec.slot, seed) <=> PassedBy(feed, sec.slot, seed)
    BY <2>2, PassedIs
  <2> QED BY <2>1, <2>3 DEF SectionIsExact, History
<1> QED BY <1>1, <1>2 DEF StakeIsTheLedgers

\* Whatever the subject, its history, the rewards and the size of a page, the
\* stake that a stake feed shows before a block is the ledger's, on the first
\* page and below it, rewards and withdrawals undone at the right blocks
\* (pre_block_stake), if db-sync was as far as the state when the page was
\* opened, every block was got, and, below the first page, nothing was withdrawn
\* in a newer block.
THEOREM ShownStakeIsTheLedgers == Spec => []StakeIsTheLedgers
<1>1. Init => PageInv
  BY PageInvInit
<1>2. Init => StakeInv
  BY DEF Init, StakeInv, PlaceIsExact
<1>3. PageInv /\ [Next]_vars => PageInv'
  BY PageInvNext
<1>4. PageInv /\ StakeInv /\ [Next]_vars => StakeInv'
  BY StakeInvNext
<1>5. PageInv /\ StakeInv => StakeIsTheLedgers
  BY StakeInvIsExact
<1> QED BY <1>1, <1>2, <1>3, <1>4, <1>5, PTL DEF Spec

=============================================================================
