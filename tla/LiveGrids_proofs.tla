-------------------------- MODULE LiveGrids_proofs --------------------------
(***************************************************************************)
(* Of LiveGrids, for every set of pages, every genesis, every content of   *)
(* the blocks and every size of a page: the variables keep their types,    *)
(* headers and largest changes are those of the state, the changes of a    *)
(* feed add up to the subject's stake, and the two grids hold what a grid  *)
(* opened now would hold.                                                  *)
(*                                                                         *)
(* A grid, with the answer on its way to it, has only right tiles, all of  *)
(* them once there is no more to load, and at least those that the listing *)
(* has before the cursor (Shows).  What is right depends on how far the    *)
(* stream is.  For delegators, while the event of one block is not taken,  *)
(* what that block touched may be as before (DelegInv), and what it did    *)
(* not touch has not changed (UntouchedIs).  For assets, it is what the    *)
(* snapshot the stream compares with holds (AssetInv), whatever the state  *)
(* is: the tokens of the next delta are all that came and went since.      *)
(*                                                                         *)
(* A feed's tally is right as far as rollbacks on their way leave it       *)
(* (TallyInv), and the event of a block is of the state's last step        *)
(* (LastInv).  That block moves a credential's stake by what its moves of  *)
(* money, address by address, come to (CredMoves); those of a set of       *)
(* credentials come to what its transactions move one by one (GroupMoves,  *)
(* BlockMoves); and its delegations bring the stake of those that have     *)
(* come, less that of those that have gone (MembersJoin).                  *)
(***************************************************************************)
EXTENDS LiveGrids, SequenceLemmas

-----------------------------------------------------------------------------
(* Sums *)

Share(moves, own) ==
  [i \in DOMAIN moves |-> IF moves[i][1] \in own THEN moves[i][2] ELSE 0]

IsShare(s, moves, own) ==
  /\ s \in Seq(Nat) /\ Len(s) = Len(moves) /\ Amounts(moves, own) = SumSeq(s)
  /\ \A i \in 1..Len(moves) : s[i] = IF moves[i][1] \in own THEN moves[i][2] ELSE 0

LEMMA ShareIs ==
  ASSUME NEW A, NEW moves \in Seq(A \X Nat), NEW own
  PROVE  IsShare(Share(moves, own), moves, own)
<1>1. Len(moves) \in Nat /\ DOMAIN moves = 1..Len(moves)
  BY LenNat
<1>2. \A i \in 1..Len(moves) : moves[i] \in A \X Nat
  BY <1>1, ElementIn
<1>3. \A i \in 1..Len(moves) : (IF moves[i][1] \in own THEN moves[i][2] ELSE 0) \in Nat
  BY <1>2
<1>4. Share(moves, own) \in [1..Len(moves) -> Nat]
  BY <1>1, <1>3 DEF Share
<1>5. Share(moves, own) \in Seq(Nat) /\ Len(Share(moves, own)) = Len(moves)
  BY <1>1, <1>4
<1> QED BY <1>1, <1>5 DEF Share, Amounts, IsShare

LEMMA NatSums == \A s \in Seq(Nat) : SumSeq(s) \in Nat
<1>1. 0 \in Nat /\ \A a, b \in Nat : a + b \in Nat
  OBVIOUS
<1> QED BY <1>1, SumIn

LEMMA AmountsNat ==
  ASSUME NEW A, NEW moves \in Seq(A \X Nat), NEW own
  PROVE  Amounts(moves, own) \in Nat
<1> DEFINE s == Share(moves, own)
<1>1. IsShare(s, moves, own)
  BY ShareIs
<1> HIDE DEF s
<1> QED BY <1>1, NatSums DEF IsShare

\* A sum of nothing is nothing.
LEMMA NoSum ==
  ASSUME NEW s \in Seq(Nat), \A i \in 1..Len(s) : s[i] = 0
  PROVE  SumSeq(s) = 0
<1>1. 0 \in Nat /\ \A a, b \in Nat : a + b \in Nat
  OBVIOUS
<1>2. PICK f : IsSum(f, s, Nat) /\ SumSeq(s) = f[Len(s)]
  BY <1>1, SumRuns
<1> DEFINE n == Len(s)
           T == {i \in 0..n : f[i] = 0}
<1>3. n \in Nat /\ 0 \in T
  BY <1>2, LenNat DEF IsSum
<1>4. ASSUME NEW i \in 1..n, i - 1 \in T PROVE i \in T
  BY <1>2, <1>3, <1>4 DEF IsSum
<1>5. \A i \in 0..n : i \in T
  BY <1>3, <1>4, CountUp
<1> QED BY <1>2, <1>3, <1>5

\* Who is in no move of a list gets nothing of it.
LEMMA AmountsNone ==
  ASSUME NEW A, NEW moves \in Seq(A \X Nat), NEW own,
         \A m \in ToSet(moves) : m[1] \notin own
  PROVE  Amounts(moves, own) = 0
<1>1. DOMAIN moves = 1..Len(moves)
  BY LenNat
<1>2. \A i \in 1..Len(moves) : moves[i] \in ToSet(moves)
  BY <1>1 DEF ToSet
<1> DEFINE s == Share(moves, own)
<1>0. IsShare(s, moves, own)
  BY ShareIs
<1> HIDE DEF s
<1>3. /\ s \in Seq(Nat) /\ Len(s) = Len(moves) /\ Amounts(moves, own) = SumSeq(s)
      /\ \A i \in 1..Len(moves) : s[i] = IF moves[i][1] \in own THEN moves[i][2] ELSE 0
  BY <1>0 DEF IsShare
<1>4. ASSUME NEW i \in 1..Len(s) PROVE s[i] = 0
  <2>1. i \in 1..Len(moves) /\ moves[i] \in ToSet(moves)
    BY <1>2, <1>3
  <2>2. ~(moves[i][1] \in own)
    BY <2>1
  <2> QED BY <1>3, <2>1, <2>2
<1> QED BY <1>3, <1>4, NoSum

-----------------------------------------------------------------------------
(* A block *)

\* What a transaction of the state's block has in a field.
Raw(field) ==
  CASE field \in {"ins", "outs"} -> Addr \X Nat
    [] field = "wds" -> Creds \X Nat
    [] field = "certs" -> Creds \X (Targets \cup {NoTarget})

Fields == {"ins", "outs", "wds", "certs"}

LEMMA AllIs ==
  ASSUME NEW block \in Block, NEW field \in Fields
  PROVE  /\ All(block, field) \in Seq(Raw(field))
         /\ \A m : m \in ToSet(All(block, field)) <=>
                     \E tx \in ToSet(block.txs) : m \in ToSet(tx[field])
<1> DEFINE R == Raw(field)
           f == [tx \in Transaction |-> tx[field]]
<1>1. block.txs \in Seq(Transaction) /\ DOMAIN block.txs = 1..Len(block.txs)
  BY LenNat DEF Block
<1>2. f \in [Transaction -> Seq(R)]
  BY DEF Transaction, Raw, Fields
<1>3. ToSet(block.txs) \subseteq Transaction
  BY <1>1, ElementIn DEF ToSet
<1>4. \A i \in DOMAIN block.txs : f[block.txs[i]] = block.txs[i][field]
  BY <1>1, ElementIn
<1>5. All(block, field) = FlatMap(block.txs, f)
  BY <1>4 DEF All, FlatMap
<1>6. \A tx \in ToSet(block.txs) : f[tx] = tx[field]
  BY <1>3
<1> HIDE DEF f, R
<1>7. FlatMap(block.txs, f) \in Seq(R)
  BY <1>1, <1>2, FlatMapAppend
<1> QED BY <1>1, <1>2, <1>5, <1>6, <1>7, FlatMapElements DEF R

\* A credential that no certificate of a block names keeps its target.
LEMMA TargetIs ==
  ASSUME NEW snap \in Snapshot, NEW block \in Block, NEW c \in Creds
  PROVE  /\ Target(snap, block, c) \in Targets \cup {NoTarget}
         /\ (\A d \in ToSet(All(block, "certs")) : d[1] # c)
              => Target(snap, block, c) = snap.deleg[c]
<1> DEFINE certs == All(block, "certs")
           R == Creds \X (Targets \cup {NoTarget})
           keep == {d \in ToSet(certs) : d[1] = c}
           mine == Sift(certs, keep)
<1>1. certs \in Seq(R)
  <2>1. "certs" \in Fields /\ Raw("certs") = R
    BY DEF Fields, Raw
  <2> QED BY <2>1, AllIs
<1>2. snap.deleg[c] \in Targets \cup {NoTarget}
  BY DEF Snapshot
<1>3. Target(snap, block, c) = IF mine = <<>> THEN snap.deleg[c] ELSE Last(mine)[2]
  BY DEF Target
<1> HIDE DEF certs
<1>4. mine \in Seq(R \cap keep)
  BY <1>1, SiftIn
<1> HIDE DEF mine
<1>5. mine # <<>> => Last(mine) \in R \cap keep
  <2>1. ASSUME mine # <<>> PROVE mine[Len(mine)] \in R \cap keep
    BY <1>4, <2>1
  <2> QED BY <2>1 DEF Last
<1>6. keep = {} => mine = <<>>
  BY <1>4, <1>5
<1> QED BY <1>2, <1>3, <1>5, <1>6 DEF certs

LEMMA AmountsOf ==
  ASSUME NEW block \in Block, NEW own
  PROVE  /\ Amounts(All(block, "ins"), own) \in Nat
         /\ Amounts(All(block, "outs"), own) \in Nat
         /\ Amounts(All(block, "wds"), own) \in Nat
<1>1. /\ {"ins", "outs", "wds"} \subseteq Fields /\ Raw("ins") = Addr \X Nat
      /\ Raw("outs") = Addr \X Nat /\ Raw("wds") = Creds \X Nat
  BY DEF Fields, Raw
<1>2. All(block, "ins") \in Seq(Addr \X Nat)
  BY <1>1, AllIs
<1>3. All(block, "outs") \in Seq(Addr \X Nat)
  BY <1>1, AllIs
<1>4. All(block, "wds") \in Seq(Creds \X Nat)
  BY <1>1, AllIs
<1>5. Amounts(All(block, "ins"), own) \in Nat
  BY <1>2, AmountsNat
<1>6. Amounts(All(block, "outs"), own) \in Nat
  BY <1>3, AmountsNat
<1>7. Amounts(All(block, "wds"), own) \in Nat
  BY <1>4, AmountsNat
<1> QED BY <1>5, <1>6, <1>7

\* The parts of the snapshot after a block.
AfterParts(snap, block, slot, next) ==
  /\ DOMAIN next.bal = Addr
  /\ \A a \in Addr : next.bal[a] = snap.bal[a] + Amounts(All(block, "outs"), {a})
                                     - Amounts(All(block, "ins"), {a})
  /\ DOMAIN next.reward = Creds
  /\ \A c \in Creds : next.reward[c] =
       snap.reward[c] + (IF block.epoch > snap.epoch /\ snap.deleg[c] # NoTarget
                         THEN Reward ELSE 0)
         - Amounts(All(block, "wds"), {c})
  /\ next.deleg = [c \in Creds |-> Target(snap, block, c)]
  /\ next.since = [c \in Creds |-> IF Target(snap, block, c) = snap.deleg[c]
                                   THEN snap.since[c] ELSE slot]
  /\ next.holds = (snap.holds \cup block.gained) \ block.lost
  /\ next.epoch = block.epoch

LEMMA AfterIs ==
  ASSUME NEW snap \in Snapshot, NEW block, NEW slot
  PROVE  AfterParts(snap, block, slot, After(snap, block, slot))
<1>1. DOMAIN snap.bal = Addr
  BY DEF Snapshot
<1> QED BY <1>1 DEF AfterParts, After

LEMMA AfterTyped ==
  ASSUME NEW snap \in Snapshot, NEW block \in Block, Valid(snap, block), NEW slot \in Nat
  PROVE  After(snap, block, slot) \in Snapshot
<1> DEFINE next == After(snap, block, slot)
           first == After(snap, block, 1)
<1>1. AfterParts(snap, block, slot, next) /\ AfterParts(snap, block, 1, first)
  BY AfterIs
<1>2. /\ \A a \in Addr : first.bal[a] >= 0
      /\ \A c \in Creds : first.reward[c] >= 0
  <2>1. \A a \in DOMAIN first.bal : first.bal[a] >= 0
    BY DEF Valid
  <2>2. \A c \in Creds : first.reward[c] >= 0
    BY DEF Valid
  <2> QED BY <1>1, <2>1, <2>2 DEF AfterParts
<1>3. next = [bal |-> next.bal, reward |-> next.reward, deleg |-> next.deleg,
              since |-> next.since, holds |-> next.holds, epoch |-> next.epoch]
      /\ next.bal = [a \in Addr |-> next.bal[a]]
      /\ next.reward = [c \in Creds |-> next.reward[c]]
  <2>1. DOMAIN snap.bal = Addr
    BY DEF Snapshot
  <2> QED BY <2>1 DEF After
<1> HIDE DEF next, first
<1>4. /\ snap.bal \in [Addr -> Nat] /\ snap.reward \in [Creds -> Nat]
      /\ snap.deleg \in [Creds -> Targets \cup {NoTarget}] /\ snap.since \in [Creds -> Nat]
      /\ snap.holds \in Holdings /\ snap.epoch \in Nat
  BY DEF Snapshot
<1>5. next.bal \in [Addr -> Nat]
  <2>1. ASSUME NEW a \in Addr PROVE next.bal[a] \in Nat
    <3>1. next.bal[a] = first.bal[a] /\ first.bal[a] >= 0
      BY <1>1, <1>2 DEF AfterParts
    <3>2. next.bal[a] = snap.bal[a] + Amounts(All(block, "outs"), {a})
                          - Amounts(All(block, "ins"), {a})
      BY <1>1 DEF AfterParts
    <3>3. snap.bal[a] \in Nat
      BY <1>4
    <3>4. Amounts(All(block, "outs"), {a}) \in Nat /\ Amounts(All(block, "ins"), {a}) \in Nat
      BY AmountsOf
    <3> QED BY <3>1, <3>2, <3>3, <3>4
  <2> QED BY <1>3, <2>1
<1>6. next.reward \in [Creds -> Nat]
  <2>1. ASSUME NEW c \in Creds PROVE next.reward[c] \in Nat
    <3> DEFINE credit == IF block.epoch > snap.epoch /\ snap.deleg[c] # NoTarget
                         THEN Reward ELSE 0
    <3>1. next.reward[c] = first.reward[c] /\ first.reward[c] >= 0
      BY <1>1, <1>2 DEF AfterParts
    <3>2. next.reward[c] = snap.reward[c] + credit - Amounts(All(block, "wds"), {c})
      BY <1>1 DEF AfterParts
    <3>3. snap.reward[c] \in Nat /\ credit \in Nat
      BY <1>4, GridAssumption
    <3>4. Amounts(All(block, "wds"), {c}) \in Nat
      BY AmountsOf
    <3> HIDE DEF credit
    <3> QED BY <3>1, <3>2, <3>3, <3>4
  <2> QED BY <1>3, <2>1
<1>7. next.deleg \in [Creds -> Targets \cup {NoTarget}]
  <2>1. \A c \in Creds : Target(snap, block, c) \in Targets \cup {NoTarget}
    BY TargetIs
  <2>2. next.deleg = [c \in Creds |-> Target(snap, block, c)]
    BY <1>1 DEF AfterParts
  <2> QED BY <2>1, <2>2
<1>8. next.since \in [Creds -> Nat]
  <2>1. next.since = [c \in Creds |-> IF Target(snap, block, c) = snap.deleg[c]
                                      THEN snap.since[c] ELSE slot]
    BY <1>1 DEF AfterParts
  <2> QED BY <1>4, <2>1
<1>9. next.holds \in Holdings
  <2>1. next.holds = (snap.holds \cup block.gained) \ block.lost
    BY <1>1 DEF AfterParts
  <2>2. block.gained \in Holdings
    BY DEF Block
  <2>3. IsFiniteSet(snap.holds \cup block.gained)
    BY <1>4, <2>2, FS_Union DEF Holdings
  <2>4. IsFiniteSet((snap.holds \cup block.gained) \ block.lost)
    BY <2>3, FS_Difference
  <2> QED BY <1>4, <2>1, <2>2, <2>4 DEF Holdings
<1>10. next.epoch \in Nat
  BY <1>1 DEF AfterParts, Block
<1> QED BY <1>3, <1>5, <1>6, <1>7, <1>8, <1>9, <1>10 DEF Snapshot, next

\* The stake of a credential.
OwnBal(snap, cred) ==
  [a \in DOMAIN snap.bal |-> IF CredOf[a] = cred THEN snap.bal[a] ELSE 0]

LEMMA LiveNat ==
  ASSUME NEW snap \in Snapshot, NEW cred \in Creds
  PROVE  /\ OwnBal(snap, cred) \in Seq(Nat) /\ StakeOf(snap, cred) = SumSeq(OwnBal(snap, cred))
         /\ StakeOf(snap, cred) \in Nat /\ Live(snap, cred) \in Nat
<1> DEFINE s == OwnBal(snap, cred)
<1>1. DOMAIN snap.bal = 1..Len(CredOf) /\ Len(CredOf) \in Nat
  BY FilterAssumption, LenNat DEF Snapshot, Addr
<1>2. s \in [1..Len(CredOf) -> Nat]
  BY <1>1 DEF OwnBal, Snapshot
<1>3. s \in Seq(Nat)
  BY <1>1, <1>2
<1>4. StakeOf(snap, cred) = SumSeq(s)
  BY DEF StakeOf, OwnBal
<1>5. snap.reward[cred] \in Nat
  BY DEF Snapshot
<1> HIDE DEF s
<1>6. SumSeq(s) \in Nat
  BY <1>3, NatSums
<1> QED BY <1>3, <1>4, <1>5, <1>6 DEF Live, s

-----------------------------------------------------------------------------
(* Sorted lists *)

\* An order of the elements of a set, as pairs.
Orders(R, S) ==
  /\ \A x \in S : <<x, x>> \notin R
  /\ \A x, y \in S : x # y => <<x, y>> \in R \/ <<y, x>> \in R
  /\ \A x, y, z \in S : <<x, y>> \in R /\ <<y, z>> \in R => <<x, z>> \in R

Below(S, R, x) == {y \in S : <<y, x>> \in R}

LEMMA BelowCount ==
  ASSUME NEW S, IsFiniteSet(S), NEW R, Orders(R, S)
  PROVE  /\ Cardinality(S) \in Nat
         /\ \A x \in S : Cardinality(Below(S, R, x)) \in 0..(Cardinality(S) - 1)
         /\ \A x, y \in S : Cardinality(Below(S, R, x)) = Cardinality(Below(S, R, y)) => x = y
<1>1. Cardinality(S) \in Nat
  BY FS_CardinalityType
<1>2. ASSUME NEW x \in S
      PROVE  IsFiniteSet(Below(S, R, x)) /\ Cardinality(Below(S, R, x)) \in Nat
  <2>1. Below(S, R, x) \in SUBSET S
    BY DEF Below
  <2>2. IsFiniteSet(Below(S, R, x))
    BY <2>1, FS_Subset
  <2> QED BY <2>2, FS_CardinalityType
<1>3. ASSUME NEW x \in S
      PROVE  Cardinality(Below(S, R, x)) \in 0..(Cardinality(S) - 1)
  <2>1. Below(S, R, x) \in SUBSET S /\ Below(S, R, x) # S
    BY DEF Below, Orders
  <2>2. Cardinality(Below(S, R, x)) <= Cardinality(S)
    BY <2>1, FS_Subset
  <2>3. Cardinality(Below(S, R, x)) # Cardinality(S)
    BY <2>1, FS_Subset
  <2> QED BY <1>1, <1>2, <2>2, <2>3
<1>4. ASSUME NEW x \in S, NEW y \in S, <<x, y>> \in R
      PROVE  Cardinality(Below(S, R, x)) < Cardinality(Below(S, R, y))
  <2> DEFINE B == Below(S, R, x)
             C == Below(S, R, y)
  <2>1. B \in SUBSET C /\ B # C
    <3>1. B \in SUBSET C
      BY <1>4 DEF Below, Orders
    <3>2. x \in C /\ x \notin B
      BY <1>4 DEF Below, Orders
    <3> QED BY <3>1, <3>2
  <2>2. IsFiniteSet(C)
    BY <1>2
  <2>3. Cardinality(B) \in Nat /\ Cardinality(C) \in Nat
    BY <1>2
  <2> HIDE DEF B, C
  <2>4. Cardinality(B) <= Cardinality(C)
    BY <2>1, <2>2, FS_Subset
  <2>5. Cardinality(B) # Cardinality(C)
    BY <2>1, <2>2, FS_Subset
  <2>6. Cardinality(B) < Cardinality(C)
    BY <2>3, <2>4, <2>5
  <2> QED BY <2>6 DEF B, C
<1>5. ASSUME NEW x \in S, NEW y \in S, x # y
      PROVE  Cardinality(Below(S, R, x)) # Cardinality(Below(S, R, y))
  <2>1. <<x, y>> \in R \/ <<y, x>> \in R
    BY <1>5 DEF Orders
  <2>2. Cardinality(Below(S, R, x)) \in Nat /\ Cardinality(Below(S, R, y)) \in Nat
    BY <1>2
  <2>3. CASE <<x, y>> \in R
    <3>1. Cardinality(Below(S, R, x)) < Cardinality(Below(S, R, y))
      BY <1>4, <2>3
    <3> QED BY <2>2, <3>1
  <2>4. CASE <<y, x>> \in R
    <3>1. Cardinality(Below(S, R, y)) < Cardinality(Below(S, R, x))
      BY <1>4, <2>4
    <3> QED BY <2>2, <3>1
  <2> QED BY <2>1, <2>3, <2>4
<1> QED BY <1>1, <1>3, <1>5

\* A list that has each element of a set once.
Lists(s, S) ==
  /\ s \in Seq(S) /\ Len(s) = Cardinality(S) /\ ToSet(s) = S /\ Once(s)

LEMMA SortedIs ==
  ASSUME NEW S, IsFiniteSet(S), NEW R, Orders(R, S)
  PROVE  Lists(Sorted(S, R), S)
<1> DEFINE n == Cardinality(S)
           rank == [x \in S |-> Cardinality(Below(S, R, x))]
           s == Sorted(S, R)
<1>1. n \in Nat /\ rank \in [S -> 0..(n - 1)] /\ \A x, y \in S : rank[x] = rank[y] => x = y
  BY BelowCount
<1>2. s = [i \in 1..n |-> CHOOSE x \in S : Cardinality(Below(S, R, x)) = i - 1]
  BY DEF Sorted, Below
<1>0. \A x \in S : rank[x] = Cardinality(Below(S, R, x))
  OBVIOUS
<1> HIDE DEF rank, s
<1>3. \A k \in 0..(n - 1) : \E x \in S : rank[x] = k
  <2> DEFINE I == 0..(n - 1)
  <2>1. rank \in Injection(S, I)
    BY <1>1 DEF Injection, IsInjective
  <2>2. IsFiniteSet(I) /\ Cardinality(I) = n
    <3>1. 0 \in Int /\ n - 1 \in Int
      BY <1>1
    <3>2. IsFiniteSet(I) /\ Cardinality(I) = IF 0 > n - 1 THEN 0 ELSE n - 1 - 0 + 1
      BY <3>1, FS_Interval
    <3> HIDE DEF I
    <3> QED BY <1>1, <3>2
  <2> HIDE DEF I
  <2>3. Cardinality(S) = Cardinality(I) <=> rank \in Surjection(S, I)
    BY <2>1, <2>2, FS_Injection
  <2>4. rank \in Surjection(S, I)
    BY <2>2, <2>3
  <2> QED BY <2>4 DEF Surjection, I
<1>4. ASSUME NEW i \in 1..n PROVE s[i] \in S /\ rank[s[i]] = i - 1
  <2>1. \E x \in S : Cardinality(Below(S, R, x)) = i - 1
    BY <1>0, <1>1, <1>3
  <2>2. s[i] \in S /\ Cardinality(Below(S, R, s[i])) = i - 1
    BY <1>2, <2>1
  <2> QED BY <1>0, <2>2
<1>5. s \in [1..n -> S]
  BY <1>2, <1>4
<1>6. s \in Seq(S) /\ Len(s) = n /\ DOMAIN s = 1..n
  BY <1>1, <1>5
<1>7. \A i, j \in 1..n : s[i] = s[j] => i = j
  <2>1. ASSUME NEW i \in 1..n, NEW j \in 1..n, s[i] = s[j] PROVE i = j
    <3>1. rank[s[i]] = i - 1 /\ rank[s[j]] = j - 1
      BY <1>4
    <3> QED BY <2>1, <3>1
  <2> QED BY <2>1
<1>8. ASSUME NEW x \in S PROVE \E i \in 1..n : s[i] = x
  <2>1. rank[x] \in 0..(n - 1)
    BY <1>1
  <2>2. rank[x] + 1 \in 1..n /\ (rank[x] + 1) - 1 = rank[x]
    BY <1>1, <2>1
  <2>3. s[rank[x] + 1] \in S /\ rank[s[rank[x] + 1]] = rank[x]
    BY <1>4, <2>2
  <2>4. s[rank[x] + 1] = x
    BY <1>1, <2>3
  <2> QED BY <2>2, <2>4
<1>9. ToSet(s) = S
  BY <1>4, <1>6, <1>8 DEF ToSet
<1>10. Once(s)
  BY <1>6, <1>7 DEF Once
<1> QED BY <1>6, <1>9, <1>10 DEF Lists, s

-----------------------------------------------------------------------------
(* Lists of tiles *)

Tile == [id : Nat, n : Int]

\* A list that has no tile twice.
Distinct(t) == \A i, j \in 1..Len(t) : t[i].id = t[j].id => i = j

TileList(t) == t \in Seq(Tile) /\ Distinct(t)

\* The tiles of a list, by their ids.
LEMMA TileListIs ==
  ASSUME NEW t, TileList(t)
  PROVE  /\ Len(t) \in Nat /\ DOMAIN t = 1..Len(t) /\ ToSet(t) \subseteq Tile /\ Ids(t) \subseteq Nat
         /\ Ids(t) = {x.id : x \in ToSet(t)}
         /\ \A i \in 1..Len(t) : t[i] \in ToSet(t) /\ t[i] \in Tile
         /\ \A x, y \in ToSet(t) : x.id = y.id => x = y
<1>1. Len(t) \in Nat /\ DOMAIN t = 1..Len(t) /\ \A i \in 1..Len(t) : t[i] \in Tile
  BY DEF TileList
<1>2. \A i \in 1..Len(t) : t[i] \in ToSet(t)
  BY <1>1 DEF ToSet
<1>3. ToSet(t) \subseteq Tile
  BY <1>1 DEF ToSet
<1>4. Ids(t) = {x.id : x \in ToSet(t)}
  BY <1>1 DEF Ids, ToSet
<1>5. Ids(t) \subseteq Nat
  BY <1>3, <1>4 DEF Tile
<1>6. \A x, y \in ToSet(t) : x.id = y.id => x = y
  <2>1. ASSUME NEW x \in ToSet(t), NEW y \in ToSet(t), x.id = y.id PROVE x = y
    <3>1. PICK i \in 1..Len(t) : x = t[i]
      BY <1>1 DEF ToSet
    <3>2. PICK j \in 1..Len(t) : y = t[j]
      BY <1>1 DEF ToSet
    <3> QED BY <2>1, <3>1, <3>2 DEF TileList, Distinct
  <2> QED BY <2>1
<1> QED BY <1>1, <1>2, <1>3, <1>4, <1>5, <1>6

\* It has as many tiles as ids.
LEMMA TileListLen ==
  ASSUME NEW t, TileList(t)
  PROVE  IsFiniteSet(Ids(t)) /\ Cardinality(Ids(t)) = Len(t)
<1> DEFINE n == Len(t)
           f == [i \in 1..n |-> t[i].id]
           I == 1..n
<1>1. n \in Nat /\ DOMAIN t = 1..n
  BY TileListIs
<1>2. Ids(t) = {f[i] : i \in 1..n}
  BY <1>1 DEF Ids
<1>3. \A i, j \in 1..n : f[i] = f[j] => i = j
  BY DEF TileList, Distinct
<1>4. IsFiniteSet(I) /\ Cardinality(I) = n
  <2>1. 1 \in Int /\ n \in Int
    BY <1>1
  <2>2. IsFiniteSet(I) /\ Cardinality(I) = IF 1 > n THEN 0 ELSE n - 1 + 1
    BY <2>1, FS_Interval
  <2> HIDE DEF I
  <2> QED BY <1>1, <2>2
<1>5. f \in [I -> Ids(t)]
  BY <1>2
<1> HIDE DEF f
<1>6. f \in Bijection(I, Ids(t))
  BY <1>2, <1>3, <1>5 DEF Bijection, Injection, Surjection, IsInjective
<1>7. ExistsBijection(I, Ids(t))
  BY <1>6 DEF ExistsBijection
<1> HIDE DEF I
<1>8. IsFiniteSet(Ids(t)) /\ Cardinality(Ids(t)) = Cardinality(I)
  BY <1>4, <1>7, FS_Bijection
<1> QED BY <1>4, <1>8

\* A selection of a list.
LEMMA SiftTiles ==
  ASSUME NEW t, TileList(t), NEW keep
  PROVE  /\ TileList(Sift(t, keep)) /\ ToSet(Sift(t, keep)) = ToSet(t) \cap keep
<1> DEFINE r == Sift(t, keep)
<1>1. t \in Seq(Tile) /\ DOMAIN t = 1..Len(t)
  BY TileListIs DEF TileList
<1>2. r \in Seq(Tile \cap keep)
  BY <1>1, SiftIn
<1>3. r \in Seq(Tile) /\ DOMAIN r = 1..Len(r)
  BY <1>2
<1>4. /\ {r[j] : j \in DOMAIN r} = {t[j] : j \in DOMAIN t} \cap keep
      /\ (\A j, k \in DOMAIN t : t[j] = t[k] => j = k)
             => (\A j, k \in DOMAIN r : r[j] = r[k] => j = k)
  BY <1>1, SiftElements
<1> HIDE DEF r
<1>5. ToSet(r) = ToSet(t) \cap keep
  BY <1>4 DEF ToSet
<1>6. \A j, k \in DOMAIN t : t[j] = t[k] => j = k
  BY <1>1 DEF TileList, Distinct
<1>7. \A j, k \in DOMAIN r : r[j] = r[k] => j = k
  BY <1>4, <1>6
<1>8. ASSUME NEW i \in 1..Len(r), NEW j \in 1..Len(r), r[i].id = r[j].id PROVE i = j
  <2>1. r[i] \in ToSet(t) /\ r[j] \in ToSet(t)
    BY <1>3, <1>5 DEF ToSet
  <2>2. r[i] = r[j]
    BY <1>8, <2>1, TileListIs
  <2> QED BY <1>3, <1>7, <2>2
<1>9. TileList(r)
  BY <1>3, <1>8 DEF TileList, Distinct
<1> QED BY <1>5, <1>9 DEF r

\* Two lists one after the other.
LEMMA JoinTiles ==
  ASSUME NEW t, TileList(t), NEW u, TileList(u), Ids(t) \cap Ids(u) = {}
  PROVE  /\ TileList(t \o u) /\ ToSet(t \o u) = ToSet(t) \cup ToSet(u)
         /\ Ids(t \o u) = Ids(t) \cup Ids(u)
<1> DEFINE r == t \o u
           m == Len(t)
           n == Len(u)
<1>1. /\ t \in Seq(Tile) /\ u \in Seq(Tile) /\ m \in Nat /\ n \in Nat
      /\ DOMAIN t = 1..m /\ DOMAIN u = 1..n
  BY TileListIs DEF TileList
<1>2. /\ r \in Seq(Tile) /\ Len(r) = m + n /\ DOMAIN r = 1..(m + n)
      /\ \A i \in 1..m : r[i] = t[i]
      /\ \A i \in (m + 1)..(m + n) : r[i] = u[i - m]
  BY <1>1
<1>3. ToSet(r) = ToSet(t) \cup ToSet(u)
  BY <1>1, ConcatSet
<1> HIDE DEF r, m, n
<1>4. ASSUME NEW i \in 1..(m + n), NEW j \in 1..(m + n), r[i].id = r[j].id PROVE i = j
  <2>1. CASE i <= m /\ j <= m
    <3>1. i \in 1..m /\ j \in 1..m /\ t[i].id = t[j].id
      BY <1>1, <1>2, <1>4, <2>1
    <3> QED BY <3>1 DEF TileList, Distinct, m
  <2>2. CASE i > m /\ j > m
    <3>1. i \in (m + 1)..(m + n) /\ j \in (m + 1)..(m + n) /\ i - m \in 1..n /\ j - m \in 1..n
      BY <1>1, <2>2
    <3>2. u[i - m].id = u[j - m].id
      BY <1>2, <1>4, <3>1
    <3>3. i - m = j - m
      BY <3>1, <3>2 DEF TileList, Distinct, n
    <3> QED BY <1>1, <3>3
  <2>3. ASSUME NEW k \in 1..m, NEW l \in (m + 1)..(m + n), r[k].id = r[l].id PROVE FALSE
    <3>1. l - m \in 1..n
      BY <1>1
    <3>2. r[k].id \in Ids(t) /\ r[l].id \in Ids(u)
      BY <1>1, <1>2, <3>1 DEF Ids
    <3> QED BY <2>3, <3>2
  <2>4. CASE i <= m /\ j > m
    <3>1. i \in 1..m /\ j \in (m + 1)..(m + n)
      BY <1>1, <2>4
    <3> QED BY <1>4, <2>3, <3>1
  <2>5. CASE i > m /\ j <= m
    <3>1. j \in 1..m /\ i \in (m + 1)..(m + n) /\ r[j].id = r[i].id
      BY <1>1, <1>4, <2>5
    <3> QED BY <2>3, <3>1
  <2> QED BY <1>1, <2>1, <2>2, <2>4, <2>5
<1>5. TileList(r)
  BY <1>2, <1>4 DEF TileList, Distinct
<1>6. Ids(r) = Ids(t) \cup Ids(u)
  <2>1. Ids(r) = {x.id : x \in ToSet(r)} /\ Ids(t) = {x.id : x \in ToSet(t)}
        /\ Ids(u) = {x.id : x \in ToSet(u)}
    BY <1>5, TileListIs
  <2> QED BY <1>3, <2>1
<1> QED BY <1>3, <1>5, <1>6 DEF r

\* A list with other counts.
LEMMA RetileIs ==
  ASSUME NEW t, TileList(t), NEW u, DOMAIN u = DOMAIN t, u = [i \in DOMAIN t |-> u[i]],
         \A i \in DOMAIN t : u[i] \in Tile /\ u[i].id = t[i].id
  PROVE  TileList(u) /\ Ids(u) = Ids(t)
<1>1. DOMAIN t = 1..Len(t) /\ Len(t) \in Nat
  BY TileListIs
<1>2. u \in Seq(Tile) /\ Len(u) = Len(t)
  BY <1>1
<1>3. \A i, j \in 1..Len(u) : u[i].id = u[j].id => i = j
  BY <1>1, <1>2 DEF TileList, Distinct
<1>4. Ids(u) = Ids(t)
  BY DEF Ids
<1> QED BY <1>2, <1>3, <1>4 DEF TileList, Distinct

\* A finite set as a list.
LEMMA SetToSeqIs ==
  ASSUME NEW S, IsFiniteSet(S)
  PROVE  Lists(SetToSeq(S), S)
<1> DEFINE n == Cardinality(S)
           I == 1..n
           s == SetToSeq(S)
<1>1. n \in Nat /\ ExistsBijection(I, S)
  BY FS_CardinalityType
<1>2. PICK f : f \in Bijection(I, S)
  BY <1>1 DEF ExistsBijection
<1>3. f \in [I -> S] /\ IsInjective(f)
  BY <1>2 DEF Bijection, Injection
<1>4. s \in [I -> S] /\ IsInjective(s)
  BY <1>3 DEF SetToSeq
<1> HIDE DEF s
<1>5. IsFiniteSet(I) /\ Cardinality(I) = n
  <2>1. 1 \in Int /\ n \in Int
    BY <1>1
  <2>2. IsFiniteSet(I) /\ Cardinality(I) = IF 1 > n THEN 0 ELSE n - 1 + 1
    BY <2>1, FS_Interval
  <2> HIDE DEF I
  <2> QED BY <1>1, <2>2
<1>6. s \in Injection(I, S)
  BY <1>4 DEF Injection
<1>7. Cardinality(I) = Cardinality(S) <=> s \in Surjection(I, S)
  BY <1>6, FS_Injection
<1>8. s \in Surjection(I, S)
  BY <1>5, <1>7
<1>9. s \in Seq(S) /\ Len(s) = n /\ DOMAIN s = I
  BY <1>1, <1>4
<1>10. ToSet(s) = S
  BY <1>8, <1>9 DEF ToSet, Surjection
<1>11. Once(s)
  BY <1>4, <1>9 DEF Once, IsInjective
<1> QED BY <1>9, <1>10, <1>11 DEF Lists, s

\* A set of tiles with different ids, as a list.
LEMMA SetTileList ==
  ASSUME NEW S, IsFiniteSet(S), S \subseteq Tile, \A x, y \in S : x.id = y.id => x = y
  PROVE  TileList(SetToSeq(S)) /\ ToSet(SetToSeq(S)) = S
<1> DEFINE s == SetToSeq(S)
<1>1. Lists(s, S)
  BY SetToSeqIs DEF Lists
<1> HIDE DEF s
<1>2. s \in Seq(S) /\ ToSet(s) = S /\ Once(s)
  BY <1>1 DEF Lists
<1>3. s \in Seq(Tile) /\ \A i \in 1..Len(s) : s[i] \in S
  BY <1>2
<1>4. \A i, j \in 1..Len(s) : s[i].id = s[j].id => i = j
  BY <1>2, <1>3 DEF Once
<1>5. TileList(s)
  BY <1>3, <1>4 DEF TileList, Distinct
<1> QED BY <1>2, <1>5 DEF s

-----------------------------------------------------------------------------
(* The listings *)

LEMMA MembersIs ==
  ASSUME NEW f, Delegates(f), NEW snap
  PROVE  /\ Members(f, snap) = {c \in Creds : snap.deleg[c] = f.id}
         /\ Members(f, snap) \subseteq Creds /\ IsFiniteSet(Members(f, snap))
<1>1. f.kind # "stake" /\ f.kind # "address"
  BY DEF Delegates
<1>2. Members(f, snap) = {c \in Creds : snap.deleg[c] = f.id}
  BY <1>1 DEF Members
<1>3. Members(f, snap) \in SUBSET Creds
  BY <1>2
<1>4. IsFiniteSet(Members(f, snap))
  BY <1>3, FilterAssumption, FS_Subset
<1> QED BY <1>2, <1>3, <1>4

\* Less is an order of credentials, and so is the other way round.
LEMMA LessOrders ==
  ASSUME NEW snap \in Snapshot, NEW S \in SUBSET Creds, NEW desc \in BOOLEAN
  PROVE  Orders({p \in S \X S : IF desc THEN Less(snap, p[2], p[1]) ELSE Less(snap, p[1], p[2])}, S)
<1> DEFINE R == {p \in S \X S : IF desc THEN Less(snap, p[2], p[1]) ELSE Less(snap, p[1], p[2])}
<1>1. ASSUME NEW c \in S PROVE Live(snap, c) \in Nat /\ snap.since[c] \in Nat /\ c \in Nat
  <2>1. c \in Creds
    OBVIOUS
  <2>2. Live(snap, c) \in Nat
    BY <2>1, LiveNat
  <2>3. snap.since[c] \in Nat
    BY <2>1 DEF Snapshot
  <2> QED BY <2>1, <2>2, <2>3, FilterAssumption
<1>2. \A c \in S : ~Less(snap, c, c)
  BY <1>1 DEF Less
<1>3. \A c, d \in S : c # d => Less(snap, c, d) \/ Less(snap, d, c)
  BY <1>1 DEF Less
<1>4. ASSUME NEW b \in S, NEW c \in S, NEW d \in S, Less(snap, b, c), Less(snap, c, d)
      PROVE  Less(snap, b, d)
  <2>1. /\ Live(snap, b) \in Nat /\ Live(snap, c) \in Nat /\ Live(snap, d) \in Nat
        /\ snap.since[b] \in Nat /\ snap.since[c] \in Nat /\ snap.since[d] \in Nat
        /\ b \in Nat /\ c \in Nat /\ d \in Nat
    BY <1>1
  <2> QED BY <1>4, <2>1 DEF Less
<1>5. \A c, d \in S : <<c, d>> \in R <=> IF desc THEN Less(snap, d, c) ELSE Less(snap, c, d)
  OBVIOUS
<1> HIDE DEF R
<1>6. \A c \in S : <<c, c>> \notin R
  BY <1>2, <1>5
<1>7. \A c, d \in S : c # d => <<c, d>> \in R \/ <<d, c>> \in R
  BY <1>3, <1>5
<1>8. \A b, c, d \in S : <<b, c>> \in R /\ <<c, d>> \in R => <<b, d>> \in R
  BY <1>4, <1>5
<1>9. Orders(R, S)
  BY <1>6, <1>7, <1>8 DEF Orders
<1> QED BY <1>9 DEF R

\* The tiles of a sorted set.
LEMMA SortedTiles ==
  ASSUME NEW S, NEW s, Lists(s, S), NEW tile, \A x \in S : tile[x] \in Tile /\ tile[x].id = x,
         NEW t, t = [i \in DOMAIN s |-> tile[s[i]]]
  PROVE  TileList(t) /\ ToSet(t) = {tile[x] : x \in S} /\ Ids(t) = S
<1>1. s \in Seq(S) /\ ToSet(s) = S /\ Once(s)
  BY DEF Lists
<1>2. Len(s) \in Nat /\ DOMAIN s = 1..Len(s) /\ \A i \in 1..Len(s) : s[i] \in S
  BY <1>1
<1>3. t \in Seq(Tile) /\ Len(t) = Len(s) /\ DOMAIN t = 1..Len(s)
  BY <1>2
<1>4. \A i \in 1..Len(s) : t[i] = tile[s[i]] /\ t[i].id = s[i]
  BY <1>2
<1>5. \A i, j \in 1..Len(s) : t[i].id = t[j].id => i = j
  BY <1>1, <1>4 DEF Once
<1>6. TileList(t)
  BY <1>3, <1>5 DEF TileList, Distinct
<1>7. S = {s[i] : i \in 1..Len(s)}
  BY <1>1, <1>2 DEF ToSet
<1>8. ToSet(t) = {tile[x] : x \in S}
  BY <1>3, <1>4, <1>7 DEF ToSet
<1>9. Ids(t) = S
  BY <1>3, <1>4, <1>7 DEF Ids
<1> QED BY <1>6, <1>8, <1>9

\* A list has each tile of a set once.
TilesOf(t, set, ids) == TileList(t) /\ ToSet(t) = set /\ Ids(t) = ids

LEMMA RowsIs ==
  ASSUME NEW f, Delegates(f), NEW snap \in Snapshot, NEW desc \in BOOLEAN
  PROVE  TilesOf(Rows(f, snap, desc), SetTiles(snap, Members(f, snap)), Members(f, snap))
<1> DEFINE S == Members(f, snap)
           R == {p \in S \X S : IF desc THEN Less(snap, p[2], p[1]) ELSE Less(snap, p[1], p[2])}
           s == Sorted(S, R)
           tile == [c \in S |-> DelegatorTile(snap, c)]
           t == [i \in DOMAIN s |-> tile[s[i]]]
<1>1. S \in SUBSET Creds /\ IsFiniteSet(S)
  BY MembersIs
<1>2. Orders(R, S)
  BY <1>1, LessOrders
<1>3. Lists(s, S)
  BY <1>1, <1>2, SortedIs
<1>4. Rows(f, snap, desc) = [i \in DOMAIN s |-> DelegatorTile(snap, s[i])]
  BY DEF Rows
<1>5. \A c \in S : tile[c] \in Tile /\ tile[c].id = c
  <2>1. ASSUME NEW c \in S PROVE DelegatorTile(snap, c) \in Tile /\ DelegatorTile(snap, c).id = c
    <3>1. c \in Creds /\ c \in Nat
      BY <1>1, FilterAssumption
    <3>2. Live(snap, c) \in Nat
      BY <3>1, LiveNat
    <3> QED BY <3>1, <3>2 DEF DelegatorTile, Tile
  <2> QED BY <2>1
<1> HIDE DEF S, s
<1>6. \A i \in DOMAIN s : s[i] \in S
  BY <1>3 DEF Lists
<1>7. Rows(f, snap, desc) = t
  BY <1>4, <1>6
<1>8. SetTiles(snap, S) = {tile[c] : c \in S}
  BY DEF SetTiles
<1> HIDE DEF tile
<1>9. TileList(t) /\ ToSet(t) = {tile[c] : c \in S} /\ Ids(t) = S
  BY <1>3, <1>5, SortedTiles
<1> QED BY <1>7, <1>8, <1>9 DEF TilesOf, S

Tokens == Nat \X Nat

\* Finitely many tokens are of finitely many policies.
LEMMA TokensIs ==
  ASSUME NEW tokens \in SUBSET Tokens, IsFiniteSet(tokens)
  PROVE  /\ Policies(tokens) \subseteq Nat /\ IsFiniteSet(Policies(tokens))
         /\ \A p : IsFiniteSet({t \in tokens : t[1] = p}) /\ CountOf(p, tokens) \in Nat
<1> DEFINE P == Policies(tokens)
           f == [t \in tokens |-> t[1]]
<1>1. P \subseteq Nat
  BY DEF Policies, Tokens
<1>2. f \in Surjection(tokens, P)
  BY DEF Surjection, Policies
<1> HIDE DEF f, P
<1>3. IsFiniteSet(P)
  BY <1>2, FS_Surjection
<1>4. ASSUME NEW p PROVE IsFiniteSet({t \in tokens : t[1] = p}) /\ CountOf(p, tokens) \in Nat
  <2>1. {t \in tokens : t[1] = p} \in SUBSET tokens
    OBVIOUS
  <2>2. IsFiniteSet({t \in tokens : t[1] = p})
    BY <2>1, FS_Subset
  <2> QED BY <2>2, FS_CardinalityType DEF CountOf
<1> QED BY <1>1, <1>3, <1>4 DEF P

LEMMA HeldIs ==
  ASSUME NEW f, NEW snap, snap.holds \in Holdings
  PROVE  Held(f, snap) \in SUBSET Tokens /\ IsFiniteSet(Held(f, snap))
<1> DEFINE K == {k \in snap.holds : IF f.kind = "address" THEN k[1] = f.id
                                     ELSE CredOf[k[1]] = f.id}
           g == [h \in K |-> h[2]]
           T == Held(f, snap)
<1>1. K \in SUBSET snap.holds /\ IsFiniteSet(snap.holds) /\ snap.holds \subseteq Addr \X Tokens
  BY DEF Holdings, Tokens
<1>2. IsFiniteSet(K)
  BY <1>1, FS_Subset
<1>3. T = {h[2] : h \in K}
  BY DEF Held
<1> HIDE DEF K, T
<1>4. T \in SUBSET Tokens
  BY <1>1, <1>3
<1>5. g \in Surjection(K, T)
  BY <1>3 DEF Surjection
<1> HIDE DEF g
<1>6. IsFiniteSet(T)
  BY <1>2, <1>5, FS_Surjection
<1> QED BY <1>4, <1>6 DEF T

GroupTiles(tokens) == {GroupTile(tokens, p) : p \in Policies(tokens)}

LEMMA GroupsIs ==
  ASSUME NEW f, NEW snap, snap.holds \in Holdings, NEW desc \in BOOLEAN
  PROVE  TilesOf(Groups(f, snap, desc), GroupTiles(Held(f, snap)), Policies(Held(f, snap)))
<1> DEFINE T == Held(f, snap)
           S == Policies(T)
           R == {p \in S \X S : IF desc THEN p[1] > p[2] ELSE p[1] < p[2]}
           s == Sorted(S, R)
           tile == [c \in S |-> GroupTile(T, c)]
           t == [i \in DOMAIN s |-> tile[s[i]]]
<1>1. T \in SUBSET Tokens /\ IsFiniteSet(T)
  BY HeldIs
<1>2. Groups(f, snap, desc) = [i \in DOMAIN s |-> GroupTile(T, s[i])]
  BY DEF Groups
<1> HIDE DEF T
<1>3. S \subseteq Nat /\ IsFiniteSet(S) /\ \A p : CountOf(p, T) \in Nat
  BY <1>1, TokensIs
<1>10. GroupTiles(T) = {tile[c] : c \in S}
  BY DEF GroupTiles
<1>5. \A c \in S : tile[c] \in Tile /\ tile[c].id = c
  BY <1>3 DEF GroupTile, Tile
<1> HIDE DEF S
<1>4. Orders(R, S)
  BY <1>3 DEF Orders
<1> HIDE DEF R
<1>6. Lists(s, S)
  BY <1>3, <1>4, SortedIs
<1> HIDE DEF s
<1>7. \A i \in DOMAIN s : s[i] \in S
  BY <1>6 DEF Lists
<1>8. Groups(f, snap, desc) = t
  BY <1>2, <1>7
<1> HIDE DEF tile
<1>9. TileList(t) /\ ToSet(t) = {tile[c] : c \in S} /\ Ids(t) = S
  BY <1>5, <1>6, SortedTiles
<1> QED BY <1>8, <1>9, <1>10 DEF TilesOf, S, T

-----------------------------------------------------------------------------
(* A page of a list, and what a page adds *)

\* The ids of the first tiles of a list.
First(all, k) == {all[i].id : i \in {j \in 1..Len(all) : j <= k}}

LEMMA PageEnd ==
  ASSUME NEW n \in Nat, NEW at \in Nat, NEW last, last = Max({at, Min({at + PageSize, n})})
  PROVE  last \in Nat /\ last >= at /\ (at < last => last <= n)
<1> DEFINE m == Min({at + PageSize, n})
<1>1. m \in Nat /\ m <= n
  <2>1. {at + PageSize, n} \subseteq Nat /\ {at + PageSize, n} # {}
    BY GridAssumption
  <2>2. m \in {at + PageSize, n} /\ \A y \in {at + PageSize, n} : m <= y
    BY <2>1, MinIndex
  <2> HIDE DEF m
  <2> QED BY <2>1, <2>2
<1>2. last = Max({at, m})
  OBVIOUS
<1> HIDE DEF m
<1>3. {at, m} \subseteq 0..(at + m) /\ {at, m} # {} /\ at + m \in Nat
  BY <1>1
<1>4. Max({at, m}) \in {at, m} /\ \A y \in {at, m} : Max({at, m}) >= y
  BY <1>3, MaxIndex
<1>5. (last = at \/ last = m) /\ last >= at
  BY <1>2, <1>4
<1> QED BY <1>1, <1>5

\* u is a list's tiles after the first at, up to last.
IsPage(u, all, at, last) ==
  /\ TileList(u) /\ ToSet(u) \subseteq ToSet(all)
  /\ First(all, last) = First(all, at) \cup Ids(u)

\* A slice of a list.
LEMMA SliceIs ==
  ASSUME NEW all, TileList(all), NEW at \in Nat, NEW last \in Nat, at < last, last <= Len(all)
  PROVE  IsPage(SubSeq(all, at + 1, last), all, at, last)
<1> DEFINE n == Len(all)
           k == last - at
           u == SubSeq(all, at + 1, last)
<1>1. all \in Seq(Tile)
  BY DEF TileList
<1>2. n \in Nat /\ DOMAIN all = 1..n
  BY <1>1
<1>3. k \in Nat /\ at + k = last /\ last \in 1..n /\ at + 1 \in 1..n
  BY <1>2
<1>4. u \in Seq(Tile)
  BY <1>1, <1>2, <1>3
<1>5. Len(u) = k /\ \A i \in 1..k : u[i] = all[at + i]
  BY <1>1, <1>2, <1>3
<1>6. DOMAIN u = 1..k
  BY <1>4, <1>5, LenNat
<1>7. \A i \in 1..k : at + i \in 1..n /\ at + i \in (at + 1)..last
  BY <1>2, <1>3
<1>8. \A j \in (at + 1)..last : j - at \in 1..k /\ at + (j - at) = j
  BY <1>3
<1>9. \A i, j \in 1..n : all[i].id = all[j].id => i = j
  BY DEF TileList, Distinct
<1>10. {j \in 1..n : j <= last} = {j \in 1..n : j <= at} \cup ((at + 1)..last)
  BY <1>2, <1>3
<1> HIDE DEF u, k, n
<1>11. \A i, j \in 1..k : u[i].id = u[j].id => i = j
  <2>1. ASSUME NEW i \in 1..k, NEW j \in 1..k, u[i].id = u[j].id PROVE i = j
    <3>1. all[at + i].id = all[at + j].id
      BY <1>5, <2>1
    <3>2. at + i = at + j
      BY <1>7, <1>9, <3>1
    <3> QED BY <1>3, <3>2
  <2> QED BY <2>1
<1>12. TileList(u)
  BY <1>4, <1>5, <1>11 DEF TileList, Distinct
<1>13. ToSet(u) \subseteq ToSet(all)
  BY <1>2, <1>5, <1>6, <1>7 DEF ToSet
<1> DEFINE g == [j \in (at + 1)..last |-> all[j].id]
<1>16. \A i \in 1..k : u[i].id = g[at + i]
  BY <1>5, <1>7
<1>17. {all[j].id : j \in (at + 1)..last} = {g[j] : j \in (at + 1)..last}
  OBVIOUS
<1> HIDE DEF g
<1>14. Ids(u) = {all[j].id : j \in (at + 1)..last}
  <2>1. Ids(u) = {g[at + i] : i \in 1..k}
    BY <1>6, <1>16 DEF Ids
  <2>2. {g[at + i] : i \in 1..k} \subseteq {g[j] : j \in (at + 1)..last}
    BY <1>7
  <2>3. ASSUME NEW j \in (at + 1)..last PROVE \E i \in 1..k : g[j] = g[at + i]
    <3>1. PICK i \in 1..k : at + i = j
      BY <1>8
    <3> QED BY <3>1
  <2> QED BY <1>17, <2>1, <2>2, <2>3
<1>15. First(all, last) = First(all, at) \cup Ids(u)
  BY <1>10, <1>14 DEF First, n
<1> QED BY <1>12, <1>13, <1>15 DEF u, IsPage

LEMMA PageIs ==
  ASSUME NEW all, TileList(all), NEW at \in Nat, NEW last,
         last = Max({at, Min({at + PageSize, Len(all)})})
  PROVE  /\ last \in Nat /\ last >= at
         /\ IsPage(SubSeq(all, at + 1, last), all, at, last)
         /\ last >= Len(all) => First(all, last) = Ids(all)
<1> DEFINE n == Len(all)
           u == SubSeq(all, at + 1, last)
<1>1. n \in Nat /\ DOMAIN all = 1..n
  BY TileListIs
<1>2. last = Max({at, Min({at + PageSize, n})})
  OBVIOUS
<1> HIDE DEF n
<1>3. last \in Nat /\ last >= at /\ (at < last => last <= n)
  BY <1>1, <1>2, PageEnd
<1>4. ASSUME last >= n PROVE First(all, last) = Ids(all)
  <2>1. {j \in 1..n : j <= last} = 1..n
    BY <1>1, <1>3, <1>4
  <2> QED BY <1>1, <2>1 DEF First, Ids, n
<1>5. IsPage(u, all, at, last)
  <2>1. CASE last = at
    <3>1. u = <<>>
      BY <2>1
    <3>2. TileList(<<>>) /\ ToSet(<<>>) = {} /\ Ids(<<>>) = {}
      BY DEF TileList, Distinct, ToSet, Ids
    <3> QED BY <2>1, <3>1, <3>2 DEF IsPage
  <2>2. CASE at < last
    <3>1. last <= Len(all)
      BY <1>3, <2>2 DEF n
    <3> QED BY <1>3, <2>2, <3>1, SliceIs
  <2> QED BY <1>3, <2>1, <2>2
<1>6. last >= Len(all) => First(all, last) = Ids(all)
  BY <1>4 DEF n
<1> QED BY <1>3, <1>5, <1>6

LEMMA FreshIs ==
  ASSUME TileList(tiles), NEW page1, TileList(page1)
  PROVE  /\ TileList(AppendFresh(page1))
         /\ ToSet(AppendFresh(page1)) \subseteq ToSet(tiles) \cup ToSet(page1)
         /\ Ids(AppendFresh(page1)) = Ids(tiles) \cup Ids(page1)
<1> DEFINE keep == {t \in ToSet(page1) : t.id \notin Ids(tiles)}
           u == Sift(page1, keep)
<1>1. TileList(u) /\ ToSet(u) = ToSet(page1) \cap keep
  BY SiftTiles
<1>2. AppendFresh(page1) = tiles \o u
  BY DEF AppendFresh
<1> HIDE DEF u
<1>3. /\ Ids(u) = {x.id : x \in ToSet(u)} /\ Ids(tiles) = {x.id : x \in ToSet(tiles)}
      /\ Ids(page1) = {x.id : x \in ToSet(page1)}
  BY <1>1, TileListIs
<1>4. Ids(tiles) \cap Ids(u) = {} /\ Ids(tiles) \cup Ids(u) = Ids(tiles) \cup Ids(page1)
  BY <1>1, <1>3
<1>5. TileList(tiles \o u) /\ ToSet(tiles \o u) = ToSet(tiles) \cup ToSet(u)
      /\ Ids(tiles \o u) = Ids(tiles) \cup Ids(u)
  BY <1>1, <1>4, JoinTiles
<1> QED BY <1>1, <1>2, <1>4, <1>5

-----------------------------------------------------------------------------
(* What the variables hold *)

\* A value, if any.
Opt(S) == {<<>>} \cup {<<x>> : x \in S}

LEMMA OptIs ==
  ASSUME NEW S
  PROVE  /\ <<>> \in Opt(S) /\ Len(<<>>) <= 1
         /\ \A x \in S : <<x>> \in Opt(S) /\ Head(<<x>>) = x /\ <<x>> # <<>>
         /\ \A o \in Opt(S) : Len(o) <= 1 /\ (o # <<>> => Head(o) \in S /\ o = <<Head(o)>>)
BY DEF Opt

Certificate ==
  [cred : Creds, from : Targets \cup {NoTarget}, to : Targets \cup {NoTarget}, stake : Nat]

ResolvedTx ==
  [ins : Seq(Addr \X Nat), outs : Seq(Addr \X Nat), wds : Seq(Creds \X Nat),
   certs : Seq(Certificate), votes : SUBSET Targets]

ResolvedBlk ==
  [txs : Seq(ResolvedTx), epoch : Nat, issuer : Targets, gained : Holdings, lost : Holdings]

Event == [n : Nat, block : Opt(ResolvedBlk), was : Nat]

LEMMA ResolvedIs ==
  ASSUME NEW tx \in Transaction, NEW snap \in Snapshot
  PROVE  /\ Resolved(tx, snap) \in ResolvedTx
         /\ Resolved(tx, snap).ins = tx.ins /\ Resolved(tx, snap).outs = tx.outs
         /\ Resolved(tx, snap).wds = tx.wds
         /\ {d.cred : d \in ToSet(Resolved(tx, snap).certs)} = {d[1] : d \in ToSet(tx.certs)}
<1> DEFINE r == Resolved(tx, snap)
           cert(i) == [cred |-> tx.certs[i][1], from |-> snap.deleg[tx.certs[i][1]],
                       to |-> tx.certs[i][2], stake |-> Live(snap, tx.certs[i][1])]
           s == [i \in DOMAIN tx.certs |-> cert(i)]
<1>1. tx.certs \in Seq(Creds \X (Targets \cup {NoTarget}))
  BY DEF Transaction
<1>2. DOMAIN tx.certs = 1..Len(tx.certs) /\ Len(tx.certs) \in Nat
  BY <1>1, LenNat
<1>3. ASSUME NEW i \in DOMAIN tx.certs PROVE cert(i) \in Certificate
  <2>1. tx.certs[i] \in Creds \X (Targets \cup {NoTarget})
    BY <1>1, ElementIn
  <2>2. tx.certs[i][1] \in Creds /\ tx.certs[i][2] \in Targets \cup {NoTarget}
    BY <2>1
  <2>3. Live(snap, tx.certs[i][1]) \in Nat
    BY <2>2, LiveNat
  <2>4. snap.deleg[tx.certs[i][1]] \in Targets \cup {NoTarget}
    BY <2>2 DEF Snapshot
  <2> QED BY <2>2, <2>3, <2>4 DEF Certificate
<1>4. r = [tx EXCEPT !.certs = s]
  BY DEF Resolved
<1>5. s \in Seq(Certificate) /\ DOMAIN s = DOMAIN tx.certs /\ \A i \in DOMAIN s : s[i].cred = tx.certs[i][1]
  <2>1. s \in [1..Len(tx.certs) -> Certificate]
    BY <1>2, <1>3
  <2> QED BY <1>2, <2>1
<1> HIDE DEF s, r
<1>6. r \in ResolvedTx /\ r.ins = tx.ins /\ r.outs = tx.outs /\ r.wds = tx.wds /\ r.certs = s
  BY <1>4, <1>5 DEF Transaction, ResolvedTx
<1>7. {d.cred : d \in ToSet(s)} = {d[1] : d \in ToSet(tx.certs)}
  BY <1>5 DEF ToSet
<1> QED BY <1>6, <1>7 DEF r

LEMMA ResolvedBlockIs ==
  ASSUME NEW block \in Block, NEW snap \in Snapshot
  PROVE  /\ ResolvedBlock(block, snap) \in ResolvedBlk
         /\ ToSet(ResolvedBlock(block, snap).txs) = {Resolved(tx, snap) : tx \in ToSet(block.txs)}
<1> DEFINE s == [i \in DOMAIN block.txs |-> Resolved(block.txs[i], snap)]
           r == ResolvedBlock(block, snap)
<1>1. block.txs \in Seq(Transaction) /\ DOMAIN block.txs = 1..Len(block.txs)
      /\ Len(block.txs) \in Nat
  BY LenNat DEF Block
<1>2. \A i \in DOMAIN block.txs : Resolved(block.txs[i], snap) \in ResolvedTx
  BY <1>1, ElementIn, ResolvedIs
<1>3. s \in Seq(ResolvedTx)
  <2>1. s \in [1..Len(block.txs) -> ResolvedTx]
    BY <1>1, <1>2
  <2> QED BY <1>1, <2>1
<1>4. r = [block EXCEPT !.txs = s]
  BY DEF ResolvedBlock
<1>5. ToSet(s) = {Resolved(tx, snap) : tx \in ToSet(block.txs)}
  BY DEF ToSet
<1> HIDE DEF s, r
<1>6. r \in ResolvedBlk /\ r.txs = s
  BY <1>3, <1>4 DEF Block, ResolvedBlk
<1> QED BY <1>5, <1>6 DEF r

TileLists == {t \in Seq(Tile) : Distinct(t)}

Reply == [tiles : TileLists, next : Nat, more : BOOLEAN]

Request == [at : Nat, desc : BOOLEAN, old : BOOLEAN, reply : Opt(Reply)]

\* What the figures of an epoch are kept as.
Figure == {r \in [epoch : Nat, figure : Nat] : r.figure \in {0, r.epoch}}

WorldInv ==
  /\ page \in Views
  /\ chain \in Seq(Snapshot) /\ Len(chain) \in 1..(MaxBlocks + 1)
  /\ queue \in Seq(Event) /\ Len(queue) <= MaxAhead

StreamInv ==
  /\ up \in {"down", "header", "live"} /\ stage \in {"none", "same", "changed"}
  /\ up = "down" => queue = <<>>
  /\ up # "live" => stage = "none"
  /\ up = "header" => prev = <<>>
  /\ prev \in Opt(IF page.view = "delegators" THEN [members : SUBSET Creds, epoch : Nat]
                  ELSE Holdings)
  /\ cache \in Opt(Figure)

\* A request that is not from before a reset asks for what the grid has next;
\* none is under way when there is no more to load.
GridInv ==
  /\ tiles \in TileLists /\ cursor \in Nat /\ more \in BOOLEAN /\ order \in BOOLEAN
  /\ request \in Opt(Request)
  /\ request # <<>> => IsGrid /\ more
  /\ request # <<>> /\ ~Head(request).old => Head(request).at = cursor /\ Head(request).desc = order

TypeInv == WorldInv /\ StreamInv /\ GridInv

LEMMA NowIs ==
  ASSUME WorldInv
  PROVE  /\ Len(chain) \in Nat /\ Len(chain) >= 1 /\ chain[Len(chain)] = Now /\ Now \in Snapshot
         /\ Now.holds \in Holdings /\ Now.epoch \in Nat
<1>1. chain \in Seq(Snapshot) /\ Len(chain) \in 1..(MaxBlocks + 1)
  BY DEF WorldInv
<1>2. Len(chain) \in Nat /\ Len(chain) >= 1 /\ Len(chain) \in DOMAIN chain
  BY <1>1
<1>3. chain[Len(chain)] \in Snapshot
  BY <1>1, <1>2, ElementIn
<1>4. Now = chain[Len(chain)]
  BY DEF Now, Last
<1> QED BY <1>2, <1>3, <1>4 DEF Snapshot

-----------------------------------------------------------------------------
(* Type correctness *)

LEMMA TypeOfWorld ==
  ASSUME TypeInv, [Next]_vars
  PROVE  WorldInv'
<1> USE DEF TypeInv
<1>1. CASE UNCHANGED world
  BY <1>1 DEF WorldInv, world
<1>2. CASE page' = page /\ chain' = chain /\ queue' = <<>>
  <2>1. queue' \in Seq(Event) /\ Len(queue') = 0 /\ MaxAhead \in Nat
    BY <1>2, GridAssumption
  <2> QED BY <1>2, <2>1 DEF WorldInv
<1>3. ASSUME NEW event \in Event, Len(queue) < MaxAhead, Move(event) 
      PROVE  queue' \in Seq(Event) /\ Len(queue') <= MaxAhead
  <2>1. queue \in Seq(Event) /\ MaxAhead \in Nat /\ Len(queue) \in Nat
    BY GridAssumption DEF WorldInv
  <2>2. queue' = queue \/ queue' = Append(queue, event)
    BY <1>3 DEF Move
  <2>3. CASE queue' = queue
    BY <2>1, <2>3 DEF WorldInv
  <2>4. CASE queue' = Append(queue, event)
    <3>1. Append(queue, event) \in Seq(Event) /\ Len(Append(queue, event)) = Len(queue) + 1
      BY <2>1, AppendIs
    <3> QED BY <1>3, <2>1, <2>4, <3>1
  <2> QED BY <2>2, <2>3, <2>4
<1>4. CASE Apply
  <2>1. PICK block \in Blocks[page.view] :
          /\ Valid(Now, block)
          /\ chain' = Append(chain, After(Now, block, Len(chain)))
          /\ Move([n |-> Len(chain) + 1, block |-> <<ResolvedBlock(block, Now)>>, was |-> Now.epoch])
    BY <1>4 DEF Apply
  <2>2. page' = page /\ Len(chain) <= MaxBlocks /\ Len(queue) < MaxAhead
    BY <1>4 DEF Apply
  <2>3. block \in Block
    BY ViewsAssumption DEF WorldInv
  <2>4. Now \in Snapshot /\ Len(chain) \in Nat /\ Now.epoch \in Nat /\ Len(chain) >= 1
    BY NowIs
  <2>5. After(Now, block, Len(chain)) \in Snapshot
    BY <2>1, <2>3, <2>4, AfterTyped
  <2>6. ResolvedBlock(block, Now) \in ResolvedBlk
    BY <2>3, <2>4, ResolvedBlockIs
  <2>7. [n |-> Len(chain) + 1, block |-> <<ResolvedBlock(block, Now)>>, was |-> Now.epoch] \in Event
    <3>1. <<ResolvedBlock(block, Now)>> \in Opt(ResolvedBlk)
      BY <2>6 DEF Opt
    <3> QED BY <2>4, <3>1 DEF Event
  <2>8. queue' \in Seq(Event) /\ Len(queue') <= MaxAhead
    BY <1>3, <2>1, <2>2, <2>7
  <2>9. chain' \in Seq(Snapshot) /\ Len(chain') = Len(chain) + 1
    <3>1. chain \in Seq(Snapshot)
      BY DEF WorldInv
    <3> QED BY <2>1, <2>5, <3>1, AppendIs
  <2>10. Len(chain') \in 1..(MaxBlocks + 1)
    BY <2>2, <2>4, <2>9, GridAssumption
  <2> QED BY <2>2, <2>8, <2>9, <2>10 DEF WorldInv
<1>5. CASE Roll
  <2>1. PICK n \in 1..(Len(chain) - 1) :
          chain' = SubSeq(chain, 1, n) /\ Move([n |-> n, block |-> <<>>, was |-> 0])
    BY <1>5 DEF Roll
  <2>2. page' = page /\ Len(queue) < MaxAhead
    BY <1>5 DEF Roll
  <2>3. chain \in Seq(Snapshot) /\ Len(chain) \in Nat /\ MaxBlocks \in Nat
        /\ Len(chain) <= MaxBlocks + 1
    BY GridAssumption DEF WorldInv
  <2>4. n \in Nat /\ n \in 0..Len(chain)
    BY <2>3
  <2>5. [n |-> n, block |-> <<>>, was |-> 0] \in Event
    BY <2>4 DEF Event, Opt
  <2>6. queue' \in Seq(Event) /\ Len(queue') <= MaxAhead
    BY <1>3, <2>1, <2>2, <2>5
  <2>7. chain' \in Seq(Snapshot) /\ Len(chain') = n
    BY <2>1, <2>3, <2>4, PrefixStep
  <2>8. Len(chain') \in 1..(MaxBlocks + 1)
    BY <2>3, <2>4, <2>7
  <2> QED BY <2>2, <2>6, <2>7, <2>8 DEF WorldInv
<1>6. CASE Handle
  <2>1. queue' = Tail(queue) /\ queue # <<>> /\ page' = page /\ chain' = chain
    BY <1>6 DEF Handle
  <2>2. queue \in Seq(Event) /\ MaxAhead \in Nat /\ Len(queue) \in Nat /\ Len(queue) <= MaxAhead
    BY GridAssumption DEF WorldInv
  <2>3. Tail(queue) \in Seq(Event) /\ Len(Tail(queue)) = Len(queue) - 1
    BY <2>1, <2>2
  <2> QED BY <2>1, <2>2, <2>3 DEF WorldInv
<1> HIDE DEF TypeInv
<1>7. CASE Drop
  BY <1>2, <1>7 DEF Drop
<1>8. CASE Connect \/ Seed \/ Compare \/ Serve \/ Receive \/ Fetch
  BY <1>1, <1>8 DEF Connect, Seed, Compare, Serve, Receive, Fetch
<1>9. CASE Fail \/ CycleSort
  <2>1. page' = page /\ chain' = chain /\ queue' = queue
    BY <1>9 DEF Fail, CycleSort
  <2> QED BY <2>1 DEF TypeInv, WorldInv
<1>10. CASE UNCHANGED vars
  BY <1>1, <1>10 DEF vars
<1> QED BY <1>4, <1>5, <1>6, <1>7, <1>8, <1>9, <1>10 DEF Next

-----------------------------------------------------------------------------
(* Live deltas *)

\* Where a tile that handleLive leaves comes from.
Patched(x, removed, updated, added) ==
  \/ x \in added
  \/ /\ x.id \in Ids(tiles) \ removed
     /\ IF \E u \in updated : u.id = x.id THEN x \in updated ELSE x \in ToSet(tiles)

LEMMA PatchIs ==
  ASSUME TileList(tiles), NEW removed, NEW updated, updated \subseteq Tile,
         NEW added, added \subseteq Tile, IsFiniteSet(added),
         \A x, y \in added : x.id = y.id => x = y
  PROVE  LET p == Patch(removed, updated, added)
         IN  /\ TileList(p)
             /\ Ids(p) = (Ids(tiles) \ removed) \cup {x.id : x \in added}
             /\ \A x \in ToSet(p) : Patched(x, removed, updated, added)
<1> DEFINE keep == {t \in ToSet(tiles) : t.id \notin removed}
           kept == Sift(tiles, keep)
           fresh == {t \in added : t.id \notin Ids(kept)}
           pick(k) == IF \E u \in updated : u.id = k.id
                      THEN CHOOSE u \in updated : u.id = k.id ELSE k
           s == SetToSeq(fresh)
           w == [i \in DOMAIN kept |-> pick(kept[i])]
<1>1. TileList(kept) /\ ToSet(kept) = ToSet(tiles) \cap keep
  BY SiftTiles
<1>2. Patch(removed, updated, added) = s \o w
  BY DEF Patch
<1>3. Ids(tiles) = {x.id : x \in ToSet(tiles)}
  BY TileListIs
<1> HIDE DEF kept
<1>4. /\ Ids(kept) = {x.id : x \in ToSet(kept)} /\ ToSet(kept) \subseteq Tile
      /\ \A i \in DOMAIN kept : kept[i] \in ToSet(kept)
  BY <1>1, TileListIs
<1>5. Ids(kept) = Ids(tiles) \ removed
  BY <1>1, <1>3, <1>4
<1>6. fresh \subseteq Tile /\ \A x, y \in fresh : x.id = y.id => x = y
  OBVIOUS
<1>7. IsFiniteSet(fresh)
  <2>1. fresh \in SUBSET added
    OBVIOUS
  <2> HIDE DEF fresh
  <2> QED BY <2>1, FS_Subset
<1>8. \A x \in fresh : x \in added /\ x.id \notin Ids(kept)
  OBVIOUS
<1>18. {x.id : x \in fresh} \cup Ids(kept) = Ids(kept) \cup {x.id : x \in added}
  OBVIOUS
<1> HIDE DEF fresh
<1>9. TileList(s) /\ ToSet(s) = fresh
  BY <1>6, <1>7, SetTileList
<1>10. \A k \in ToSet(kept) : pick(k) \in Tile /\ pick(k).id = k.id
  BY <1>4
<1>17. \A k \in ToSet(kept) : IF \E u \in updated : u.id = k.id THEN pick(k) \in updated
                              ELSE pick(k) = k
  OBVIOUS
<1> HIDE DEF pick
<1>11. TileList(w) /\ Ids(w) = Ids(kept)
  <2>1. DOMAIN w = DOMAIN kept /\ w = [i \in DOMAIN kept |-> w[i]]
    OBVIOUS
  <2>2. \A i \in DOMAIN kept : w[i] \in Tile /\ w[i].id = kept[i].id
    BY <1>4, <1>10
  <2> HIDE DEF w
  <2> QED BY <1>1, <2>1, <2>2, RetileIs
<1>12. ToSet(w) \subseteq {pick(k) : k \in ToSet(kept)}
  BY <1>4 DEF ToSet
<1> HIDE DEF s, w
<1>13. Ids(s) = {x.id : x \in ToSet(s)}
  BY <1>9, TileListIs
<1>14. Ids(s) \cap Ids(w) = {}
  BY <1>8, <1>9, <1>11, <1>13
<1>15. TileList(s \o w) /\ ToSet(s \o w) = ToSet(s) \cup ToSet(w) /\ Ids(s \o w) = Ids(s) \cup Ids(w)
  BY <1>9, <1>11, <1>14, JoinTiles
<1>16. Ids(s) \cup Ids(w) = (Ids(tiles) \ removed) \cup {x.id : x \in added}
  BY <1>5, <1>9, <1>11, <1>13, <1>18
<1>19. ASSUME NEW x \in ToSet(s) \cup ToSet(w) PROVE Patched(x, removed, updated, added)
  <2>1. CASE x \in ToSet(s)
    BY <1>8, <1>9, <2>1 DEF Patched
  <2>2. CASE x \in ToSet(w)
    <3>1. PICK k \in ToSet(kept) : x = pick(k)
      BY <1>12, <2>2
    <3>2. x.id = k.id /\ k.id \in Ids(tiles) \ removed
      BY <1>4, <1>5, <1>10, <3>1
    <3>3. k \in ToSet(tiles)
      BY <1>1
    <3> QED BY <1>17, <3>1, <3>2, <3>3 DEF Patched
  <2> QED BY <1>19, <2>1, <2>2
<1> QED BY <1>2, <1>15, <1>16, <1>19

\* What a token that is gone leaves of a tile.
Less1(g, token) == IF g.id = token[1] THEN [g EXCEPT !.n = @ - 1] ELSE g

LEMMA LoseIs ==
  ASSUME NEW groups, TileList(groups), NEW token
  PROVE  /\ TileList(LoseToken(groups, token))
         /\ ToSet(LoseToken(groups, token)) =
              {x \in {Less1(g, token) : g \in ToSet(groups)} : x.n > 0}
<1> DEFINE left == [i \in DOMAIN groups |-> Less1(groups[i], token)]
           keep == {g \in ToSet(left) : g.n > 0}
<1>1. LoseToken(groups, token) = Sift(left, keep)
  BY DEF LoseToken, Less1
<1>2. \A i \in DOMAIN groups : groups[i] \in Tile
  BY TileListIs
<1>3. \A g \in Tile : Less1(g, token) \in Tile /\ Less1(g, token).id = g.id
  BY DEF Less1, Tile
<1>4. TileList(left)
  <2>1. DOMAIN left = DOMAIN groups /\ left = [i \in DOMAIN groups |-> left[i]]
    OBVIOUS
  <2>2. \A i \in DOMAIN groups : left[i] \in Tile /\ left[i].id = groups[i].id
    BY <1>2, <1>3
  <2> HIDE DEF left
  <2> QED BY <2>1, <2>2, RetileIs
<1>5. ToSet(left) = {Less1(g, token) : g \in ToSet(groups)}
  BY DEF ToSet
<1> HIDE DEF left
<1>6. TileList(Sift(left, keep)) /\ ToSet(Sift(left, keep)) = ToSet(left) \cap keep
  BY <1>4, SiftTiles
<1> QED BY <1>1, <1>5, <1>6

\* What a token that has come makes of a tile.
More1(g, token) == IF g.id = token[1] THEN [g EXCEPT !.n = @ + 1] ELSE g

LEMMA GainIs ==
  ASSUME NEW groups, TileList(groups), NEW token \in Tokens
  PROVE  /\ TileList(GainToken(groups, token))
         /\ ToSet(GainToken(groups, token)) =
              {More1(g, token) : g \in ToSet(groups)}
                \cup IF token[1] \in Ids(groups) THEN {} ELSE {[id |-> token[1], n |-> 1]}
<1> DEFINE with == [i \in DOMAIN groups |-> More1(groups[i], token)]
           one == <<[id |-> token[1], n |-> 1]>>
<1>1. token[1] \in Nat
  BY DEF Tokens
<1>2. \A i \in DOMAIN groups : groups[i] \in Tile
  BY TileListIs
<1>3. CASE token[1] \in Ids(groups)
  <2>1. GainToken(groups, token) = with
    BY <1>3 DEF GainToken, More1
  <2>2. \A g \in Tile : More1(g, token) \in Tile /\ More1(g, token).id = g.id
    BY DEF More1, Tile
  <2>3. TileList(with)
    <3>1. DOMAIN with = DOMAIN groups /\ with = [i \in DOMAIN groups |-> with[i]]
      OBVIOUS
    <3>2. \A i \in DOMAIN groups : with[i] \in Tile /\ with[i].id = groups[i].id
      BY <1>2, <2>2
    <3> HIDE DEF with
    <3> QED BY <3>1, <3>2, RetileIs
  <2>4. ToSet(with) = {More1(g, token) : g \in ToSet(groups)}
    BY DEF ToSet
  <2> HIDE DEF with
  <2> QED BY <1>3, <2>1, <2>3, <2>4
<1>4. CASE token[1] \notin Ids(groups)
  <2>1. GainToken(groups, token) = one \o groups
    BY <1>4 DEF GainToken
  <2>2. [id |-> token[1], n |-> 1] \in Tile
    BY <1>1 DEF Tile
  <2>3. TileList(one)
    BY <2>2 DEF TileList, Distinct
  <2>4. ToSet(one) = {[id |-> token[1], n |-> 1]} /\ Ids(one) = {token[1]}
    BY DEF ToSet, Ids
  <2> HIDE DEF one
  <2>5. Ids(one) \cap Ids(groups) = {}
    BY <1>4, <2>4
  <2>6. TileList(one \o groups) /\ ToSet(one \o groups) = ToSet(one) \cup ToSet(groups)
    BY <2>3, <2>5, JoinTiles
  <2>7. Ids(groups) = {x.id : x \in ToSet(groups)}
    BY TileListIs
  <2>8. \A g \in ToSet(groups) : More1(g, token) = g
    BY <1>4, <2>7 DEF More1
  <2>9. {More1(g, token) : g \in ToSet(groups)} = ToSet(groups)
    BY <2>8
  <2> QED BY <1>4, <2>1, <2>4, <2>6, <2>9
<1> QED BY <1>3, <1>4

-----------------------------------------------------------------------------
(* Token after token *)

LoseRun(f, groups, tokens) ==
  /\ f \in [0..Len(tokens) -> TileLists] /\ f[0] = groups
  /\ \A i \in 1..Len(tokens) : f[i] = LoseToken(f[i - 1], tokens[i])

LEMMA LoseRuns ==
  ASSUME NEW groups \in TileLists, NEW tokens \in Seq(Tokens)
  PROVE  \E f : LoseRun(f, groups, tokens) /\ LoseAll(groups, tokens) = f[Len(tokens)]
<1> DEFINE n == Len(tokens)
           step == [a \in TileLists |-> [b \in Tokens |-> LoseToken(a, b)]]
           Left(f) == f = [i \in 0..n |-> IF i = 0 THEN groups ELSE LoseToken(f[i - 1], tokens[i])]
           left == CHOOSE f : Left(f)
<1>1. n \in Nat /\ \A i \in 1..n : tokens[i] \in Tokens
  BY LenNat
<1>0. \A a \in TileLists : \A b : LoseToken(a, b) \in TileLists
  BY LoseIs DEF TileLists, TileList
<1>2. \E f : Left(f)
  <2>1. step \in [TileLists -> [Tokens -> TileLists]]
    BY <1>0
  <2> HIDE DEF step
  <2>2. PICK f : IsLoop(f, groups, step, tokens, TileLists)
    BY <2>1, LoopExists
  <2>3. ASSUME NEW i \in 1..n PROVE f[i] = LoseToken(f[i - 1], tokens[i])
    <3>1. f[i - 1] \in TileLists /\ tokens[i] \in Tokens
      BY <1>1, <2>2 DEF IsLoop
    <3> QED BY <2>2, <3>1 DEF step, IsLoop
  <2>4. Left(f)
    BY <1>1, <2>2, <2>3 DEF IsLoop
  <2> QED BY <2>4
<1>3. Left(left)
  BY <1>2
<1>8. LoseAll(groups, tokens) = left[n]
  BY DEF LoseAll
<1> HIDE DEF left
<1> DEFINE T == {i \in 0..n : left[i] \in TileLists}
<1>4. 0 \in T
  BY <1>1, <1>3
<1>9. \A i \in 1..n : left[i] = LoseToken(left[i - 1], tokens[i])
  <2>1. ASSUME NEW i \in 1..n PROVE left[i] = LoseToken(left[i - 1], tokens[i])
    <3>1. i \in 0..n /\ i # 0
      BY <1>1
    <3> QED BY <1>3, <3>1
  <2> QED BY <2>1
<1>5. ASSUME NEW i \in 1..n, i - 1 \in T PROVE i \in T
  <2>1. i \in 0..n
    BY <1>1
  <2>2. left[i - 1] \in TileLists
    BY <1>5
  <2> QED BY <1>0, <1>9, <2>1, <2>2
<1>6. \A i \in 0..n : i \in T
  BY <1>1, <1>4, <1>5, CountUp
<1>7. LoseRun(left, groups, tokens)
  <2>1. left \in [0..n -> TileLists] /\ left[0] = groups
    BY <1>1, <1>3, <1>6
  <2> QED BY <1>9, <2>1 DEF LoseRun
<1> QED BY <1>7, <1>8

GainRun(f, groups, tokens) ==
  /\ f \in [0..Len(tokens) -> TileLists] /\ f[0] = groups
  /\ \A i \in 1..Len(tokens) : f[i] = GainToken(f[i - 1], tokens[i])

LEMMA GainRuns ==
  ASSUME NEW groups \in TileLists, NEW tokens \in Seq(Tokens)
  PROVE  \E f : GainRun(f, groups, tokens) /\ GainAll(groups, tokens) = f[Len(tokens)]
<1> DEFINE n == Len(tokens)
           step == [a \in TileLists |-> [b \in Tokens |-> GainToken(a, b)]]
           Left(f) == f = [i \in 0..n |-> IF i = 0 THEN groups ELSE GainToken(f[i - 1], tokens[i])]
           left == CHOOSE f : Left(f)
<1>1. n \in Nat /\ \A i \in 1..n : tokens[i] \in Tokens
  BY LenNat
<1>0. \A a \in TileLists, b \in Tokens : GainToken(a, b) \in TileLists
  BY GainIs DEF TileLists, TileList
<1>2. \E f : Left(f)
  <2>1. step \in [TileLists -> [Tokens -> TileLists]]
    BY <1>0
  <2> HIDE DEF step
  <2>2. PICK f : IsLoop(f, groups, step, tokens, TileLists)
    BY <2>1, LoopExists
  <2>3. ASSUME NEW i \in 1..n PROVE f[i] = GainToken(f[i - 1], tokens[i])
    <3>1. f[i - 1] \in TileLists /\ tokens[i] \in Tokens
      BY <1>1, <2>2 DEF IsLoop
    <3> QED BY <2>2, <3>1 DEF step, IsLoop
  <2>4. Left(f)
    BY <1>1, <2>2, <2>3 DEF IsLoop
  <2> QED BY <2>4
<1>3. Left(left)
  BY <1>2
<1>8. GainAll(groups, tokens) = left[n]
  BY DEF GainAll
<1> HIDE DEF left
<1> DEFINE T == {i \in 0..n : left[i] \in TileLists}
<1>4. 0 \in T
  BY <1>1, <1>3
<1>9. \A i \in 1..n : left[i] = GainToken(left[i - 1], tokens[i])
  <2>1. ASSUME NEW i \in 1..n PROVE left[i] = GainToken(left[i - 1], tokens[i])
    <3>1. i \in 0..n /\ i # 0
      BY <1>1
    <3> QED BY <1>3, <3>1
  <2> QED BY <2>1
<1>5. ASSUME NEW i \in 1..n, i - 1 \in T PROVE i \in T
  <2>1. i \in 0..n /\ tokens[i] \in Tokens
    BY <1>1
  <2>2. left[i - 1] \in TileLists
    BY <1>5
  <2> QED BY <1>0, <1>9, <2>1, <2>2
<1>6. \A i \in 0..n : i \in T
  BY <1>1, <1>4, <1>5, CountUp
<1>7. GainRun(left, groups, tokens)
  <2>1. left \in [0..n -> TileLists] /\ left[0] = groups
    BY <1>1, <1>3, <1>6
  <2> QED BY <1>9, <2>1 DEF GainRun
<1> QED BY <1>7, <1>8

-----------------------------------------------------------------------------
(* Type correctness: the stream and the grid *)

Prevs == IF page.view = "delegators" THEN [members : SUBSET Creds, epoch : Nat] ELSE Holdings

LEMMA PageIsOne ==
  ASSUME WorldInv
  PROVE  /\ page.view = "delegators" => Delegates(F)
         /\ page.view = "assets" => ~Delegates(F)
         /\ F.kind \in {"pool", "drep", "stake", "address"}
         /\ Delegates(F) => F.id \in Targets
BY ViewsAssumption DEF WorldInv, F

LEMMA FiguresAre ==
  ASSUME NEW was \in Opt(Figure), NEW epoch \in Nat, NEW figures \in Figures(was, epoch)
  PROVE  figures \in Opt(Figure) /\ Head(figures).figure \in {0, epoch}
<1>1. CASE Kept(was, epoch)
  <2>1. figures = was /\ was # <<>> /\ Head(was).epoch = epoch
    BY <1>1 DEF Figures, Kept
  <2>2. Head(was) \in Figure
    BY <2>1, OptIs
  <2> QED BY <2>1, <2>2 DEF Figure
<1>2. CASE ~Kept(was, epoch)
  <2>1. PICK n \in {0, epoch} : figures = <<[epoch |-> epoch, figure |-> n]>>
    BY <1>2 DEF Figures
  <2>2. [epoch |-> epoch, figure |-> n] \in Figure
    BY DEF Figure
  <2> QED BY <2>1, <2>2, OptIs
<1> QED BY <1>1, <1>2

LEMMA TypeOfStream ==
  ASSUME TypeInv, [Next]_vars
  PROVE  StreamInv'
<1>1. StreamInv /\ WorldInv
  BY DEF TypeInv
<1>0. prev \in Opt(Prevs) /\ <<>> \in Opt(Prevs) /\ \A x \in Prevs : <<x>> \in Opt(Prevs)
  BY <1>1, OptIs DEF StreamInv, Prevs
<1>2. page' = page => Prevs' = Prevs
  BY DEF Prevs
<1> USE DEF Prevs
<1>3. CASE UNCHANGED <<page, queue, up, stage, prev, cache>>
  BY <1>1, <1>3 DEF StreamInv
<1>4. CASE Apply \/ Roll
  <2>1. page' = page /\ UNCHANGED stream /\ (up = "down" => queue' = queue)
    BY <1>4 DEF Apply, Roll, Move
  <2> QED BY <1>1, <2>1 DEF StreamInv, stream
<1>5. CASE Connect
  <2>1. /\ page' = page /\ queue' = queue /\ up = "down" /\ up' = "header" /\ prev' = <<>>
        /\ stage' = stage
        /\ cache' = cache \/ cache' \in Figures(cache, Now.epoch)
    BY <1>5 DEF Connect, world
  <2>2. Now.epoch \in Nat
    BY <1>1, NowIs
  <2>3. cache' \in Opt(Figure)
    <3>1. cache \in Opt(Figure)
      BY <1>1 DEF StreamInv
    <3>2. CASE cache' = cache
      BY <3>1, <3>2
    <3>3. CASE cache' \in Figures(cache, Now.epoch)
      BY <2>2, <3>1, <3>3, FiguresAre
    <3> QED BY <2>1, <3>2, <3>3
  <2> QED BY <1>0, <1>1, <2>1, <2>3 DEF StreamInv
<1>6. CASE Seed
  <2>1. page' = page /\ queue' = queue /\ up' = "live" /\ stage' = stage /\ prev' = prev /\ cache' = cache
    BY <1>6 DEF Seed, world
  <2> QED BY <1>1, <2>1 DEF StreamInv
<1>7. CASE Drop
  <2>1. page' = page /\ queue' = <<>> /\ up' = "down" /\ stage' = "none" /\ prev' = prev /\ cache' = cache
    BY <1>7 DEF Drop
  <2> QED BY <1>1, <2>1 DEF StreamInv
<1>8. CASE Handle
  <2>1. page' = page /\ up = "live" /\ up' = up /\ stage' = "none"
    BY <1>8 DEF Handle
  <2>2. Now \in Snapshot /\ Now.holds \in Holdings /\ Now.epoch \in Nat
    BY <1>1, NowIs
  <2>3. prev' \in Opt(Prevs)
    <3>1. prev' = prev \/ (page.view = "delegators" /\ prev' = <<[members |-> Members(F, Now), epoch |-> Now.epoch]>>)
          \/ (page.view = "assets" /\ prev' = <<Now.holds>>)
      BY <1>8 DEF Handle, DelegatorDelta, AssetDelta
    <3>2. ASSUME page.view = "delegators", prev' = <<[members |-> Members(F, Now), epoch |-> Now.epoch]>>
          PROVE  prev' \in Opt(Prevs)
      <4>1. Delegates(F)
        BY <1>1, <3>2, PageIsOne
      <4>2. Members(F, Now) \subseteq Creds
        BY <4>1, MembersIs
      <4>3. [members |-> Members(F, Now), epoch |-> Now.epoch] \in Prevs
        BY <2>2, <3>2, <4>2
      <4> HIDE DEF Prevs
      <4> QED BY <1>0, <3>2, <4>3
    <3>3. ASSUME page.view = "assets", prev' = <<Now.holds>>
          PROVE  prev' \in Opt(Prevs)
      <4>1. Now.holds \in Prevs
        BY <2>2, <3>3
      <4> HIDE DEF Prevs
      <4> QED BY <1>0, <3>3, <4>1
    <3> HIDE DEF Prevs
    <3> QED BY <1>0, <3>1, <3>2, <3>3
  <2>4. cache' \in Opt(Figure)
    <3>1. cache \in Opt(Figure)
      BY <1>1 DEF StreamInv
    <3>2. cache' = cache \/ cache' \in Figures(cache, Now.epoch)
      BY <1>8 DEF Handle, Restat
    <3> QED BY <2>2, <3>1, <3>2, FiguresAre
  <2> QED BY <2>1, <2>3, <2>4 DEF StreamInv
<1>9. CASE Serve \/ Receive \/ Fetch
  BY <1>3, <1>9 DEF Serve, Receive, Fetch, world, stream
<1>10. CASE Fail \/ CycleSort
  <2>1. UNCHANGED <<page, queue, stream>>
    BY <1>10 DEF Fail, CycleSort
  <2> QED BY <1>3, <2>1 DEF stream
<1>11. CASE UNCHANGED vars
  BY <1>3, <1>11 DEF vars, world, stream
<1>12. CASE Compare
  <2>1. /\ UNCHANGED <<page, queue, up, prev, cache>> /\ up = "live"
        /\ stage' \in {"same", "changed"}
    BY <1>12 DEF Compare, world
  <2> QED BY <1>1, <2>1 DEF StreamInv
<1> QED BY <1>4, <1>5, <1>6, <1>7, <1>8, <1>9, <1>10, <1>11, <1>12 DEF Next

\* What the grid should show of a snapshot.
RightTiles(snap) ==
  IF page.view = "delegators" THEN SetTiles(snap, Members(F, snap)) ELSE GroupTiles(Held(F, snap))
RightIds(snap) ==
  IF page.view = "delegators" THEN Members(F, snap) ELSE Policies(Held(F, snap))

LEMMA ListingIs ==
  ASSUME WorldInv, NEW desc \in BOOLEAN
  PROVE  TilesOf(Listing(Now, desc), RightTiles(Now), RightIds(Now))
<1>1. Now \in Snapshot /\ Now.holds \in Holdings
  BY NowIs
<1>2. CASE page.view = "delegators"
  <2>1. Delegates(F)
    BY <1>2, PageIsOne
  <2>2. TilesOf(Rows(F, Now, desc), SetTiles(Now, Members(F, Now)), Members(F, Now))
    BY <1>1, <2>1, RowsIs
  <2> QED BY <1>2, <2>2 DEF Listing, RightTiles, RightIds
<1>3. CASE page.view # "delegators"
  <2>1. TilesOf(Groups(F, Now, desc), GroupTiles(Held(F, Now)), Policies(Held(F, Now)))
    BY <1>1, GroupsIs
  <2> QED BY <1>3, <2>1 DEF Listing, RightTiles, RightIds
<1> QED BY <1>2, <1>3

\* The tiles of some delegators.
LEMMA SetTilesAre ==
  ASSUME NEW snap \in Snapshot, NEW C \in SUBSET Creds
  PROVE  /\ SetTiles(snap, C) \subseteq Tile /\ IsFiniteSet(SetTiles(snap, C))
         /\ {x.id : x \in SetTiles(snap, C)} = C
         /\ \A x, y \in SetTiles(snap, C) : x.id = y.id => x = y
<1> DEFINE f == [c \in C |-> DelegatorTile(snap, c)]
           T == SetTiles(snap, C)
<1>1. T = {DelegatorTile(snap, c) : c \in C}
  BY DEF SetTiles
<1>2. \A c \in C : DelegatorTile(snap, c) \in Tile /\ DelegatorTile(snap, c).id = c
  <2>1. ASSUME NEW c \in C PROVE DelegatorTile(snap, c) \in Tile /\ DelegatorTile(snap, c).id = c
    <3>1. c \in Creds /\ c \in Nat
      BY FilterAssumption
    <3>2. Live(snap, c) \in Nat
      BY <3>1, LiveNat
    <3> QED BY <3>1, <3>2 DEF DelegatorTile, Tile
  <2> QED BY <2>1
<1>3. IsFiniteSet(C)
  BY FilterAssumption, FS_Subset
<1>4. f \in Surjection(C, T)
  BY <1>1 DEF Surjection
<1> HIDE DEF f, T
<1>5. IsFiniteSet(T)
  BY <1>3, <1>4, FS_Surjection
<1> QED BY <1>1, <1>2, <1>5 DEF T

\* The tokens that a subject has got and has no more.
LEMMA DiffIs ==
  ASSUME NEW before \in Holdings, NEW now \in Holdings
  PROVE  LET T == Held(F, [holds |-> before])
             U == Held(F, [holds |-> now])
             diff == TileDiff(before, now)
         IN  /\ T \in SUBSET Tokens /\ IsFiniteSet(T) /\ U \in SUBSET Tokens /\ IsFiniteSet(U)
             /\ diff.added = U \ T /\ diff.removed = T \ U
             /\ Lists(SetToSeq(diff.added), U \ T) /\ Lists(SetToSeq(diff.removed), T \ U)
             /\ SetToSeq(diff.added) \in Seq(Tokens) /\ SetToSeq(diff.removed) \in Seq(Tokens)
<1> DEFINE T == Held(F, [holds |-> before])
           U == Held(F, [holds |-> now])
           diff == TileDiff(before, now)
           D == U \ T
           R == T \ U
<1>1. T \in SUBSET Tokens /\ IsFiniteSet(T)
  <2>1. [holds |-> before].holds \in Holdings
    OBVIOUS
  <2> QED BY <2>1, HeldIs
<1>2. U \in SUBSET Tokens /\ IsFiniteSet(U)
  <2>1. [holds |-> now].holds \in Holdings
    OBVIOUS
  <2> QED BY <2>1, HeldIs
<1>3. diff.added = D /\ diff.removed = R
  BY DEF TileDiff
<1> HIDE DEF T, U, diff
<1>4. D \in SUBSET Tokens /\ IsFiniteSet(D) /\ R \in SUBSET Tokens /\ IsFiniteSet(R)
  BY <1>1, <1>2, FS_Difference
<1> HIDE DEF D, R
<1>5. Lists(SetToSeq(D), D) /\ Lists(SetToSeq(R), R)
  BY <1>4, SetToSeqIs
<1>6. SetToSeq(D) \in Seq(Tokens) /\ SetToSeq(R) \in Seq(Tokens)
  BY <1>4, <1>5 DEF Lists
<1> QED BY <1>1, <1>2, <1>3, <1>5, <1>6 DEF T, U, diff, D, R

LEMMA SupersededIs ==
  ASSUME GridInv
  PROVE  /\ Superseded \in Opt(Request)
         /\ Superseded # <<>> => request # <<>> /\ Head(Superseded).old
<1>1. request \in Opt(Request)
  BY DEF GridInv
<1>2. CASE request = <<>>
  BY <1>2, OptIs DEF Superseded
<1>3. CASE request # <<>>
  <2> DEFINE r == Head(request)
             s == [r EXCEPT !.old = TRUE]
  <2>1. r \in Request
    BY <1>1, <1>3, OptIs
  <2>2. Superseded = <<s>>
    BY <1>3 DEF Superseded
  <2>3. s \in Request /\ s.old
    BY <2>1 DEF Request
  <2> HIDE DEF s
  <2>4. <<s>> \in Opt(Request) /\ Head(<<s>>) = s
    BY <2>3, OptIs
  <2> QED BY <1>3, <2>2, <2>3, <2>4
<1> QED BY <1>2, <1>3

\* The page that a request is served.
PageOf(all, r, last) ==
  [tiles |-> SubSeq(all, r.at + 1, last), next |-> last, more |-> last < Len(all)]

LEMMA ServeIs ==
  ASSUME TypeInv, Serve
  PROVE  LET r == Head(request)
             all == Listing(Now, r.desc)
             last == Max({r.at, Min({r.at + PageSize, Len(all)})})
             page1 == PageOf(all, r, last)
         IN  /\ request # <<>> /\ r \in Request /\ r.reply = <<>>
             /\ TilesOf(all, RightTiles(Now), RightIds(Now))
             /\ request' = <<[r EXCEPT !.reply = <<page1>>]>>
             /\ [r EXCEPT !.reply = <<page1>>] \in Request
             /\ page1 \in Reply /\ last \in Nat /\ last >= r.at
             /\ IsPage(page1.tiles, all, r.at, last)
             /\ ~page1.more => First(all, last) = Ids(all)
<1> DEFINE r == Head(request)
           all == Listing(Now, r.desc)
           last == Max({r.at, Min({r.at + PageSize, Len(all)})})
           page1 == PageOf(all, r, last)
<1>1. request # <<>> /\ r.reply = <<>>
  BY DEF Serve
<1>2. r \in Request
  BY <1>1, OptIs DEF TypeInv, GridInv
<1>3. r.at \in Nat /\ r.desc \in BOOLEAN
  BY <1>2 DEF Request
<1>4. request' = <<[r EXCEPT !.reply = <<page1>>]>>
  BY DEF Serve, PageOf
<1>5. TilesOf(all, RightTiles(Now), RightIds(Now))
  BY <1>3, ListingIs DEF TypeInv
<1> DEFINE at == r.at
<1>13. last = Max({at, Min({at + PageSize, Len(all)})}) /\ at \in Nat
  BY <1>3
<1>14. page1.tiles = SubSeq(all, at + 1, last) /\ page1.more = (last < Len(all)) /\ page1.next = last
       /\ page1 = [tiles |-> page1.tiles, next |-> page1.next, more |-> page1.more]
  BY DEF PageOf
<1> HIDE DEF all, last, at
<1>6. TileList(all)
  BY <1>5 DEF TilesOf
<1>7. /\ last \in Nat /\ last >= at /\ IsPage(SubSeq(all, at + 1, last), all, at, last)
      /\ last >= Len(all) => First(all, last) = Ids(all)
  BY <1>6, <1>13, PageIs
<1>8. Len(all) \in Nat
  BY <1>6, TileListIs
<1> HIDE DEF page1
<1>9. IsPage(page1.tiles, all, at, last) /\ page1.more \in BOOLEAN
  BY <1>7, <1>14
<1>10. ~page1.more => First(all, last) = Ids(all)
  <2>1. ASSUME ~page1.more PROVE last >= Len(all)
    <3>1. ~(last < Len(all))
      BY <1>14, <2>1, Zenon
    <3>2. last \in Nat
      BY <1>7
    <3> QED BY <1>8, <3>1, <3>2
  <2> QED BY <1>7, <2>1
<1>11. page1 \in Reply
  <2>1. page1.tiles \in TileLists
    BY <1>9 DEF IsPage, TileList, TileLists
  <2> QED BY <1>7, <1>9, <1>14, <2>1 DEF Reply
<1>12. [r EXCEPT !.reply = <<page1>>] \in Request
  <2>1. <<page1>> \in Opt(Reply)
    BY <1>11, OptIs
  <2> QED BY <1>2, <2>1 DEF Request
<1>15. last >= r.at /\ IsPage(page1.tiles, all, r.at, last)
  BY <1>7, <1>9 DEF at
<1> QED BY <1>1, <1>2, <1>4, <1>5, <1>7, <1>10, <1>11, <1>12, <1>15 DEF all, last, page1, at

LEMMA ReceiveIs ==
  ASSUME TypeInv, Receive
  PROVE  LET r == Head(request)
             reply == Head(r.reply)
         IN  /\ request # <<>> /\ request' = <<>> /\ r \in Request /\ r.reply # <<>> /\ reply \in Reply
             /\ TileList(reply.tiles)
             /\ IF r.old THEN UNCHANGED <<tiles, cursor, more>>
                ELSE tiles' = AppendFresh(reply.tiles) /\ cursor' = reply.next /\ more' = reply.more
<1> DEFINE r == Head(request)
           reply == Head(r.reply)
<1>1. request # <<>> /\ request' = <<>> /\ r.reply # <<>>
  BY DEF Receive
<1>2. r \in Request
  BY <1>1, OptIs DEF TypeInv, GridInv
<1>3. r.reply \in Opt(Reply)
  BY <1>2 DEF Request
<1>4. IF r.old THEN UNCHANGED <<tiles, cursor, more>>
      ELSE tiles' = AppendFresh(reply.tiles) /\ cursor' = reply.next /\ more' = reply.more
  BY DEF Receive
<1> HIDE DEF r
<1>5. reply \in Reply
  BY <1>1, <1>3, OptIs
<1>6. TileList(reply.tiles)
  BY <1>5 DEF Reply, TileLists, TileList
<1> QED BY <1>1, <1>2, <1>4, <1>5, <1>6 DEF r

\* The tiles after a delta.
LEMMA DeltaTiles ==
  ASSUME TypeInv, Handle
  PROVE  tiles' \in TileLists
<1>1. tiles \in TileLists /\ TileList(tiles)
  BY DEF TypeInv, GridInv, TileLists, TileList
<1>2. Now \in Snapshot /\ Now.holds \in Holdings
  BY NowIs DEF TypeInv
<1>3. ASSUME page.view = "delegators", DelegatorDelta(Head(queue))
      PROVE  tiles' \in TileLists
  <2> DEFINE creds == Members(F, Now)
             before == Head(prev).members
             hit == Touched(Head(Head(queue).block))
             removed == hit \cap (before \ creds)
             updated == SetTiles(Now, hit \cap before \cap creds)
             added == SetTiles(Now, hit \cap (creds \ before))
  <2>1. \/ tiles' = tiles \/ tiles' = <<>>
        \/ tiles' = Patch(removed, updated, added)
    BY <1>3 DEF DelegatorDelta, Reset
  <2>2. Delegates(F)
    BY <1>3, PageIsOne DEF TypeInv
  <2>3. creds \subseteq Creds
    BY <2>2, MembersIs
  <2>4. updated \subseteq Tile
    BY <1>2, <2>3, SetTilesAre
  <2>5. added \subseteq Tile /\ IsFiniteSet(added) /\ \A x, y \in added : x.id = y.id => x = y
    BY <1>2, <2>3, SetTilesAre, ZenonT(30)
  <2> HIDE DEF removed, updated, added
  <2>6. TileList(Patch(removed, updated, added))
    BY <1>1, <2>4, <2>5, PatchIs
  <2>7. <<>> \in TileLists
    BY DEF TileLists, Distinct
  <2> QED BY <1>1, <2>1, <2>6, <2>7 DEF TileList, TileLists
<1>4. ASSUME page.view = "assets", AssetDelta(Head(queue))
      PROVE  tiles' \in TileLists
  <2> DEFINE diff == TileDiff(Head(prev), Now.holds)
             lost == SetToSeq(diff.removed)
             got == SetToSeq(diff.added)
             left == LoseAll(tiles, lost)
  <2>1. tiles' = tiles \/ (prev # <<>> /\ tiles' = GainAll(left, got))
    BY <1>4 DEF AssetDelta
  <2>2. CASE tiles' = tiles
    BY <1>1, <2>2
  <2>3. CASE prev # <<>> /\ tiles' = GainAll(left, got)
    <3>1. Head(prev) \in Holdings
      BY <1>4, <2>3, OptIs DEF TypeInv, StreamInv
    <3>2. got \in Seq(Tokens) /\ lost \in Seq(Tokens)
      BY <1>2, <3>1, DiffIs
    <3> HIDE DEF got, lost
    <3>3. left \in TileLists
      <4>1. PICK f : LoseRun(f, tiles, lost) /\ LoseAll(tiles, lost) = f[Len(lost)]
        BY <1>1, <3>2, LoseRuns
      <4>2. Len(lost) \in 0..Len(lost)
        BY <3>2, LenNat
      <4> QED BY <4>1, <4>2 DEF LoseRun
    <3> HIDE DEF left
    <3>4. PICK f : GainRun(f, left, got) /\ GainAll(left, got) = f[Len(got)]
      BY <3>2, <3>3, GainRuns
    <3>5. Len(got) \in 0..Len(got)
      BY <3>2, LenNat
    <3> QED BY <2>3, <3>4, <3>5 DEF GainRun
  <2> QED BY <2>1, <2>2, <2>3
<1>5. tiles' = tiles \/ (page.view = "delegators" /\ DelegatorDelta(Head(queue)))
      \/ (page.view = "assets" /\ AssetDelta(Head(queue)))
  BY DEF Handle, grid
<1> QED BY <1>1, <1>3, <1>4, <1>5

LEMMA TypeOfGrid ==
  ASSUME TypeInv, [Next]_vars
  PROVE  GridInv'
<1>1. GridInv
  BY DEF TypeInv
<1>2. page' = page => IsGrid' = IsGrid
  BY DEF IsGrid
<1>3. CASE UNCHANGED <<page, grid>>
  BY <1>1, <1>2, <1>3 DEF GridInv, grid
<1>4. CASE Apply \/ Roll \/ Connect \/ Seed \/ Drop \/ Compare
  <2>1. UNCHANGED <<page, grid>>
    BY <1>4 DEF Apply, Roll, Connect, Seed, Drop, Compare, world, grid
  <2> QED BY <1>3, <2>1
<1>5. CASE Fetch
  <2> DEFINE r == [at |-> cursor, desc |-> order, old |-> FALSE, reply |-> <<>>]
  <2>1. page' = page /\ UNCHANGED <<tiles, cursor, more, order>> /\ IsGrid /\ more /\ request' = <<r>>
    BY <1>5 DEF Fetch, world
  <2>2. r \in Request
    BY <1>1, OptIs DEF GridInv, Request
  <2>3. ~r.old /\ r.at = cursor /\ r.desc = order
    OBVIOUS
  <2> HIDE DEF r
  <2>4. <<r>> \in Opt(Request) /\ Head(<<r>>) = r
    BY <2>2, OptIs
  <2> QED BY <1>1, <1>2, <2>1, <2>3, <2>4 DEF GridInv
<1>6. CASE Serve
  <2> DEFINE r == Head(request)
             all == Listing(Now, r.desc)
             last == Max({r.at, Min({r.at + PageSize, Len(all)})})
             page1 == PageOf(all, r, last)
             s == [r EXCEPT !.reply = <<page1>>]
  <2>1. page' = page /\ UNCHANGED <<tiles, cursor, more, order>>
    BY <1>6 DEF Serve, world
  <2>2. request # <<>> /\ r \in Request /\ request' = <<s>> /\ s \in Request
    BY <1>6, ServeIs
  <2> HIDE DEF page1
  <2>3. s.old = r.old /\ s.at = r.at /\ s.desc = r.desc
    BY <2>2 DEF Request
  <2> HIDE DEF s
  <2>4. <<s>> \in Opt(Request) /\ Head(<<s>>) = s
    BY <2>2, OptIs
  <2> QED BY <1>1, <1>2, <2>1, <2>2, <2>3, <2>4 DEF GridInv
<1>7. CASE Receive
  <2> DEFINE r == Head(request)
             reply == Head(r.reply)
  <2>1. page' = page /\ order' = order
    BY <1>7 DEF Receive, world
  <2>2. /\ request' = <<>> /\ reply \in Reply /\ TileList(reply.tiles)
        /\ IF r.old THEN UNCHANGED <<tiles, cursor, more>>
           ELSE tiles' = AppendFresh(reply.tiles) /\ cursor' = reply.next /\ more' = reply.more
    BY <1>7, ReceiveIs
  <2> HIDE DEF reply
  <2>3. AppendFresh(reply.tiles) \in TileLists
    <3>1. TileList(tiles)
      BY <1>1 DEF GridInv, TileLists, TileList
    <3>2. TileList(AppendFresh(reply.tiles))
      BY <2>2, <3>1, FreshIs
    <3> QED BY <3>2 DEF TileList, TileLists
  <2>4. tiles' \in TileLists /\ cursor' \in Nat /\ more' \in BOOLEAN
    BY <1>1, <2>2, <2>3 DEF GridInv, Reply
  <2> QED BY <1>1, <2>1, <2>2, <2>4, OptIs DEF GridInv
<1>8. CASE Fail
  <2>1. page' = page /\ UNCHANGED <<tiles, cursor, order>> /\ more' = FALSE /\ request' = <<>>
    BY <1>8 DEF Fail
  <2> QED BY <1>1, <2>1, OptIs DEF GridInv
<1>9. ASSUME Reset, page' = page, order' \in BOOLEAN PROVE GridInv'
  <2>1. tiles' = <<>> /\ cursor' = 0 /\ more' = TRUE /\ request' = Superseded
    BY <1>9 DEF Reset
  <2>2. <<>> \in TileLists
    BY DEF TileLists, Distinct
  <2>3. request' \in Opt(Request) /\ (request' # <<>> => request # <<>> /\ Head(request').old)
    BY <1>1, <2>1, SupersededIs
  <2>4. request # <<>> => IsGrid
    BY <1>1 DEF GridInv
  <2> QED BY <1>2, <1>9, <2>1, <2>2, <2>3, <2>4 DEF GridInv
<1>10. CASE CycleSort
  <2>1. Reset /\ page' = page /\ order' \in BOOLEAN
    BY <1>1, <1>10 DEF CycleSort, GridInv
  <2> QED BY <1>9, <2>1
<1>11. CASE Handle
  <2>1. page' = page
    BY <1>11 DEF Handle
  <2>2. tiles' \in TileLists
    BY <1>11, DeltaTiles
  <2>3. UNCHANGED <<cursor, more, request, order>> \/ (Reset /\ order' = order)
    BY <1>11 DEF Handle, DelegatorDelta, AssetDelta, grid
  <2>4. CASE UNCHANGED <<cursor, more, request, order>>
    BY <1>1, <1>2, <2>1, <2>2, <2>4 DEF GridInv
  <2>5. CASE Reset /\ order' = order
    BY <1>1, <1>9, <2>1, <2>5 DEF GridInv
  <2> QED BY <2>3, <2>4, <2>5
<1>12. CASE UNCHANGED vars
  BY <1>3, <1>12 DEF vars, world
<1> QED BY <1>4, <1>5, <1>6, <1>7, <1>8, <1>10, <1>11, <1>12 DEF Next

LEMMA InitTyped == Init => TypeInv
<1> SUFFICES ASSUME Init PROVE TypeInv
  OBVIOUS
<1>1. chain = <<Genesis>> /\ queue = <<>> /\ page \in Views /\ Genesis \in Snapshot
  BY ViewsAssumption DEF Init
<1>2. chain \in Seq(Snapshot) /\ Len(chain) = 1 /\ queue \in Seq(Event) /\ Len(queue) = 0
  BY <1>1
<1>3. WorldInv
  BY <1>1, <1>2, GridAssumption DEF WorldInv
<1>4. StreamInv
  BY OptIs DEF Init, StreamInv
<1>5. GridInv
  BY OptIs DEF Init, GridInv, TileLists, Distinct
<1> QED BY <1>3, <1>4, <1>5 DEF TypeInv

\* The variables keep their types through every step: what the page, the stream
\* and the state hold is what the code's types say, stakes are never negative, no
\* list of tiles has a policy or credential twice, and a request that counts is
\* for the page the grid has next.
THEOREM TypeCorrect == Spec => []TypeInv
<1>1. TypeInv /\ [Next]_vars => TypeInv'
  BY TypeOfWorld, TypeOfStream, TypeOfGrid DEF TypeInv
<1> QED BY InitTyped, <1>1, PTL DEF Spec

LEMMA TypeMeans == TypeInv => TypeOK
<1> SUFFICES ASSUME TypeInv PROVE TypeOK
  OBVIOUS
<1>1. WorldInv /\ StreamInv /\ GridInv
  BY DEF TypeInv
<1>2. \A snap \in ToSet(chain) : \A c \in Creds : Live(snap, c) >= 0
  <2>1. ASSUME NEW snap \in ToSet(chain), NEW c \in Creds PROVE Live(snap, c) >= 0
    <3>1. chain \in Seq(Snapshot)
      BY <1>1 DEF WorldInv
    <3>2. snap \in Snapshot
      BY <3>1, ElementIn DEF ToSet
    <3>3. Live(snap, c) \in Nat
      BY <3>2, LiveNat
    <3> QED BY <3>3
  <2> QED BY <2>1
<1>3. Len(prev) <= 1 /\ Len(cache) <= 1 /\ Len(request) <= 1
  BY <1>1, OptIs DEF StreamInv, GridInv
<1> QED BY <1>1, <1>2, <1>3 DEF TypeOK, WorldInv, StreamInv, GridInv

-----------------------------------------------------------------------------
(* The header *)

\* A header sent when no event is waiting is the state's, and so is one that a
\* live page has been sent after its last event.
HeaderInv ==
  (up # "down" /\ queue = <<>>) =>
    IF page.view = "home"
    THEN marks = {} => header \in [staked : {TotalStaked(Now)}, figure : {0, Now.epoch}]
    ELSE IF up = "header" THEN header = Watched(F, Now)
    ELSE header = seen => header = Watched(F, Now)

\* What an event has been compared with is the state, unless another has come.
ComparedInv ==
  stage # "none" =>
    page.view # "home" /\ queue # <<>> /\ (Len(queue) = 1 => seen = Watched(F, Now))

\* The state moves: a connected page has an event to take.
LEMMA MoveIs ==
  ASSUME WorldInv, Apply \/ Roll
  PROVE  /\ page' = page /\ UNCHANGED <<stream, grid>>
         /\ IF up = "down" THEN queue' = queue
            ELSE /\ queue' # <<>> /\ Len(queue') = Len(queue) + 1 /\ queue'[Len(queue')] = Last(queue')
                 /\ \A i \in 1..Len(queue) : queue'[i] = queue[i]
         /\ marks \subseteq marks' /\ (marks' # marks => marks' = marks \cup {"gap"})
         /\ up = "down" /\ Stocked => "gap" \in marks'
<1>1. PICK event : Move(event) /\ page' = page /\ UNCHANGED <<stream, grid>>
  BY DEF Apply, Roll
<1>2. queue \in Seq(Event)
  BY DEF WorldInv
<1>3. /\ Append(queue, event) # <<>> /\ Len(Append(queue, event)) = Len(queue) + 1
      /\ \A i \in 1..Len(queue) : Append(queue, event)[i] = queue[i]
  <2> DEFINE E == Event \cup {event}
  <2>1. queue \in Seq(E)
    BY <1>2
  <2>2. event \in E
    OBVIOUS
  <2> HIDE DEF E
  <2>3. Append(queue, event) \in Seq(E) /\ Len(Append(queue, event)) = Len(queue) + 1
        /\ \A i \in 1..Len(queue) : Append(queue, event)[i] = queue[i]
    BY <2>1, <2>2, AppendIs
  <2>4. Len(queue) \in Nat
    BY <2>1, LenNat
  <2>5. Append(queue, event) # <<>>
    BY <2>3, <2>4
  <2> QED BY <2>3, <2>5
<1>4. IF up = "down" THEN queue' = queue ELSE queue' = Append(queue, event)
  BY <1>1 DEF Move
<1>5. marks' = marks \cup IF up = "down" /\ Stocked THEN {"gap"} ELSE {}
  BY <1>1 DEF Move
<1>6. queue'[Len(queue')] = Last(queue')
  BY DEF Last
<1> QED BY <1>1, <1>3, <1>4, <1>5, <1>6

LEMMA ComparedStep ==
  ASSUME TypeInv, ComparedInv, [Next]_vars
  PROVE  ComparedInv'
<1>1. WorldInv /\ StreamInv
  BY DEF TypeInv
<1>2. page' = page /\ chain' = chain => Watched(F, Now)' = Watched(F, Now)
  BY DEF F, Now
<1>3. CASE UNCHANGED <<page, chain, queue, stage, seen>>
  BY <1>2, <1>3 DEF ComparedInv
<1>4. CASE Apply \/ Roll
  <2>1. page' = page /\ UNCHANGED stream
    BY <1>1, <1>4, MoveIs
  <2>2. CASE up = "down"
    BY <1>1, <2>1, <2>2 DEF StreamInv, ComparedInv, stream
  <2>3. CASE up # "down"
    <3>1. queue' # <<>> /\ Len(queue') = Len(queue) + 1
      BY <1>1, <1>4, <2>3, MoveIs
    <3>2. queue # <<>> => Len(queue) # 0
      BY <1>1 DEF WorldInv
    <3>3. Len(queue) \in Nat
      BY <1>1, LenNat DEF WorldInv
    <3> QED BY <2>1, <3>1, <3>2, <3>3 DEF ComparedInv, stream
  <2> QED BY <2>2, <2>3
<1>5. CASE Connect \/ Seed
  <2>1. stage' = stage /\ up # "live"
    BY <1>5 DEF Connect, Seed
  <2> QED BY <1>1, <2>1 DEF StreamInv, ComparedInv
<1>6. CASE Drop \/ Handle
  <2>1. stage' = "none"
    BY <1>6 DEF Drop, Handle
  <2> QED BY <2>1 DEF ComparedInv
<1>7. CASE Compare
  <2>1. /\ page' = page /\ chain' = chain /\ queue' = queue /\ queue # <<>>
        /\ page.view # "home" /\ seen' = Watched(F, Now)
    BY <1>7 DEF Compare, WatchedNow, world
  <2> QED BY <1>2, <2>1 DEF ComparedInv
<1>8. CASE Fetch \/ Serve \/ Receive \/ Fail \/ CycleSort
  <2>1. UNCHANGED <<page, chain, queue, stream>>
    BY <1>8 DEF Fetch, Serve, Receive, Fail, CycleSort, world
  <2> QED BY <1>3, <2>1 DEF stream
<1>9. CASE UNCHANGED vars
  BY <1>3, <1>9 DEF vars, world, stream
<1> QED BY <1>4, <1>5, <1>6, <1>7, <1>8, <1>9 DEF Next

\* What an event that a live page takes does to the header.
LEMMA HeaderStep ==
  ASSUME TypeInv, ComparedInv, HeaderInv, [Next]_vars
  PROVE  HeaderInv'
<1>1. WorldInv /\ StreamInv /\ GridInv
  BY DEF TypeInv
<1>2. page' = page /\ chain' = chain =>
        /\ Now' = Now /\ F' = F /\ Watched(F, Now)' = Watched(F, Now)
        /\ TotalStaked(Now)' = TotalStaked(Now)
  BY DEF F, Now
<1>3. ASSUME UNCHANGED <<page, chain, queue, up, seen, header>>, marks' = {} => marks = {}
      PROVE  HeaderInv'
  BY <1>2, <1>3 DEF HeaderInv
<1>4. CASE Apply \/ Roll
  <2>1. up' = up /\ (up # "down" => queue' # <<>>)
    BY <1>1, <1>4, MoveIs DEF stream
  <2> QED BY <2>1 DEF HeaderInv
<1>5. CASE Connect
  <2>1. page' = page /\ chain' = chain /\ queue' = queue /\ up' = "header" /\ marks' = marks
    BY <1>5 DEF Connect, world
  <2>2. CASE page.view = "home"
    <3>1. PICK figures \in Figures(cache, Now.epoch) : header' = Stats(Now, figures)
      BY <1>5, <2>2 DEF Connect
    <3>2. Now.epoch \in Nat /\ cache \in Opt(Figure)
      BY <1>1, NowIs DEF StreamInv
    <3>3. Head(figures).figure \in {0, Now.epoch}
      BY <3>1, <3>2, FiguresAre
    <3>4. header' \in [staked : {TotalStaked(Now)}, figure : {0, Now.epoch}]
      BY <3>1, <3>3 DEF Stats
    <3> QED BY <1>2, <2>1, <2>2, <3>4 DEF HeaderInv
  <2>3. CASE page.view # "home"
    <3>1. header' = Watched(F, Now)
      BY <1>5, <2>3 DEF Connect
    <3> QED BY <1>2, <2>1, <2>3, <3>1 DEF HeaderInv
  <2> QED BY <2>2, <2>3
<1>6. CASE Seed
  <2>1. /\ page' = page /\ chain' = chain /\ queue' = queue /\ up = "header" /\ up' = "live"
        /\ marks' = marks /\ header' = header
    BY <1>6 DEF Seed, world
  <2> QED BY <1>2, <2>1 DEF HeaderInv
<1>7. CASE Drop
  BY <1>7 DEF Drop, HeaderInv
<1>8. CASE Handle
  <2> DEFINE event == Head(queue)
  <2>1. page' = page /\ chain' = chain /\ up = "live" /\ up' = up
    BY <1>8 DEF Handle
  <2>2. CASE page.view = "home"
    <3>1. Restat(event) /\ marks' = IF event.block = <<>> THEN {"rolled"} ELSE {}
      BY <1>8, <2>2 DEF Handle
    <3>2. CASE event.block = <<>>
      <4>1. marks' # {}
        BY <3>1, <3>2
      <4> QED BY <2>1, <2>2, <4>1 DEF HeaderInv
    <3>3. CASE event.block # <<>>
      <4>1. PICK figures \in Figures(cache, Now.epoch) : header' = Stats(Now, figures)
        BY <3>1, <3>3 DEF Restat
      <4>2. Now.epoch \in Nat /\ cache \in Opt(Figure)
        BY <1>1, NowIs DEF StreamInv
      <4>3. Head(figures).figure \in {0, Now.epoch}
        BY <4>1, <4>2, FiguresAre
      <4>4. header' \in [staked : {TotalStaked(Now)}, figure : {0, Now.epoch}]
        BY <4>1, <4>3 DEF Stats
      <4> QED BY <1>2, <2>1, <2>2, <4>4 DEF HeaderInv
    <3> QED BY <3>2, <3>3
  <2>3. CASE page.view # "home"
    <3>1. Reheader /\ stage # "none" /\ queue' = Tail(queue) /\ queue # <<>>
      BY <1>8, <2>3 DEF Handle
    <3>2. queue' = <<>> => Len(queue) = 1
      <4>1. queue \in Seq(Event) /\ Len(queue) \in Nat
        BY <1>1, LenNat DEF WorldInv
      <4>2. Len(Tail(queue)) = Len(queue) - 1
        BY <3>1, <4>1
      <4>3. Len(<<>>) = 0
        OBVIOUS
      <4> QED BY <3>1, <4>1, <4>2, <4>3
    <3>3. queue' = <<>> => seen' = Watched(F, Now)
      BY <3>1, <3>2 DEF Reheader, ComparedInv
    <3> QED BY <1>2, <2>1, <2>3, <3>3 DEF HeaderInv
  <2> QED BY <2>2, <2>3
<1>9. CASE Fetch \/ Serve \/ Receive
  <2>1. UNCHANGED <<world, stream>> /\ (marks' = {} => marks = {})
    BY <1>9 DEF Fetch, Serve, Receive
  <2> QED BY <1>3, <2>1 DEF world, stream
<1>10. CASE Fail
  <2>1. UNCHANGED <<page, chain, queue, stream>> /\ marks' # {}
    BY <1>10 DEF Fail
  <2> QED BY <1>3, <2>1 DEF stream
<1>11. CASE CycleSort
  <2>1. UNCHANGED <<page, chain, queue, stream>> /\ page.view # "home"
    BY <1>11 DEF CycleSort, IsGrid
  <2> QED BY <1>2, <2>1 DEF HeaderInv, stream
<1>12. CASE UNCHANGED vars
  BY <1>3, <1>12 DEF vars, world, stream
<1>13. CASE Compare
  <2>1. page' = page /\ queue' = queue /\ queue # <<>>
    BY <1>13 DEF Compare, world
  <2> QED BY <2>1 DEF HeaderInv
<1> QED BY <1>4, <1>5, <1>6, <1>7, <1>8, <1>9, <1>10, <1>11, <1>12, <1>13 DEF Next

\* A header that the stream compares with shows the state once its events are
\* taken, however many blocks the state was ahead of an event (build_live_stream,
\* cardano_stats).
THEOREM HeaderIsTheStates == Spec => []HeaderShowsState
<1>1. Init => TypeInv /\ ComparedInv /\ HeaderInv
  BY InitTyped DEF Init, ComparedInv, HeaderInv
<1>2. (TypeInv /\ ComparedInv /\ HeaderInv) /\ [Next]_vars
        => (TypeInv /\ ComparedInv /\ HeaderInv)'
  BY TypeOfWorld, TypeOfStream, TypeOfGrid, ComparedStep, HeaderStep DEF TypeInv
<1>3. TypeInv /\ ComparedInv /\ HeaderInv => HeaderShowsState
  BY DEF HeaderInv, HeaderShowsState, InStep
<1> QED BY <1>1, <1>2, <1>3, PTL DEF Spec

-----------------------------------------------------------------------------
(* The magnitudes *)

\* Who none of a transaction's moves is of.
LEMMA MovedNone ==
  ASSUME NEW tx \in ResolvedTx, NEW M \in SUBSET Creds, StakeCredentials(tx) \cap M = {}
  PROVE  Moved(tx, M) = 0
<1> DEFINE own == {a \in DOMAIN CredOf : CredOf[a] \in M}
<1>1. tx.ins \in Seq(Addr \X Nat) /\ tx.outs \in Seq(Addr \X Nat) /\ tx.wds \in Seq(Creds \X Nat)
  BY DEF ResolvedTx
<1>2. 0 \notin M
  BY FilterAssumption
<1>3. \A m \in ToSet(tx.ins) \cup ToSet(tx.outs) : CredOf[m[1]] \notin M
  BY <1>2 DEF StakeCredentials
<1>4. \A m \in ToSet(tx.wds) : m[1] \notin M
  BY <1>2 DEF StakeCredentials
<1>5. \A m \in ToSet(tx.ins) \cup ToSet(tx.outs) : m[1] \notin own
  BY <1>3
<1>6. Moved(tx, M) = Amounts(tx.outs, own) - Amounts(tx.ins, own) - Amounts(tx.wds, M)
  BY DEF Moved
<1> HIDE DEF own
<1>7. Amounts(tx.outs, own) = 0
  BY <1>1, <1>5, AmountsNone
<1>8. Amounts(tx.ins, own) = 0
  BY <1>1, <1>5, AmountsNone
<1>9. Amounts(tx.wds, M) = 0
  BY <1>1, <1>4, AmountsNone
<1> QED BY <1>6, <1>7, <1>8, <1>9

LEMMA MovedInt ==
  ASSUME NEW tx \in ResolvedTx, NEW M
  PROVE  Moved(tx, M) \in Int
<1> DEFINE own == {a \in DOMAIN CredOf : CredOf[a] \in M}
<1>1. tx.ins \in Seq(Addr \X Nat) /\ tx.outs \in Seq(Addr \X Nat) /\ tx.wds \in Seq(Creds \X Nat)
  BY DEF ResolvedTx
<1>2. Moved(tx, M) = Amounts(tx.outs, own) - Amounts(tx.ins, own) - Amounts(tx.wds, M)
  BY DEF Moved
<1> HIDE DEF own
<1>3. Amounts(tx.outs, own) \in Nat
  BY <1>1, AmountsNat
<1>4. Amounts(tx.ins, own) \in Nat
  BY <1>1, AmountsNat
<1>5. Amounts(tx.wds, M) \in Nat
  BY <1>1, AmountsNat
<1> QED BY <1>2, <1>3, <1>4, <1>5

LEMMA JoinedNone ==
  ASSUME NEW f, NEW tx, tx.certs = <<>>
  PROVE  Joined(f, tx) = 0
<1> DEFINE Brings(d) == IF d.to = f.id /\ d.from # f.id THEN d.stake
                        ELSE IF d.from = f.id /\ d.to # f.id THEN -d.stake ELSE 0
           s == [i \in DOMAIN tx.certs |-> Brings(tx.certs[i])]
<1>1. s = <<>>
  OBVIOUS
<1>2. SumSeq(<<>>) = 0
  BY SumAppend
<1>3. Joined(f, tx) = 0 \/ Joined(f, tx) = SumSeq(s)
  BY DEF Joined
<1> HIDE DEF s
<1> QED BY <1>1, <1>2, <1>3

\* What a transaction adds to a target moves to those that delegate to it.
LEMMA AddedIs ==
  ASSUME NEW tx \in ResolvedTx, NEW snap, NEW t,
         NEW M, M = {c \in Creds : snap.deleg[c] = t}
  PROVE  Added(t, tx, snap) = Moved(tx, M)
<1> DEFINE own == {a \in DOMAIN CredOf : CredOf[a] \in M}
           mine(cred) == cred # 0 /\ snap.deleg[cred] = t
           so == [i \in DOMAIN tx.outs |-> IF mine(CredOf[tx.outs[i][1]]) THEN tx.outs[i][2] ELSE 0]
           si == [i \in DOMAIN tx.ins |-> IF mine(CredOf[tx.ins[i][1]]) THEN tx.ins[i][2] ELSE 0]
           sw == [i \in DOMAIN tx.wds |-> IF mine(tx.wds[i][1]) THEN tx.wds[i][2] ELSE 0]
<1>1. tx.ins \in Seq(Addr \X Nat) /\ tx.outs \in Seq(Addr \X Nat) /\ tx.wds \in Seq(Creds \X Nat)
  BY DEF ResolvedTx
<1>2. \A c \in Creds \cup {0} : mine(c) <=> c \in M
  BY FilterAssumption
<1>3. \A a \in Addr : CredOf[a] \in Creds \cup {0}
  BY FilterAssumption, ElementIn DEF Addr
<1>4. \A a \in Addr : mine(CredOf[a]) <=> a \in own
  BY <1>2, <1>3 DEF Addr
<1>5. Added(t, tx, snap) = SumSeq(so) - SumSeq(si) - SumSeq(sw)
  BY DEF Added
<1>6. Moved(tx, M) = Amounts(tx.outs, own) - Amounts(tx.ins, own) - Amounts(tx.wds, M)
  BY DEF Moved
<1> HIDE DEF own, mine
<1>7. \A i \in DOMAIN tx.outs : mine(CredOf[tx.outs[i][1]]) <=> tx.outs[i][1] \in own
  <2>1. ASSUME NEW i \in DOMAIN tx.outs PROVE tx.outs[i][1] \in Addr
    <3>1. tx.outs[i] \in Addr \X Nat
      BY <1>1, ElementIn
    <3> QED BY <3>1
  <2> QED BY <1>4, <2>1
<1>8. \A i \in DOMAIN tx.ins : mine(CredOf[tx.ins[i][1]]) <=> tx.ins[i][1] \in own
  <2>1. ASSUME NEW i \in DOMAIN tx.ins PROVE tx.ins[i][1] \in Addr
    <3>1. tx.ins[i] \in Addr \X Nat
      BY <1>1, ElementIn
    <3> QED BY <3>1
  <2> QED BY <1>4, <2>1
<1>9. \A i \in DOMAIN tx.wds : mine(tx.wds[i][1]) <=> tx.wds[i][1] \in M
  <2>1. ASSUME NEW i \in DOMAIN tx.wds PROVE tx.wds[i][1] \in Creds
    <3>1. tx.wds[i] \in Creds \X Nat
      BY <1>1, ElementIn
    <3> QED BY <3>1
  <2> QED BY <1>2, <2>1
<1>10. so = [i \in DOMAIN tx.outs |-> IF tx.outs[i][1] \in own THEN tx.outs[i][2] ELSE 0]
  BY <1>7
<1>11. si = [i \in DOMAIN tx.ins |-> IF tx.ins[i][1] \in own THEN tx.ins[i][2] ELSE 0]
  BY <1>8
<1>12. sw = [i \in DOMAIN tx.wds |-> IF tx.wds[i][1] \in M THEN tx.wds[i][2] ELSE 0]
  BY <1>9
<1> HIDE DEF so, si, sw
<1> QED BY <1>5, <1>6, <1>10, <1>11, <1>12 DEF Amounts

\* A target's magnitude in a block is the largest of its changes.
IsLargest(t, block, snap) ==
  LET f == [kind |-> "drep", id |-> t]
      changes == FilterBlock(f, block, Members(f, snap))
  IN  Magnitude(t, block, snap) = Max({0} \cup {Abs(changes[j]) : j \in DOMAIN changes})

LEMMA MagnitudeIs ==
  ASSUME NEW block \in ResolvedBlk, NEW snap, NEW t \in Targets,
         \A tx \in ToSet(block.txs) : tx.certs = <<>>
  PROVE  IsLargest(t, block, snap)
<1> DEFINE f == [kind |-> "drep", id |-> t]
           M == Members(f, snap)
           changes == FilterBlock(f, block, M)
           J == {j \in DOMAIN block.txs : MatchesTx(f, block.txs[j], M)}
           S == {Abs(Moved(tx, M)) : tx \in ToSet(block.txs)}
           R == {Abs(changes[j]) : j \in DOMAIN changes}
<1>1. Delegates(f) /\ f.kind # "address" /\ f.kind # "pool" /\ f.id = t
  BY DEF Delegates
<1>2. M = {c \in Creds : snap.deleg[c] = t}
  BY <1>1, MembersIs
<1>3. M \in SUBSET Creds
  BY <1>2
<1>4. Magnitude(t, block, snap) = Max({0} \cup S)
  <2> DEFINE A == {Abs(Added(t, tx, snap)) : tx \in ToSet(block.txs)}
  <2>1. \A tx \in ToSet(block.txs) : tx \in ResolvedTx
    BY ElementIn DEF ResolvedBlk, ToSet
  <2>2. \A tx \in ToSet(block.txs) : Added(t, tx, snap) = Moved(tx, M)
    <3> HIDE DEF M
    <3> QED BY <1>2, <2>1, AddedIs
  <2>3. A = S
    BY <2>2
  <2>4. Magnitude(t, block, snap) = Max({0} \cup A)
    BY DEF Magnitude
  <2> HIDE DEF A, S
  <2> QED BY <2>3, <2>4
<1>5. changes = [j \in J |-> StakeChange(f, block.txs[j], M)]
  BY <1>1 DEF FilterBlock, MatchesBlock
<1>0. \A tx : StakeCredentials(tx) \cap M # {} => MatchesTx(f, tx, M)
  BY <1>1 DEF MatchesTx
<1>00. \A tx : StakeChange(f, tx, M) = Moved(tx, M) + Joined(f, tx)
  BY <1>1 DEF StakeChange
<1> HIDE DEF f, M, changes
<1>6. DOMAIN block.txs = 1..Len(block.txs) /\ \A j \in DOMAIN block.txs : block.txs[j] \in ResolvedTx
  <2>1. block.txs \in Seq(ResolvedTx)
    BY DEF ResolvedBlk
  <2> QED BY <2>1, LenNat, ElementIn
<1>7. \A j \in DOMAIN block.txs : block.txs[j] \in ToSet(block.txs)
  BY DEF ToSet
<1>8. ASSUME NEW j \in DOMAIN block.txs PROVE Joined(f, block.txs[j]) = 0
  <2>1. block.txs[j].certs = <<>>
    BY <1>7
  <2> QED BY <2>1, JoinedNone
<1>9. \A j \in J : changes[j] = Moved(block.txs[j], M)
  <2>1. ASSUME NEW j \in J PROVE changes[j] = Moved(block.txs[j], M)
    <3>1. j \in DOMAIN block.txs
      OBVIOUS
    <3>2. changes[j] = Moved(block.txs[j], M) + Joined(f, block.txs[j])
      BY <1>5, <1>00
    <3>3. Moved(block.txs[j], M) \in Int
      BY <1>6, <3>1, MovedInt
    <3> QED BY <1>8, <3>1, <3>2, <3>3
  <2> QED BY <2>1
<1>10. \A j \in (DOMAIN block.txs) \ J : Moved(block.txs[j], M) = 0
  <2>1. ASSUME NEW j \in (DOMAIN block.txs) \ J PROVE Moved(block.txs[j], M) = 0
    <3>1. StakeCredentials(block.txs[j]) \cap M = {}
      BY <1>0
    <3> QED BY <1>3, <1>6, <3>1, MovedNone
  <2> QED BY <2>1
<1>11. DOMAIN changes = J
  BY <1>5
<1>12. Abs(0) = 0
  BY DEF Abs
<1>13. S = {Abs(Moved(block.txs[j], M)) : j \in DOMAIN block.txs}
  BY DEF ToSet
<1>14. R = {Abs(Moved(block.txs[j], M)) : j \in J}
  BY <1>9, <1>11
<1> HIDE DEF S, R
<1>15. J \subseteq DOMAIN block.txs
  OBVIOUS
<1> HIDE DEF J
<1>16. {0} \cup S = {0} \cup R
  <2>1. R \subseteq S
    BY <1>13, <1>14, <1>15
  <2>2. ASSUME NEW j \in DOMAIN block.txs PROVE Abs(Moved(block.txs[j], M)) \in {0} \cup R
    BY <1>10, <1>12, <1>14
  <2> QED BY <1>13, <2>1, <2>2
<1> QED BY <1>4, <1>16 DEF f, M, changes, R, IsLargest

\* What the sink takes for the largest change is the largest that is shown.
THEOREM MagnitudesAreShown == Spec => []MagnitudesAreChanges
<1>1. TypeInv => MagnitudesAreChanges
  <2> SUFFICES ASSUME TypeInv, NEW i \in DOMAIN queue, queue[i].block # <<>>,
                      NEW t \in Targets,
                      \A tx \in ToSet(Head(queue[i].block).txs) : tx.certs = <<>>
               PROVE  IsLargest(t, Head(queue[i].block), chain[queue[i].n - 1])
    BY DEF MagnitudesAreChanges, IsLargest
  <2>1. queue \in Seq(Event)
    BY DEF TypeInv, WorldInv
  <2>2. queue[i] \in Event
    BY <2>1, ElementIn
  <2>3. queue[i].block \in Opt(ResolvedBlk)
    BY <2>2 DEF Event
  <2>4. Head(queue[i].block) \in ResolvedBlk
    BY <2>3, OptIs
  <2> QED BY <2>4, MagnitudeIs
<1> QED BY <1>1, TypeCorrect, PTL

-----------------------------------------------------------------------------
(* What a grid shows *)

Answered(rq) == rq # <<>> /\ ~Head(rq).old /\ Head(rq).reply # <<>>
Answer(rq) == Head(Head(rq).reply)

\* A grid, with the page on its way to it, has tiles of good only, those of
\* goal when there is no more to load, and the first of the listing all.
Shows(tl, cu, mo, rq, good, goal, all) ==
  /\ ToSet(tl) \subseteq good
  /\ ~mo => goal \subseteq Ids(tl)
  /\ First(all, cu) \subseteq Ids(tl)
  /\ Answered(rq) =>
       /\ ToSet(Answer(rq).tiles) \subseteq good
       /\ ~Answer(rq).more => goal \subseteq Ids(tl) \cup Ids(Answer(rq).tiles)
       /\ First(all, Answer(rq).next) \subseteq Ids(tl) \cup Ids(Answer(rq).tiles)

LEMMA ShowsNothing ==
  ASSUME NEW rq, ~Answered(rq), NEW good, NEW goal, NEW all
  PROVE  Shows(<<>>, 0, TRUE, rq, good, goal, all)
<1>1. ToSet(<<>>) = {} /\ Ids(<<>>) = {}
  BY DEF ToSet, Ids
<1>2. First(all, 0) = {}
  BY DEF First
<1> QED BY <1>1, <1>2 DEF Shows

LEMMA ShowsAsked ==
  ASSUME NEW tl, NEW cu, NEW mo, NEW rq, NEW good, NEW goal, NEW all,
         Shows(tl, cu, mo, rq, good, goal, all), NEW rq2, ~Answered(rq2)
  PROVE  Shows(tl, cu, mo, rq2, good, goal, all)
BY DEF Shows

\* A looser claim.
LEMMA ShowsLess ==
  ASSUME NEW tl, NEW cu, NEW mo, NEW rq, NEW good, NEW goal, NEW all,
         Shows(tl, cu, mo, rq, good, goal, all),
         NEW good2, good \subseteq good2, NEW goal2, goal2 \subseteq goal
  PROVE  Shows(tl, cu, mo, rq, good2, goal2, <<>>)
<1>1. \A k : First(<<>>, k) = {}
  BY DEF First
<1> QED BY <1>1 DEF Shows

LEMMA ShowsReceived ==
  ASSUME TypeInv, Receive, NEW good, NEW goal, NEW all,
         Shows(tiles, cursor, more, request, good, goal, all)
  PROVE  Shows(tiles', cursor', more', request', good, goal, all)
<1> DEFINE r == Head(request)
           reply == Head(r.reply)
<1>1. /\ request # <<>> /\ request' = <<>> /\ r.reply # <<>> /\ TileList(reply.tiles)
      /\ IF r.old THEN UNCHANGED <<tiles, cursor, more>>
         ELSE tiles' = AppendFresh(reply.tiles) /\ cursor' = reply.next /\ more' = reply.more
  BY ReceiveIs
<1>2. ~Answered(request')
  BY <1>1 DEF Answered
<1>3. CASE r.old
  BY <1>1, <1>2, <1>3 DEF Shows
<1>4. CASE ~r.old
  <2>1. Answered(request) /\ Answer(request) = reply
    BY <1>1, <1>4 DEF Answered, Answer
  <2>2. TileList(tiles)
    BY DEF TypeInv, GridInv, TileLists, TileList
  <2> HIDE DEF reply
  <2>3. /\ ToSet(AppendFresh(reply.tiles)) \subseteq ToSet(tiles) \cup ToSet(reply.tiles)
        /\ Ids(AppendFresh(reply.tiles)) = Ids(tiles) \cup Ids(reply.tiles)
    BY <1>1, <2>2, FreshIs
  <2>4. tiles' = AppendFresh(reply.tiles) /\ cursor' = reply.next /\ more' = reply.more
    BY <1>1, <1>4
  <2>5. /\ ToSet(tiles) \subseteq good /\ ToSet(reply.tiles) \subseteq good
        /\ ~reply.more => goal \subseteq Ids(tiles) \cup Ids(reply.tiles)
        /\ First(all, reply.next) \subseteq Ids(tiles) \cup Ids(reply.tiles)
    BY <2>1 DEF Shows
  <2> QED BY <1>2, <2>3, <2>4, <2>5 DEF Shows
<1> QED BY <1>3, <1>4

\* A page is read of the listing that the grid has the first of, or from the
\* start.
LEMMA ShowsServed ==
  ASSUME TypeInv, Serve, NEW good, NEW goal, NEW all,
         Shows(tiles, cursor, more, request, good, goal, all),
         RightTiles(Now) \subseteq good, goal \subseteq RightIds(Now),
         all = Listing(Now, order) \/ (Head(request).at = 0 /\ all = <<>>)
  PROVE  Shows(tiles', cursor', more', request', good, goal, all)
<1> DEFINE r == Head(request)
           list == Listing(Now, r.desc)
           last == Max({r.at, Min({r.at + PageSize, Len(list)})})
           page1 == PageOf(list, r, last)
           s == [r EXCEPT !.reply = <<page1>>]
<1>1. /\ request # <<>> /\ r \in Request
      /\ TilesOf(list, RightTiles(Now), RightIds(Now))
      /\ request' = <<s>> /\ s \in Request /\ page1 \in Reply
      /\ IsPage(page1.tiles, list, r.at, last)
      /\ ~page1.more => First(list, last) = Ids(list)
  BY ServeIs
<1>2. UNCHANGED <<tiles, cursor, more>>
  BY DEF Serve
<1>3. page1.next = last
  BY DEF PageOf
<1> HIDE DEF page1, last
<1>4. s.old = r.old /\ s.reply = <<page1>>
  BY <1>1 DEF Request
<1>5. ~r.old => r.at = cursor /\ r.desc = order
  BY <1>1 DEF TypeInv, GridInv
<1> HIDE DEF s, list
<1>6. Answered(request') => ~r.old /\ Answer(request') = page1
  BY <1>1, <1>4 DEF Answered, Answer
<1>7. ToSet(list) = RightTiles(Now) /\ Ids(list) = RightIds(Now)
  BY <1>1 DEF TilesOf
<1>8. /\ ToSet(page1.tiles) \subseteq ToSet(list)
      /\ First(list, last) = First(list, r.at) \cup Ids(page1.tiles)
  BY <1>1 DEF IsPage
<1>9. First(list, 0) = {} /\ \A k : First(<<>>, k) = {}
  BY DEF First
<1>10. ToSet(tiles) \subseteq good /\ (~more => goal \subseteq Ids(tiles))
       /\ First(all, cursor) \subseteq Ids(tiles)
  BY DEF Shows
<1>11. ASSUME ~r.old
       PROVE  /\ First(list, r.at) \subseteq Ids(tiles)
              /\ First(all, last) \subseteq Ids(tiles) \cup Ids(page1.tiles)
  <2>1. r.at = cursor /\ list = Listing(Now, order)
    BY <1>5, <1>11 DEF list
  <2>2. CASE all = Listing(Now, order)
    BY <1>8, <1>10, <2>1, <2>2
  <2>3. CASE r.at = 0 /\ all = <<>>
    BY <1>9, <2>3
  <2> QED BY <2>2, <2>3
<1>12. ASSUME Answered(request')
       PROVE  /\ ToSet(page1.tiles) \subseteq good
              /\ ~page1.more => goal \subseteq Ids(tiles) \cup Ids(page1.tiles)
              /\ First(all, page1.next) \subseteq Ids(tiles) \cup Ids(page1.tiles)
  <2>1. ~r.old
    BY <1>6, <1>12
  <2>2. First(list, r.at) \subseteq Ids(tiles) /\ First(all, last) \subseteq Ids(tiles) \cup Ids(page1.tiles)
    BY <1>11, <2>1
  <2>3. ToSet(page1.tiles) \subseteq good
    BY <1>7, <1>8
  <2>4. ~page1.more => goal \subseteq Ids(tiles) \cup Ids(page1.tiles)
    BY <1>1, <1>7, <1>8, <2>2
  <2> QED BY <1>3, <2>2, <2>3, <2>4
<1> QED BY <1>2, <1>6, <1>10, <1>12 DEF Shows

\* A grid that has nothing.
LEMMA Unstocked ==
  ASSUME TypeInv, ~Stocked
  PROVE  tiles = <<>> /\ cursor = 0 /\ more = TRUE /\ ~Answered(request)
BY DEF Stocked, Loaded, Answered, TypeInv, GridInv

LEMMA ResetIs ==
  ASSUME TypeInv, Reset
  PROVE  tiles' = <<>> /\ cursor' = 0 /\ more' = TRUE /\ ~Answered(request')
<1>1. tiles' = <<>> /\ cursor' = 0 /\ more' = TRUE /\ request' = Superseded
  BY DEF Reset
<1>2. Superseded # <<>> => Head(Superseded).old
  BY SupersededIs DEF TypeInv
<1> QED BY <1>1, <1>2 DEF Answered

\* A grid that shows only the right tiles, and one of each.
LEMMA ShowsAll ==
  ASSUME NEW tl, TileList(tl), NEW good, NEW ids, ToSet(tl) \subseteq good, ids \subseteq Ids(tl),
         \A x \in good : x.id \in ids, \A x, y \in good : x.id = y.id => x = y
  PROVE  ToSet(tl) = good /\ Len(tl) = Cardinality(ids)
<1>1. Ids(tl) = {x.id : x \in ToSet(tl)}
  BY TileListIs
<1>2. Ids(tl) = ids
  BY <1>1
<1>3. ToSet(tl) = good
  <2>1. ASSUME NEW x \in good PROVE x \in ToSet(tl)
    <3>1. PICK y \in ToSet(tl) : y.id = x.id
      BY <1>1
    <3> QED BY <3>1
  <2> QED BY <2>1
<1> QED BY <1>2, <1>3, TileListLen

-----------------------------------------------------------------------------
(* What a block does not touch *)

LEMMA UntouchedIs ==
  ASSUME NEW snap \in Snapshot, NEW block \in Block, Valid(snap, block), block.epoch = snap.epoch,
         NEW slot \in Nat, NEW c \in Creds, c \notin Touched(ResolvedBlock(block, snap))
  PROVE  /\ Live(After(snap, block, slot), c) = Live(snap, c)
         /\ After(snap, block, slot).deleg[c] = snap.deleg[c]
<1> DEFINE next == After(snap, block, slot)
           txs == ToSet(ResolvedBlock(block, snap).txs)
<1>1. next \in Snapshot /\ AfterParts(snap, block, slot, next)
  BY AfterTyped, AfterIs
<1>2. txs = {Resolved(tx, snap) : tx \in ToSet(block.txs)}
  BY ResolvedBlockIs
<1>3. block.txs \in Seq(Transaction)
  BY DEF Block
<1>4. ToSet(block.txs) \subseteq Transaction
  BY <1>3, ElementIn DEF ToSet
<1>5. \A tx \in txs : c \notin StakeCredentials(tx) /\ c \notin {d.cred : d \in ToSet(tx.certs)}
  BY DEF Touched
<1> HIDE DEF txs, next
<1>6. ASSUME NEW tx \in ToSet(block.txs)
      PROVE  /\ \A m \in ToSet(tx.ins) \cup ToSet(tx.outs) : CredOf[m[1]] # c
             /\ \A m \in ToSet(tx.wds) : m[1] # c
             /\ \A d \in ToSet(tx.certs) : d[1] # c
  <2> DEFINE r == Resolved(tx, snap)
  <2>1. tx \in Transaction
    BY <1>4
  <2>2. r.ins = tx.ins /\ r.outs = tx.outs /\ r.wds = tx.wds
        /\ {d.cred : d \in ToSet(r.certs)} = {d[1] : d \in ToSet(tx.certs)}
    BY <2>1, ResolvedIs
  <2>3. c \notin StakeCredentials(r) /\ c \notin {d.cred : d \in ToSet(r.certs)}
    BY <1>2, <1>5
  <2> HIDE DEF r
  <2>4. c # 0
    BY FilterAssumption
  <2>5. \A d \in ToSet(tx.certs) : d[1] # c
    BY <2>2, <2>3
  <2> QED BY <2>2, <2>3, <2>4, <2>5 DEF StakeCredentials
<1>7. /\ {"ins", "outs", "wds", "certs"} \subseteq Fields /\ Raw("ins") = Addr \X Nat
      /\ Raw("outs") = Addr \X Nat /\ Raw("wds") = Creds \X Nat
  BY DEF Fields, Raw
<1>8. All(block, "ins") \in Seq(Addr \X Nat) /\ \A m \in ToSet(All(block, "ins")) : CredOf[m[1]] # c
  <2>1. All(block, "ins") \in Seq(Addr \X Nat)
    BY <1>7, AllIs
  <2>2. \A m \in ToSet(All(block, "ins")) : \E tx \in ToSet(block.txs) : m \in ToSet(tx["ins"])
    BY <1>7, AllIs
  <2> QED BY <1>6, <2>1, <2>2
<1>9. All(block, "outs") \in Seq(Addr \X Nat) /\ \A m \in ToSet(All(block, "outs")) : CredOf[m[1]] # c
  <2>1. All(block, "outs") \in Seq(Addr \X Nat)
    BY <1>7, AllIs
  <2>2. \A m \in ToSet(All(block, "outs")) : \E tx \in ToSet(block.txs) : m \in ToSet(tx["outs"])
    BY <1>7, AllIs
  <2> QED BY <1>6, <2>1, <2>2
<1>10. All(block, "wds") \in Seq(Creds \X Nat) /\ \A m \in ToSet(All(block, "wds")) : m[1] # c
  <2>1. All(block, "wds") \in Seq(Creds \X Nat)
    BY <1>7, AllIs
  <2>2. \A m \in ToSet(All(block, "wds")) : \E tx \in ToSet(block.txs) : m \in ToSet(tx["wds"])
    BY <1>7, AllIs
  <2> QED BY <1>6, <2>1, <2>2
<1>11. \A d \in ToSet(All(block, "certs")) : d[1] # c
  <2>1. \A m \in ToSet(All(block, "certs")) : \E tx \in ToSet(block.txs) : m \in ToSet(tx["certs"])
    BY <1>7, AllIs
  <2> QED BY <1>6, <2>1
<1>12. next.deleg[c] = snap.deleg[c]
  <2>1. Target(snap, block, c) = snap.deleg[c]
    BY <1>11, TargetIs
  <2>2. next.deleg = [d \in Creds |-> Target(snap, block, d)]
    BY <1>1 DEF AfterParts
  <2> QED BY <2>1, <2>2
<1>13. ASSUME NEW a \in Addr, CredOf[a] = c PROVE next.bal[a] = snap.bal[a]
  <2>1. \A m \in ToSet(All(block, "ins")) : m[1] \notin {a}
    BY <1>8, <1>13
  <2>2. \A m \in ToSet(All(block, "outs")) : m[1] \notin {a}
    BY <1>9, <1>13
  <2>3. Amounts(All(block, "ins"), {a}) = 0
    BY <1>8, <2>1, AmountsNone
  <2>4. Amounts(All(block, "outs"), {a}) = 0
    BY <1>9, <2>2, AmountsNone
  <2>5. next.bal[a] = snap.bal[a] + Amounts(All(block, "outs"), {a}) - Amounts(All(block, "ins"), {a})
    BY <1>1 DEF AfterParts
  <2>6. snap.bal[a] \in Nat
    BY DEF Snapshot
  <2> QED BY <2>3, <2>4, <2>5, <2>6
<1>14. next.reward[c] = snap.reward[c]
  <2>1. \A m \in ToSet(All(block, "wds")) : m[1] \notin {c}
    BY <1>10
  <2>2. Amounts(All(block, "wds"), {c}) = 0
    BY <1>10, <2>1, AmountsNone
  <2>3. snap.epoch \in Nat /\ snap.reward[c] \in Nat
    BY DEF Snapshot
  <2>4. ~(block.epoch > snap.epoch)
    BY <2>3
  <2>5. next.reward[c] = snap.reward[c] + 0 - Amounts(All(block, "wds"), {c})
    BY <1>1, <2>4 DEF AfterParts
  <2> QED BY <2>2, <2>3, <2>5
<1>15. StakeOf(next, c) = StakeOf(snap, c)
  <2>1. DOMAIN next.bal = Addr /\ DOMAIN snap.bal = Addr
    BY <1>1 DEF Snapshot
  <2>2. OwnBal(next, c) = OwnBal(snap, c)
    BY <1>13, <2>1 DEF OwnBal
  <2>3. StakeOf(next, c) = SumSeq(OwnBal(next, c)) /\ StakeOf(snap, c) = SumSeq(OwnBal(snap, c))
    BY <1>1, LiveNat
  <2> QED BY <2>2, <2>3
<1> QED BY <1>12, <1>14, <1>15 DEF Live, next

-----------------------------------------------------------------------------
(* The grid of delegators *)

Rolled == Members(F, Now)
Before == Head(prev).members
Hit == Touched(Head(Head(queue).block))

\* The stream is one event behind, and will send what it changes.
Open ==
  /\ Len(queue) = 1 /\ prev # <<>>
  /\ Head(queue).block # <<>> /\ Head(prev).epoch = Now.epoch

Watching == page.view = "delegators" /\ up = "live" /\ prev # <<>>

\* What the stream compares with is the state it last took, and differs from
\* the state only in what the block touched.
PrevInv ==
  Watching =>
    /\ queue = <<>> => Before = Rolled /\ Head(prev).epoch = Now.epoch
    /\ Open => \A c \in Creds \ Hit : c \in Before <=> c \in Rolled

\* What the tiles may be, and have to be: where a block's event has not been
\* taken, as before the block in what it touched.
DelegGood ==
  IF queue = <<>> THEN SetTiles(Now, Rolled)
  ELSE {x \in Tile : x \in SetTiles(Now, Rolled) \/ x.id \in Hit \cap Before}
DelegGoal == IF queue = <<>> THEN Rolled ELSE Rolled \ (Hit \ Before)
DelegList == IF queue = <<>> THEN Listing(Now, order) ELSE <<>>

DelegInv ==
  (page.view = "delegators" /\ marks = {} /\ (queue = <<>> \/ Open)) =>
    Shows(tiles, cursor, more, request, DelegGood, DelegGoal, DelegList)

LEMMA Same ==
  page' = page /\ chain' = chain =>
    F' = F /\ Now' = Now /\ Rolled' = Rolled /\ RightTiles(Now)' = RightTiles(Now)
      /\ SetTiles(Now, Rolled)' = SetTiles(Now, Rolled)
BY DEF F, Now, Rolled, RightTiles

\* Nothing that the claims are about has changed, or there is nothing to show.
LEMMA DelegSame ==
  ASSUME PrevInv, DelegInv, UNCHANGED <<page, chain, queue>>, UNCHANGED <<up, prev>> \/ up' # "live"
  PROVE  PrevInv'
<1>1. F' = F /\ Now' = Now /\ Rolled' = Rolled
  BY Same
<1> QED BY <1>1 DEF PrevInv, Watching, Open, Before, Hit

LEMMA DelegNames ==
  ASSUME UNCHANGED <<page, chain, queue, prev, order>>
  PROVE  /\ Open' = Open /\ DelegGood' = DelegGood /\ DelegGoal' = DelegGoal /\ DelegList' = DelegList
         /\ RightTiles(Now)' = RightTiles(Now)
<1>1. F' = F /\ Now' = Now /\ Rolled' = Rolled /\ SetTiles(Now, Rolled)' = SetTiles(Now, Rolled)
  BY Same
<1>2. Open' = Open /\ Hit' = Hit /\ Before' = Before
  BY <1>1 DEF Open, Hit, Before
<1>3. Listing(Now, order)' = Listing(Now, order)
  BY <1>1 DEF Listing
<1>4. RightTiles(Now)' = RightTiles(Now)
  BY Same
<1> QED BY <1>1, <1>2, <1>3, <1>4 DEF DelegGood, DelegGoal, DelegList

LEMMA DelegBlank ==
  ASSUME tiles' = <<>>, cursor' = 0, more' = TRUE, ~Answered(request')
  PROVE  DelegInv'
<1>1. \A good, goal, all : Shows(<<>>, 0, TRUE, request', good, goal, all)
  BY ShowsNothing
<1>2. Shows(tiles', cursor', more', request', DelegGood', DelegGoal', DelegList')
  BY <1>1
<1> QED BY <1>2 DEF DelegInv

LEMMA DelegMove ==
  ASSUME TypeInv, PrevInv, DelegInv, Apply \/ Roll
  PROVE  PrevInv' /\ DelegInv'
<1>0. WorldInv /\ StreamInv /\ GridInv
  BY DEF TypeInv
<1>1. /\ page' = page /\ UNCHANGED <<stream, grid>>
      /\ IF up = "down" THEN queue' = queue
         ELSE queue' # <<>> /\ Len(queue') = Len(queue) + 1
      /\ marks \subseteq marks' /\ (marks' # marks => marks' = marks \cup {"gap"})
      /\ up = "down" /\ Stocked => "gap" \in marks'
  BY <1>0, MoveIs
<1>2. CASE up = "down"
  <2>0. up' # "live"
    BY <1>1, <1>2 DEF stream
  <2>1. PrevInv'
    <3>1. ~Watching'
      BY <2>0 DEF Watching
    <3> QED BY <3>1 DEF PrevInv
  <2>2. CASE Stocked
    BY <1>1, <1>2, <2>1, <2>2 DEF DelegInv
  <2>3. CASE ~Stocked
    <3>1. tiles' = <<>> /\ cursor' = 0 /\ more' = TRUE /\ ~Answered(request')
      BY <1>1, <2>3, Unstocked DEF grid
    <3> QED BY <2>1, <3>1, DelegBlank
  <2> QED BY <2>1, <2>2, <2>3
<1>3. CASE up # "down" /\ ~(page.view = "delegators" /\ Open')
  <2>1. page'.view = page.view /\ queue' # <<>>
    BY <1>1, <1>3
  <2> QED BY <1>3, <2>1 DEF PrevInv, Watching, DelegInv
<1>4. CASE up # "down" /\ page.view = "delegators" /\ Open'
  <2>1. Len(queue') = 1 /\ prev' = prev /\ prev # <<>> /\ Head(queue').block # <<>>
        /\ Head(prev).epoch = Now'.epoch /\ queue' # <<>>
    BY <1>1, <1>4 DEF Open, stream
  <2>2. queue \in Seq(Event) /\ Len(queue) \in Nat
    BY <1>0 DEF WorldInv
  <2>3. Len(queue) = 0
    BY <1>1, <1>4, <2>1, <2>2
  <2>4. queue = <<>>
    BY <2>2, <2>3
  <2>5. up = "live"
    BY <1>0, <1>4, <2>1 DEF StreamInv
  <2>6. Before = Rolled /\ Head(prev).epoch = Now.epoch
    BY <1>4, <2>1, <2>4, <2>5 DEF PrevInv, Watching
  <2>7. CASE Roll
    <3>1. PICK n : Move([n |-> n, block |-> <<>>, was |-> 0])
      BY <2>7 DEF Roll
    <3>2. queue' = <<[n |-> n, block |-> <<>>, was |-> 0]>>
      BY <1>4, <2>4, <3>1 DEF Move
    <3> QED BY <2>1, <3>2
  <2>8. CASE Apply
    <3>1. PICK block \in Blocks[page.view] :
            /\ Valid(Now, block)
            /\ chain' = Append(chain, After(Now, block, Len(chain)))
            /\ Move([n |-> Len(chain) + 1, block |-> <<ResolvedBlock(block, Now)>>, was |-> Now.epoch])
      BY <2>8 DEF Apply
    <3> DEFINE rb == ResolvedBlock(block, Now)
               next == After(Now, block, Len(chain))
               event == [n |-> Len(chain) + 1, block |-> <<rb>>, was |-> Now.epoch]
    <3>2. block \in Block
      BY <1>0, ViewsAssumption DEF WorldInv
    <3>3. Now \in Snapshot /\ Len(chain) \in Nat
      BY <1>0, NowIs
    <3>4. next \in Snapshot
      BY <3>1, <3>2, <3>3, AfterTyped
    <3>5. Now' = next
      <4>1. chain \in Seq(Snapshot)
        BY <1>0 DEF WorldInv
      <4> HIDE DEF next
      <4>2. Len(Append(chain, next)) = Len(chain) + 1 /\ Append(chain, next)[Len(chain) + 1] = next
        BY <3>4, <4>1, AppendIs
      <4>3. chain' = Append(chain, next)
        BY <3>1 DEF next
      <4>4. Now' = chain'[Len(chain')]
        BY DEF Now, Last
      <4> QED BY <4>2, <4>3, <4>4
    <3>6. queue' = <<event>>
      BY <1>4, <2>4, <3>1 DEF Move
    <3>7. Hit' = Touched(rb)
      <4>1. Head(queue') = event /\ event.block = <<rb>> /\ Head(<<rb>>) = rb
        BY <3>6
      <4> HIDE DEF event, rb
      <4>2. Hit' = Touched(Head(Head(queue').block))
        BY DEF Hit
      <4> QED BY <4>1, <4>2
    <3>8. block.epoch = Now.epoch
      <4>1. next.epoch = block.epoch
        BY DEF After
      <4> QED BY <2>1, <2>6, <3>5, <4>1
    <3>9. \A c \in Creds \ Touched(rb) : Live(next, c) = Live(Now, c) /\ next.deleg[c] = Now.deleg[c]
      BY <3>1, <3>2, <3>3, <3>8, UntouchedIs
    <3>10. F' = F /\ Delegates(F)
      BY <1>0, <1>1, <1>4, PageIsOne DEF F
    <3>11. Rolled = {c \in Creds : Now.deleg[c] = F.id} /\ Rolled' = {c \in Creds : next.deleg[c] = F.id}
      <4>1. Members(F, Now) = {c \in Creds : Now.deleg[c] = F.id}
        BY <3>10, MembersIs
      <4>2. Members(F, next) = {c \in Creds : next.deleg[c] = F.id}
        BY <3>10, MembersIs
      <4> QED BY <3>5, <3>10, <4>1, <4>2 DEF Rolled
    <3> HIDE DEF rb, next, event
    <3>12. Before' = Before
      BY <2>1 DEF Before
    <3>13. \A c \in Creds \ Hit' : c \in Before' <=> c \in Rolled'
      BY <2>6, <3>7, <3>9, <3>11, <3>12
    <3>14. PrevInv'
      BY <2>1, <3>13 DEF PrevInv, Watching
    <3>15. ASSUME marks' = {} PROVE Shows(tiles', cursor', more', request', DelegGood', DelegGoal', DelegList')
      <4> DEFINE G == SetTiles(Now, Rolled)
                 G2 == {x \in Tile : x \in SetTiles(next, Rolled') \/ x.id \in Hit' \cap Before'}
                 J2 == Rolled' \ (Hit' \ Before')
      <4>1. marks = {} /\ UNCHANGED <<tiles, cursor, more, request>>
        BY <1>1, <3>15 DEF grid
      <4>2. Shows(tiles, cursor, more, request, G, Rolled, Listing(Now, order))
        BY <1>4, <2>4, <4>1 DEF DelegInv, DelegGood, DelegGoal, DelegList
      <4>3. G \subseteq Tile
        BY <3>3, <3>11, SetTilesAre
      <4>4. G \subseteq G2
        <5>1. ASSUME NEW c \in Rolled PROVE DelegatorTile(Now, c) \in G2
          <6>1. c \in Creds /\ c \in Before /\ DelegatorTile(Now, c) \in Tile
            BY <2>6, <3>11, <4>3 DEF SetTiles
          <6>2. CASE c \in Hit'
            <7>1. DelegatorTile(Now, c).id = c
              BY DEF DelegatorTile
            <7> QED BY <3>12, <6>1, <6>2, <7>1
          <6>3. CASE c \notin Hit'
            <7>1. c \in Rolled' /\ Live(next, c) = Live(Now, c)
              BY <3>7, <3>9, <3>11, <6>1, <6>3
            <7>2. DelegatorTile(Now, c) = DelegatorTile(next, c)
              BY <7>1 DEF DelegatorTile
            <7>3. DelegatorTile(Now, c) \in SetTiles(next, Rolled')
              BY <7>1, <7>2 DEF SetTiles
            <7> QED BY <6>1, <7>3
          <6> QED BY <6>2, <6>3
        <5> HIDE DEF G2
        <5> QED BY <5>1 DEF SetTiles
      <4>5. J2 \subseteq Rolled
        BY <2>6, <3>11, <3>12, <3>13
      <4>6. DelegGood' = G2 /\ DelegGoal' = J2 /\ DelegList' = <<>>
        <5>1. SetTiles(Now, Rolled)' = SetTiles(next, Rolled')
          BY <3>5
        <5> QED BY <2>1, <5>1 DEF DelegGood, DelegGoal, DelegList
      <4> HIDE DEF G, G2, J2
      <4>7. Shows(tiles, cursor, more, request, G2, J2, <<>>)
        BY <4>2, <4>4, <4>5, ShowsLess
      <4> QED BY <4>1, <4>6, <4>7
    <3>16. DelegInv'
      BY <3>15 DEF DelegInv
    <3> QED BY <3>14, <3>16
  <2> QED BY <2>7, <2>8
<1> QED BY <1>2, <1>3, <1>4

\* A step that leaves the state, the events and the stream, and the claims.
LEMMA DelegKept ==
  ASSUME DelegInv, UNCHANGED <<page, chain, queue, prev, order>>, marks' = {} => marks = {},
         \A good, goal, all : Shows(tiles, cursor, more, request, good, goal, all)
                                => Shows(tiles', cursor', more', request', good, goal, all)
  PROVE  DelegInv'
<1>1. /\ Open' = Open /\ DelegGood' = DelegGood /\ DelegGoal' = DelegGoal /\ DelegList' = DelegList
  BY DelegNames
<1>2. ASSUME page'.view = "delegators", marks' = {}, queue' = <<>> \/ Open'
      PROVE  Shows(tiles', cursor', more', request', DelegGood', DelegGoal', DelegList')
  <2>1. page.view = "delegators" /\ marks = {} /\ (queue = <<>> \/ Open)
    BY <1>1, <1>2
  <2>2. Shows(tiles, cursor, more, request, DelegGood, DelegGoal, DelegList)
    BY <2>1 DEF DelegInv
  <2>3. Shows(tiles', cursor', more', request', DelegGood, DelegGoal, DelegList)
    BY <2>2
  <2> QED BY <1>1, <2>3
<1> QED BY <1>2 DEF DelegInv

\* A delta on the tiles makes them those of the state.
LEMMA DelegPatched ==
  ASSUME TypeInv, page.view = "delegators", Open, up = "live", PrevInv,
         tiles' = Patch(Hit \cap (Before \ Rolled), SetTiles(Now, Hit \cap Before \cap Rolled),
                        SetTiles(Now, Hit \cap (Rolled \ Before))),
         Shows(tiles, cursor, more, request, DelegGood, DelegGoal, DelegList),
         ~Answered(request), ~(more /\ Loaded)
  PROVE  Shows(tiles', cursor, more, request, SetTiles(Now, Rolled), Rolled, Listing(Now, order))
<1> DEFINE B == Before
           M == Rolled
           H == Hit
           T == SetTiles(Now, M)
           removed == H \cap (B \ M)
           updated == SetTiles(Now, H \cap B \cap M)
           added == SetTiles(Now, H \cap (M \ B))
           list == Listing(Now, order)
<1>1. WorldInv /\ TileList(tiles) /\ order \in BOOLEAN /\ cursor \in Nat
  BY DEF TypeInv, GridInv, TileLists, TileList
<1>2. Now \in Snapshot /\ Delegates(F)
  BY <1>1, NowIs, PageIsOne
<1>3. M \in SUBSET Creds
  BY <1>2, MembersIs DEF Rolled
<1>4. \A c \in Creds \ H : c \in B <=> c \in M
  BY DEF PrevInv, Watching, Open
<1>5. queue # <<>>
  <2>1. CASE queue = <<>>
    BY <2>1 DEF Open
  <2> QED BY <2>1
<1>6. /\ ToSet(tiles) \subseteq {x \in Tile : x \in T \/ x.id \in H \cap B}
      /\ ~more => M \ (H \ B) \subseteq Ids(tiles)
  BY <1>5 DEF Shows, DelegGood, DelegGoal
<1>7. TilesOf(list, T, M)
  <2>1. TilesOf(list, RightTiles(Now), RightIds(Now))
    BY <1>1, ListingIs
  <2> QED BY <2>1 DEF RightTiles, RightIds, Rolled
<1>8. /\ T \subseteq Tile /\ {x.id : x \in T} = M
      /\ \A C \in SUBSET M : SetTiles(Now, C) \subseteq T
  <2>1. T \subseteq Tile /\ {x.id : x \in T} = M
    BY <1>2, <1>3, SetTilesAre
  <2>2. \A C \in SUBSET M : SetTiles(Now, C) \subseteq T
    BY DEF SetTiles
  <2> QED BY <2>1, <2>2
<1>9. /\ added \subseteq Tile /\ IsFiniteSet(added) /\ {x.id : x \in added} = H \cap (M \ B)
      /\ \A x, y \in added : x.id = y.id => x = y
  <2>1. H \cap (M \ B) \in SUBSET Creds
    BY <1>3
  <2> QED BY <1>2, <2>1, SetTilesAre
<1>10. updated \subseteq Tile /\ {x.id : x \in updated} = H \cap B \cap M
  <2>1. H \cap B \cap M \in SUBSET Creds
    BY <1>3
  <2> QED BY <1>2, <2>1, SetTilesAre
<1>11. updated \subseteq T /\ added \subseteq T
  <2>1. H \cap B \cap M \in SUBSET M /\ H \cap (M \ B) \in SUBSET M
    OBVIOUS
  <2> QED BY <1>8, <2>1
<1>12. tiles' = Patch(removed, updated, added)
  OBVIOUS
<1> HIDE DEF updated, added, T, list
<1>13. /\ TileList(tiles') /\ Ids(tiles') = (Ids(tiles) \ removed) \cup (H \cap (M \ B))
       /\ \A x \in ToSet(tiles') : Patched(x, removed, updated, added)
  <2> HIDE DEF removed
  <2>1. TileList(tiles)
    BY <1>1
  <2>2. updated \subseteq Tile
    BY <1>10
  <2>3. /\ TileList(Patch(removed, updated, added))
        /\ Ids(Patch(removed, updated, added)) = (Ids(tiles) \ removed) \cup {x.id : x \in added}
        /\ \A x \in ToSet(Patch(removed, updated, added)) : Patched(x, removed, updated, added)
    BY <1>9, <2>1, <2>2, PatchIs
  <2> QED BY <1>9, <1>12, <2>3
<1>14. Ids(tiles) = {x.id : x \in ToSet(tiles)}
  BY <1>1, TileListIs
<1>15. ToSet(tiles') \subseteq T
  <2>1. ASSUME NEW x \in ToSet(tiles'), x \notin added PROVE x \in T
    <3>1. /\ x.id \in Ids(tiles) \ removed
          /\ IF \E u \in updated : u.id = x.id THEN x \in updated ELSE x \in ToSet(tiles)
      BY <1>13, <2>1 DEF Patched
    <3>2. CASE \E u \in updated : u.id = x.id
      BY <1>11, <3>1, <3>2
    <3>3. CASE ~\E u \in updated : u.id = x.id
      <4>1. x \in ToSet(tiles) /\ x.id \notin H \cap B \cap M
        BY <1>10, <3>1, <3>3
      <4>2. x \in T \/ x.id \in H \cap B
        BY <1>6, <4>1
      <4> QED BY <3>1, <4>1, <4>2
    <3> QED BY <3>2, <3>3
  <2> QED BY <1>11, <2>1
<1>16. ~more => M \subseteq Ids(tiles')
  BY <1>6, <1>13
<1>17. First(list, cursor) \subseteq Ids(tiles')
  <2>1. CASE more
    <3>1. cursor = 0
      BY <2>1 DEF Loaded
    <3> QED BY <3>1 DEF First
  <2>2. CASE ~more
    <3>1. DOMAIN list = 1..Len(list) /\ Ids(list) = M
      BY <1>7, TileListIs DEF TilesOf
    <3>2. First(list, cursor) \subseteq Ids(list)
      BY <3>1 DEF First, Ids
    <3> QED BY <1>16, <2>2, <3>1, <3>2
  <2> QED BY <2>1, <2>2
<1> QED BY <1>15, <1>16, <1>17 DEF Shows, T, list

LEMMA DelegHandle ==
  ASSUME TypeInv, PrevInv, DelegInv, Handle
  PROVE  PrevInv' /\ DelegInv'
<1>1. /\ page' = page /\ chain' = chain /\ up = "live" /\ queue # <<>> /\ queue' = Tail(queue)
  BY DEF Handle
<1>2. F' = F /\ Now' = Now /\ Rolled' = Rolled /\ SetTiles(Now, Rolled)' = SetTiles(Now, Rolled)
  BY <1>1, Same
<1>3. CASE page.view # "delegators"
  BY <1>1, <1>3 DEF PrevInv, Watching, DelegInv
<1>4. CASE page.view = "delegators"
  <2> DEFINE event == Head(queue)
  <2>1. DelegatorDelta(event)
    BY <1>4 DEF Handle
  <2>2. prev' = <<[members |-> Rolled, epoch |-> Now.epoch]>> /\ order' = order
    BY <2>1 DEF DelegatorDelta, Rolled
  <2>3. Head(prev').members = Rolled /\ Head(prev').epoch = Now.epoch
    BY <2>2
  <2>4. Before' = Rolled'
    BY <1>2, <2>3 DEF Before
  <2>5. Head(prev').epoch = Now'.epoch
    BY <1>2, <2>3
  <2>6. PrevInv'
    BY <2>4, <2>5 DEF PrevInv
  <2>7. CASE prev = <<>>
    <3>1. UNCHANGED <<tiles, cursor, more, request>> /\ marks' = marks \cup IF Stocked THEN {"first"} ELSE {}
      BY <2>1, <2>7 DEF DelegatorDelta
    <3>2. CASE Stocked
      <4>1. marks' # {}
        BY <3>1, <3>2
      <4> QED BY <2>6, <4>1 DEF DelegInv
    <3>3. CASE ~Stocked
      <4>1. tiles' = <<>> /\ cursor' = 0 /\ more' = TRUE /\ ~Answered(request')
        BY <3>1, <3>3, Unstocked
      <4> QED BY <2>6, <4>1, DelegBlank
    <3> QED BY <3>2, <3>3
  <2>8. CASE prev # <<>> /\ (event.block = <<>> \/ Head(prev).epoch # Now.epoch)
    <3>1. Reset
      BY <2>1, <2>8 DEF DelegatorDelta
    <3>2. tiles' = <<>> /\ cursor' = 0 /\ more' = TRUE /\ ~Answered(request')
      BY <3>1, ResetIs
    <3> QED BY <2>6, <3>2, DelegBlank
  <2>9. CASE prev # <<>> /\ event.block # <<>> /\ Head(prev).epoch = Now.epoch
    <3>1. /\ tiles' = Patch(Hit \cap (Before \ Rolled), SetTiles(Now, Hit \cap Before \cap Rolled),
                            SetTiles(Now, Hit \cap (Rolled \ Before)))
          /\ marks' = marks \cup DeltaMarks(event)
          /\ UNCHANGED <<cursor, more, request>>
      BY <2>1, <2>9 DEF DelegatorDelta, Hit, Before, Rolled
    <3>2. ASSUME marks' = {} PROVE Shows(tiles', cursor', more', request', DelegGood', DelegGoal', DelegList')
      <4>1. marks = {} /\ DeltaMarks(event) = {}
        BY <3>1, <3>2
      <4>2. ~(Len(queue) > 1) /\ ~(request # <<>> /\ Head(request).reply # <<>>) /\ ~(more /\ Loaded)
        BY <4>1 DEF DeltaMarks
      <4>3. queue \in Seq(Event) /\ Len(queue) \in Nat
        BY LenNat DEF TypeInv, WorldInv
      <4>4. Len(queue) # 0
        <5>1. queue # <<>>
          BY <1>1
        <5> QED BY <4>3, <5>1
      <4>5. Len(queue) = 1
        <5>1. ~(Len(queue) > 1) /\ Len(queue) \in Nat
          BY <4>2, <4>3
        <5> QED BY <4>4, <5>1
      <4>6. queue' = <<>>
        <5>1. queue' \in Seq(Event) /\ Len(queue') = 0
          BY <1>1, <4>3, <4>5
        <5> QED BY <5>1
      <4>7. Open
        BY <2>9, <4>5 DEF Open
      <4>8. Shows(tiles, cursor, more, request, DelegGood, DelegGoal, DelegList)
        BY <1>4, <4>1, <4>7 DEF DelegInv
      <4>9. ~Answered(request)
        BY <4>2 DEF Answered
      <4>10. Shows(tiles', cursor, more, request, SetTiles(Now, Rolled), Rolled, Listing(Now, order))
        BY <1>1, <1>4, <3>1, <4>2, <4>7, <4>8, <4>9, DelegPatched
      <4>11. Listing(Now, order)' = Listing(Now, order)
        BY <1>1, <1>2, <2>2 DEF Listing
      <4>12. DelegGood' = SetTiles(Now, Rolled) /\ DelegGoal' = Rolled /\ DelegList' = Listing(Now, order)
        BY <1>2, <4>6, <4>11 DEF DelegGood, DelegGoal, DelegList
      <4> QED BY <3>1, <4>10, <4>12
    <3> QED BY <2>6, <3>2 DEF DelegInv
  <2> QED BY <2>7, <2>8, <2>9
<1> QED BY <1>3, <1>4

LEMMA DelegServe ==
  ASSUME TypeInv, DelegInv, Serve
  PROVE  DelegInv'
<1>1. UNCHANGED <<page, chain, queue, prev, order>> /\ marks \subseteq marks'
  BY DEF Serve, world, stream
<1>2. /\ Open' = Open /\ DelegGood' = DelegGood /\ DelegGoal' = DelegGoal /\ DelegList' = DelegList
  BY <1>1, DelegNames
<1>3. ASSUME page.view = "delegators", marks' = {}, queue = <<>> \/ Open
      PROVE  Shows(tiles', cursor', more', request', DelegGood', DelegGoal', DelegList')
  <2>1. marks = {}
    BY <1>1, <1>3
  <2>2. Shows(tiles, cursor, more, request, DelegGood, DelegGoal, DelegList)
    BY <1>3, <2>1 DEF DelegInv
  <2>3. RightTiles(Now) = SetTiles(Now, Rolled) /\ RightIds(Now) = Rolled
    BY <1>3 DEF RightTiles, RightIds, Rolled
  <2>4. SetTiles(Now, Rolled) \subseteq Tile
    <3>1. WorldInv
      BY DEF TypeInv
    <3>2. Now \in Snapshot /\ Delegates(F)
      BY <1>3, <3>1, NowIs, PageIsOne
    <3>3. Rolled \in SUBSET Creds
      BY <3>2, MembersIs DEF Rolled
    <3> QED BY <3>2, <3>3, SetTilesAre
  <2>5. RightTiles(Now) \subseteq DelegGood /\ DelegGoal \subseteq RightIds(Now)
    BY <2>3, <2>4 DEF DelegGood, DelegGoal
  <2>6. DelegList = Listing(Now, order) \/ (Head(request).at = 0 /\ DelegList = <<>>)
    <3>1. CASE queue = <<>>
      BY <3>1 DEF DelegList
    <3>2. CASE queue # <<>>
      <4>1. ~(Head(request).at > 0)
        BY <1>3, <3>2 DEF Serve
      <4>2. Head(request) \in Request
        BY ServeIs
      <4>3. Head(request).at = 0
        BY <4>1, <4>2 DEF Request
      <4> QED BY <3>2, <4>3 DEF DelegList
    <3> QED BY <3>1, <3>2
  <2>7. Shows(tiles', cursor', more', request', DelegGood, DelegGoal, DelegList)
    BY <2>2, <2>5, <2>6, ShowsServed
  <2> QED BY <1>2, <2>7
<1> QED BY <1>1, <1>2, <1>3 DEF DelegInv

LEMMA DelegStep ==
  ASSUME TypeInv, PrevInv, DelegInv, [Next]_vars
  PROVE  PrevInv' /\ DelegInv'
<1>1. CASE Apply \/ Roll
  BY <1>1, DelegMove
<1>2. CASE Handle
  BY <1>2, DelegHandle
<1>3. CASE Connect
  <2>1. UNCHANGED <<page, chain, queue, grid, marks>> /\ prev' = <<>>
    BY <1>3 DEF Connect, world
  <2>2. PrevInv'
    BY <2>1 DEF PrevInv, Watching
  <2>3. up = "down" /\ queue = <<>>
    BY <1>3 DEF Connect, TypeInv, StreamInv
  <2>4. F' = F /\ Now' = Now /\ Rolled' = Rolled /\ SetTiles(Now, Rolled)' = SetTiles(Now, Rolled)
    BY <2>1, Same
  <2>5. UNCHANGED <<tiles, cursor, more, request, order>>
    BY <2>1 DEF grid
  <2>6. Listing(Now, order)' = Listing(Now, order)
    BY <2>1, <2>4, <2>5 DEF Listing
  <2>7. DelegGood' = DelegGood /\ DelegGoal' = DelegGoal /\ DelegList' = DelegList
    BY <2>1, <2>3, <2>4, <2>6 DEF DelegGood, DelegGoal, DelegList
  <2>8. DelegInv'
    BY <2>1, <2>3, <2>5, <2>7 DEF DelegInv
  <2> QED BY <2>2, <2>8
<1>4. CASE Seed
  <2>1. UNCHANGED <<page, chain, queue, prev, grid, marks>> /\ up = "header"
    BY <1>4 DEF Seed, world
  <2>2. prev = <<>>
    BY <2>1 DEF TypeInv, StreamInv
  <2>3. PrevInv'
    BY <2>1, <2>2 DEF PrevInv, Watching
  <2>4. UNCHANGED <<tiles, cursor, more, request, order>>
    BY <2>1 DEF grid
  <2>5. DelegInv'
    BY <2>1, <2>4, DelegKept
  <2> QED BY <2>3, <2>5
<1>5. CASE Drop
  <2>1. UNCHANGED <<page, chain, prev, grid>> /\ up' = "down" /\ queue' = <<>>
    BY <1>5 DEF Drop
  <2>2. PrevInv'
    BY <2>1 DEF PrevInv, Watching
  <2>3. UNCHANGED <<tiles, cursor, more, request, order>>
    BY <2>1 DEF grid
  <2>4. CASE ~Stocked
    <3>1. tiles' = <<>> /\ cursor' = 0 /\ more' = TRUE /\ ~Answered(request')
      BY <2>3, <2>4, Unstocked
    <3> QED BY <2>2, <3>1, DelegBlank
  <2>5. CASE queue = <<>>
    <3>1. page.view = "delegators" /\ marks' = {} => marks = {}
      BY <1>5 DEF Drop, IsGrid
    <3>2. CASE page.view = "delegators"
      <4>1. DelegInv'
        BY <2>1, <2>3, <2>5, <3>1, <3>2, DelegKept
      <4> QED BY <2>2, <4>1
    <3>3. CASE page.view # "delegators"
      BY <2>1, <2>2, <3>3 DEF DelegInv
    <3> QED BY <3>2, <3>3
  <2>6. CASE Stocked /\ queue # <<>>
    <3>1. page.view = "delegators" => marks' # {}
      BY <1>5, <2>6 DEF Drop, IsGrid
    <3> QED BY <2>1, <2>2, <3>1 DEF DelegInv
  <2> QED BY <2>4, <2>5, <2>6
<1>6. CASE Fetch
  <2>1. UNCHANGED <<page, chain, queue, up, prev, tiles, cursor, more, order, marks>>
    BY <1>6 DEF Fetch, world, stream
  <2>2. ~Answered(request')
    <3>1. request' = <<[at |-> cursor, desc |-> order, old |-> FALSE, reply |-> <<>>]>>
      BY <1>6 DEF Fetch
    <3>2. Head(request').reply = <<>>
      BY <3>1
    <3> QED BY <3>2 DEF Answered
  <2>3. \A good, goal, all : Shows(tiles, cursor, more, request, good, goal, all)
          => Shows(tiles', cursor', more', request', good, goal, all)
    BY <2>1, <2>2, ShowsAsked
  <2>4. DelegInv'
    BY <2>1, <2>3, DelegKept
  <2>5. PrevInv'
    BY <2>1, DelegSame
  <2> QED BY <2>4, <2>5
<1>7. CASE Serve
  <2>1. UNCHANGED <<page, chain, queue, up, prev>>
    BY <1>7 DEF Serve, world, stream
  <2> QED BY <1>7, <2>1, DelegServe, DelegSame
<1>8. CASE Receive
  <2>1. UNCHANGED <<page, chain, queue, up, prev, order, marks>>
    BY <1>8 DEF Receive, world, stream
  <2>2. \A good, goal, all : Shows(tiles, cursor, more, request, good, goal, all)
          => Shows(tiles', cursor', more', request', good, goal, all)
    BY <1>8, ShowsReceived
  <2>3. DelegInv'
    BY <2>1, <2>2, DelegKept
  <2>4. PrevInv'
    BY <2>1, DelegSame
  <2> QED BY <2>3, <2>4
<1>9. CASE Fail
  <2>1. UNCHANGED <<page, chain, queue, stream>> /\ marks' # {}
    BY <1>9 DEF Fail
  <2>2. UNCHANGED <<page, chain, queue, up, prev>>
    BY <2>1 DEF stream
  <2>3. DelegInv'
    BY <2>1 DEF DelegInv
  <2>4. PrevInv'
    BY <2>2, DelegSame
  <2> QED BY <2>3, <2>4
<1>10. CASE CycleSort
  <2>1. UNCHANGED <<page, chain, queue, stream>> /\ Reset
    BY <1>10 DEF CycleSort
  <2>2. UNCHANGED <<page, chain, queue, up, prev>>
    BY <2>1 DEF stream
  <2>3. tiles' = <<>> /\ cursor' = 0 /\ more' = TRUE /\ ~Answered(request')
    BY <2>1, ResetIs
  <2>4. DelegInv'
    BY <2>3, DelegBlank
  <2>5. PrevInv'
    BY <2>2, DelegSame
  <2> QED BY <2>4, <2>5
<1>11. CASE UNCHANGED vars
  <2>1. UNCHANGED <<page, chain, queue, up, prev, tiles, cursor, more, request, order, marks>>
    BY <1>11 DEF vars, world, stream, grid
  <2>2. DelegInv'
    BY <2>1, DelegKept
  <2>3. PrevInv'
    BY <2>1, DelegSame
  <2> QED BY <2>2, <2>3
<1>12. CASE Compare
  <2>1. UNCHANGED <<page, chain, queue, up, prev, tiles, cursor, more, request, order, marks>>
    BY <1>12 DEF Compare, world, grid
  <2>2. DelegInv'
    BY <2>1, DelegKept
  <2>3. PrevInv'
    BY <2>1, DelegSame
  <2> QED BY <2>2, <2>3
<1> QED BY <1>1, <1>2, <1>3, <1>4, <1>5, <1>6, <1>7, <1>8, <1>9, <1>10, <1>11, <1>12 DEF Next

\* The grid of delegators, loaded page by page and patched by deltas, never shows
\* one twice, and complete it shows each of the subject's delegators with its live
\* stake (delegator_delta_event, handleLive, loadMore, resetAndReload).
THEOREM DelegatorsAreShown == Spec => []GridShowsDelegators
<1>1. Init => TypeInv /\ PrevInv /\ DelegInv
  <2> SUFFICES ASSUME Init PROVE TypeInv /\ PrevInv /\ DelegInv
    OBVIOUS
  <2>1. TypeInv
    BY InitTyped
  <2>2. PrevInv
    BY DEF Init, PrevInv, Watching
  <2>3. tiles = <<>> /\ cursor = 0 /\ more = TRUE /\ ~Answered(request)
    BY DEF Init, Answered
  <2>4. \A good, goal, all : Shows(<<>>, 0, TRUE, request, good, goal, all)
    BY <2>3, ShowsNothing
  <2>5. Shows(tiles, cursor, more, request, DelegGood, DelegGoal, DelegList)
    BY <2>3, <2>4
  <2> QED BY <2>1, <2>2, <2>5 DEF DelegInv
<1>2. (TypeInv /\ PrevInv /\ DelegInv) /\ [Next]_vars => (TypeInv /\ PrevInv /\ DelegInv)'
  <2> SUFFICES ASSUME TypeInv, PrevInv, DelegInv, [Next]_vars
               PROVE  (TypeInv /\ PrevInv /\ DelegInv)'
    OBVIOUS
  <2>1. TypeInv'
    BY TypeOfWorld, TypeOfStream, TypeOfGrid DEF TypeInv
  <2> QED BY <2>1, DelegStep
<1>3. TypeInv /\ PrevInv /\ DelegInv => GridShowsDelegators
  <2>0. TypeInv => Len(tiles) = Cardinality(Ids(tiles))
    BY TileListLen DEF TypeInv, GridInv, TileLists, TileList
  <2> SUFFICES ASSUME TypeInv, PrevInv, DelegInv, page.view = "delegators", Complete
               PROVE  ToSet(tiles) = SetTiles(Now, Rolled)
    BY <2>0 DEF GridShowsDelegators, Rolled
  <2>1. queue = <<>> /\ ~more /\ marks = {}
    BY DEF Complete, InStep
  <2>2. Shows(tiles, cursor, more, request, SetTiles(Now, Rolled), Rolled, Listing(Now, order))
    BY <2>1 DEF DelegInv, DelegGood, DelegGoal, DelegList
  <2>3. ToSet(tiles) \subseteq SetTiles(Now, Rolled) /\ Rolled \subseteq Ids(tiles)
    BY <2>1, <2>2 DEF Shows
  <2>4. TileList(tiles) /\ WorldInv
    BY DEF TypeInv, GridInv, TileLists, TileList
  <2>5. Now \in Snapshot /\ Delegates(F)
    BY <2>4, NowIs, PageIsOne
  <2>6. Rolled \in SUBSET Creds
    BY <2>5, MembersIs DEF Rolled
  <2> DEFINE T == SetTiles(Now, Rolled)
  <2>7. {x.id : x \in T} = Rolled /\ \A x, y \in T : x.id = y.id => x = y
    BY <2>5, <2>6, SetTilesAre
  <2> HIDE DEF T
  <2>8. \A x \in T : x.id \in Rolled
    BY <2>7
  <2>9. ToSet(tiles) \subseteq T
    BY <2>3 DEF T
  <2>10. ToSet(tiles) = T /\ Len(tiles) = Cardinality(Rolled)
    BY <2>3, <2>4, <2>7, <2>8, <2>9, ShowsAll
  <2> QED BY <2>10 DEF T
<1> QED BY <1>1, <1>2, <1>3, PTL DEF Spec

-----------------------------------------------------------------------------
(* The counts of a policy's tokens *)

\* A policy has tokens when it is one of theirs.
LEMMA CountIs ==
  ASSUME NEW tokens \in SUBSET Tokens, IsFiniteSet(tokens), NEW p
  PROVE  /\ CountOf(p, tokens) \in Nat
         /\ CountOf(p, tokens) > 0 <=> p \in Policies(tokens)
<1> DEFINE S == {t \in tokens : t[1] = p}
<1>1. IsFiniteSet(S) /\ CountOf(p, tokens) \in Nat
  BY TokensIs
<1>2. CountOf(p, tokens) = Cardinality(S)
  BY DEF CountOf
<1>3. S = {} <=> p \notin Policies(tokens)
  BY DEF Policies
<1> HIDE DEF S
<1>4. Cardinality(S) = 0 <=> S = {}
  BY <1>1, FS_EmptySet
<1> QED BY <1>1, <1>2, <1>3, <1>4

\* A token more.
LEMMA CountMore ==
  ASSUME NEW tokens \in SUBSET Tokens, IsFiniteSet(tokens), NEW token \in Tokens, token \notin tokens
  PROVE  /\ CountOf(token[1], tokens \cup {token}) = CountOf(token[1], tokens) + 1
         /\ \A p : p # token[1] => CountOf(p, tokens \cup {token}) = CountOf(p, tokens)
         /\ Policies(tokens \cup {token}) = Policies(tokens) \cup {token[1]}
<1> DEFINE S == {t \in tokens : t[1] = token[1]}
           more1 == tokens \cup {token}
<1>1. IsFiniteSet(S)
  BY TokensIs
<1>2. {t \in more1 : t[1] = token[1]} = S \cup {token} /\ token \notin S
  OBVIOUS
<1>3. CountOf(token[1], more1) = Cardinality(S \cup {token}) /\ CountOf(token[1], tokens) = Cardinality(S)
  BY <1>2 DEF CountOf
<1>4. ASSUME NEW p, p # token[1] PROVE CountOf(p, more1) = CountOf(p, tokens)
  <2>1. {t \in more1 : t[1] = p} = {t \in tokens : t[1] = p}
    BY <1>4
  <2> QED BY <2>1 DEF CountOf
<1>5. Policies(more1) = Policies(tokens) \cup {token[1]}
  BY DEF Policies
<1> HIDE DEF S, more1
<1>6. Cardinality(S \cup {token}) = Cardinality(S) + 1
  BY <1>1, <1>2, FS_AddElement
<1> QED BY <1>3, <1>4, <1>5, <1>6 DEF more1

\* A list with a tile of each policy, and its count.
Exact(groups, tokens) == TileList(groups) /\ ToSet(groups) = GroupTiles(tokens)

LEMMA ExactIds ==
  ASSUME NEW groups, NEW tokens, Exact(groups, tokens)
  PROVE  Ids(groups) = Policies(tokens)
<1>1. Ids(groups) = {x.id : x \in ToSet(groups)} /\ ToSet(groups) = GroupTiles(tokens)
  BY TileListIs DEF Exact
<1>2. {x.id : x \in GroupTiles(tokens)} = Policies(tokens)
  <2>1. \A p : GroupTile(tokens, p).id = p
    BY DEF GroupTile
  <2> HIDE DEF Policies
  <2> QED BY <2>1 DEF GroupTiles
<1> QED BY <1>1, <1>2

\* The tile of a policy with a token more, and with one less.
LEMMA GroupMore ==
  ASSUME NEW tokens \in SUBSET Tokens, IsFiniteSet(tokens), NEW token \in Tokens, token \notin tokens,
         NEW p
  PROVE  /\ More1(GroupTile(tokens, p), token) = GroupTile(tokens \cup {token}, p)
         /\ Less1(GroupTile(tokens \cup {token}, p), token) = GroupTile(tokens, p)
<1> DEFINE m == CountOf(p, tokens)
           n == CountOf(p, tokens \cup {token})
<1>1. m \in Nat
  BY CountIs
<1>2. GroupTile(tokens, p) = [id |-> p, n |-> m] /\ GroupTile(tokens \cup {token}, p) = [id |-> p, n |-> n]
  BY DEF GroupTile
<1>3. CASE p = token[1]
  <2>1. n = m + 1
    BY <1>3, CountMore
  <2> HIDE DEF m, n
  <2>2. n - 1 = m
    BY <1>1, <2>1
  <2>3. /\ [[id |-> p, n |-> m] EXCEPT !.n = @ + 1] = [id |-> p, n |-> m + 1]
        /\ [[id |-> p, n |-> n] EXCEPT !.n = @ - 1] = [id |-> p, n |-> n - 1]
    OBVIOUS
  <2>4. [id |-> p, n |-> m].id = token[1] /\ [id |-> p, n |-> n].id = token[1]
    BY <1>3
  <2>5. More1([id |-> p, n |-> m], token) = [id |-> p, n |-> m + 1]
    BY <2>3, <2>4 DEF More1
  <2>6. Less1([id |-> p, n |-> n], token) = [id |-> p, n |-> n - 1]
    BY <2>3, <2>4 DEF Less1
  <2> QED BY <1>2, <2>1, <2>2, <2>5, <2>6
<1>4. CASE p # token[1]
  <2>1. n = m
    <3>1. \A q : q # token[1] => CountOf(q, tokens \cup {token}) = CountOf(q, tokens)
      BY CountMore
    <3> QED BY <1>4, <3>1
  <2> HIDE DEF m, n
  <2> QED BY <1>2, <1>4, <2>1 DEF More1, Less1
<1> QED BY <1>3, <1>4

LEMMA GainExact ==
  ASSUME NEW tokens \in SUBSET Tokens, IsFiniteSet(tokens), NEW token \in Tokens, token \notin tokens,
         NEW groups, Exact(groups, tokens)
  PROVE  Exact(GainToken(groups, token), tokens \cup {token})
<1> DEFINE T == tokens
           U == tokens \cup {token}
           q == token[1]
           g == GainToken(groups, token)
           one == [id |-> q, n |-> 1]
<1>1. TileList(groups) /\ ToSet(groups) = {GroupTile(T, p) : p \in Policies(T)}
  BY DEF Exact, GroupTiles
<1>2. Ids(groups) = Policies(T)
  BY ExactIds
<1>3. TileList(g) /\ ToSet(g) = {More1(x, token) : x \in ToSet(groups)}
        \cup IF q \in Ids(groups) THEN {} ELSE {one}
  BY <1>1, GainIs
<1>4. \A p : More1(GroupTile(T, p), token) = GroupTile(U, p)
  BY GroupMore
<1>5. Policies(U) = Policies(T) \cup {q}
  BY CountMore
<1> HIDE DEF T, U, g
<1>6. {More1(x, token) : x \in ToSet(groups)} = {GroupTile(U, p) : p \in Policies(T)}
  BY <1>1, <1>4
<1>7. q \notin Policies(T) => GroupTile(U, q) = one
  <2>1. SUFFICES ASSUME q \notin Policies(T) PROVE CountOf(q, U) = 1
    BY DEF GroupTile
  <2>2. CountOf(q, T) \in Nat /\ ~(CountOf(q, T) > 0)
    BY <2>1, CountIs DEF T
  <2>3. CountOf(q, U) = CountOf(q, T) + 1
    BY CountMore DEF T, U
  <2> QED BY <2>2, <2>3
<1> HIDE DEF one, q
<1>8. ToSet(g) = {GroupTile(U, p) : p \in Policies(U)}
  <2>1. CASE q \in Policies(T)
    <3>1. Policies(U) = Policies(T)
      BY <1>5, <2>1
    <3> QED BY <1>2, <1>3, <1>6, <2>1, <3>1
  <2>2. CASE q \notin Policies(T)
    <3>1. ToSet(g) = {GroupTile(U, p) : p \in Policies(T)} \cup {GroupTile(U, q)}
      BY <1>2, <1>3, <1>6, <1>7, <2>2
    <3> QED BY <1>5, <3>1
  <2> QED BY <2>1, <2>2
<1> QED BY <1>3, <1>8 DEF Exact, GroupTiles, g, U

LEMMA LoseExact ==
  ASSUME NEW tokens \in SUBSET Tokens, IsFiniteSet(tokens), NEW token \in tokens,
         NEW groups, Exact(groups, tokens)
  PROVE  Exact(LoseToken(groups, token), tokens \ {token})
<1> DEFINE T == tokens
           U == tokens \ {token}
           g == LoseToken(groups, token)
<1>1. TileList(groups) /\ ToSet(groups) = {GroupTile(T, p) : p \in Policies(T)}
  BY DEF Exact, GroupTiles
<1>2. TileList(g) /\ ToSet(g) = {x \in {Less1(y, token) : y \in ToSet(groups)} : x.n > 0}
  BY <1>1, LoseIs
<1>3. U \in SUBSET Tokens /\ token \in Tokens /\ token \notin U /\ T = U \cup {token}
  OBVIOUS
<1>4. IsFiniteSet(U)
  BY <1>3, FS_Subset
<1> HIDE DEF T, U, g
<1>5. \A p : Less1(GroupTile(T, p), token) = GroupTile(U, p)
  BY <1>3, <1>4, GroupMore
<1>6. Policies(T) = Policies(U) \cup {token[1]}
  BY <1>3, <1>4, CountMore
<1>7. \A p : GroupTile(U, p).n > 0 <=> p \in Policies(U)
  <2>1. \A p : GroupTile(U, p).n = CountOf(p, U)
    BY DEF GroupTile
  <2>2. \A p : CountOf(p, U) > 0 <=> p \in Policies(U)
    BY <1>3, <1>4, CountIs
  <2> QED BY <2>1, <2>2
<1>8. {Less1(y, token) : y \in ToSet(groups)} = {GroupTile(U, p) : p \in Policies(T)}
  BY <1>1, <1>5
<1>9. ToSet(g) = {GroupTile(U, p) : p \in Policies(U)}
  BY <1>2, <1>6, <1>7, <1>8
<1> QED BY <1>2, <1>9 DEF Exact, GroupTiles, g, U

-----------------------------------------------------------------------------
(* A delta of tokens *)

FirstOf(s, i) == {s[j] : j \in 1..i}

LEMMA FirstOfNext ==
  ASSUME NEW S, NEW s, Lists(s, S), NEW i \in 1..Len(s)
  PROVE  /\ FirstOf(s, i) = FirstOf(s, i - 1) \cup {s[i]} /\ s[i] \notin FirstOf(s, i - 1) /\ s[i] \in S
         /\ FirstOf(s, i - 1) \subseteq S
<1>1. s \in Seq(S) /\ Once(s)
  BY DEF Lists
<1>2. Len(s) \in Nat /\ \A j \in 1..Len(s) : s[j] \in S
  BY <1>1
<1>3. 1..i = 1..(i - 1) \cup {i} /\ i \notin 1..(i - 1) /\ 1..(i - 1) \subseteq 1..Len(s)
  BY <1>2
<1>4. \A j, k \in 1..Len(s) : s[j] = s[k] => j = k
  BY <1>1, <1>2 DEF Once
<1> QED BY <1>2, <1>3, <1>4 DEF FirstOf

LEMMA FirstOfAll ==
  ASSUME NEW S, NEW s, Lists(s, S)
  PROVE  Len(s) \in Nat /\ FirstOf(s, 0) = {} /\ FirstOf(s, Len(s)) = S
<1>1. s \in Seq(S) /\ ToSet(s) = S
  BY DEF Lists
<1>2. Len(s) \in Nat /\ DOMAIN s = 1..Len(s) /\ 1..0 = {}
  BY <1>1
<1> QED BY <1>1, <1>2 DEF FirstOf, ToSet

LEMMA LoseAllExact ==
  ASSUME NEW T \in SUBSET Tokens, IsFiniteSet(T), NEW groups, Exact(groups, T),
         NEW R \in SUBSET T, NEW s, Lists(s, R)
  PROVE  Exact(LoseAll(groups, s), T \ R)
<1> DEFINE n == Len(s)
<1>1. n \in Nat /\ FirstOf(s, 0) = {} /\ FirstOf(s, n) = R
  BY FirstOfAll
<1>2. s \in Seq(Tokens) /\ groups \in TileLists
  BY DEF Lists, Exact, TileLists, TileList
<1>3. PICK f : LoseRun(f, groups, s) /\ LoseAll(groups, s) = f[n]
  BY <1>2, LoseRuns
<1>4. f[0] = groups /\ \A i \in 1..n : f[i] = LoseToken(f[i - 1], s[i])
  BY <1>3 DEF LoseRun
<1> DEFINE Good == {i \in 0..n : Exact(f[i], T \ FirstOf(s, i))}
<1>5. 0 \in Good
  <2>1. T \ FirstOf(s, 0) = T
    BY <1>1
  <2>2. Exact(f[0], T \ FirstOf(s, 0))
    BY <1>4, <2>1
  <2> QED BY <1>1, <2>2
<1>6. ASSUME NEW i \in 1..n, i - 1 \in Good PROVE i \in Good
  <2> DEFINE U == T \ FirstOf(s, i - 1)
  <2>1. /\ FirstOf(s, i) = FirstOf(s, i - 1) \cup {s[i]} /\ s[i] \notin FirstOf(s, i - 1) /\ s[i] \in R
    BY FirstOfNext
  <2>2. U \in SUBSET Tokens /\ s[i] \in U /\ T \ FirstOf(s, i) = U \ {s[i]}
    BY <2>1
  <2>3. IsFiniteSet(U)
    <3>1. U \in SUBSET T
      OBVIOUS
    <3> QED BY <3>1, FS_Subset
  <2>4. Exact(f[i - 1], U)
    BY <1>6
  <2> HIDE DEF U
  <2>5. Exact(LoseToken(f[i - 1], s[i]), U \ {s[i]})
    BY <2>2, <2>3, <2>4, LoseExact
  <2>6. i \in 0..n
    BY <1>1
  <2> QED BY <1>4, <2>2, <2>5, <2>6
<1>7. \A i \in 0..n : i \in Good
  <2> HIDE DEF Good
  <2> QED BY <1>1, <1>5, <1>6, CountUp
<1>8. Exact(f[n], T \ FirstOf(s, n))
  <2>1. n \in 0..n
    BY <1>1
  <2> QED BY <1>7, <2>1
<1> QED BY <1>1, <1>3, <1>8

LEMMA GainAllExact ==
  ASSUME NEW T \in SUBSET Tokens, IsFiniteSet(T), NEW groups, Exact(groups, T),
         NEW D \in SUBSET Tokens, IsFiniteSet(D), D \cap T = {}, NEW s, Lists(s, D)
  PROVE  Exact(GainAll(groups, s), T \cup D)
<1> DEFINE n == Len(s)
<1>1. n \in Nat /\ FirstOf(s, 0) = {} /\ FirstOf(s, n) = D
  BY FirstOfAll
<1>2. s \in Seq(Tokens) /\ groups \in TileLists
  BY DEF Lists, Exact, TileLists, TileList
<1>3. PICK f : GainRun(f, groups, s) /\ GainAll(groups, s) = f[n]
  BY <1>2, GainRuns
<1>4. f[0] = groups /\ \A i \in 1..n : f[i] = GainToken(f[i - 1], s[i])
  BY <1>3 DEF GainRun
<1> DEFINE Good == {i \in 0..n : Exact(f[i], T \cup FirstOf(s, i))}
<1>5. 0 \in Good
  <2>1. T \cup FirstOf(s, 0) = T
    BY <1>1
  <2>2. Exact(f[0], T \cup FirstOf(s, 0))
    BY <1>4, <2>1
  <2> QED BY <1>1, <2>2
<1>6. ASSUME NEW i \in 1..n, i - 1 \in Good PROVE i \in Good
  <2> DEFINE U == T \cup FirstOf(s, i - 1)
  <2>1. /\ FirstOf(s, i) = FirstOf(s, i - 1) \cup {s[i]} /\ s[i] \notin FirstOf(s, i - 1) /\ s[i] \in D
        /\ FirstOf(s, i - 1) \subseteq D
    BY FirstOfNext
  <2>2. U \in SUBSET Tokens /\ s[i] \in Tokens /\ s[i] \notin U /\ T \cup FirstOf(s, i) = U \cup {s[i]}
    BY <2>1
  <2>3. IsFiniteSet(U)
    <3>1. U \in SUBSET (T \cup D)
      BY <2>1
    <3>2. IsFiniteSet(T \cup D)
      BY FS_Union
    <3> QED BY <3>1, <3>2, FS_Subset
  <2>4. Exact(f[i - 1], U)
    BY <1>6
  <2> HIDE DEF U
  <2>5. Exact(GainToken(f[i - 1], s[i]), U \cup {s[i]})
    BY <2>2, <2>3, <2>4, GainExact
  <2>6. i \in 0..n
    BY <1>1
  <2> QED BY <1>4, <2>2, <2>5, <2>6
<1>7. \A i \in 0..n : i \in Good
  <2> HIDE DEF Good
  <2> QED BY <1>1, <1>5, <1>6, CountUp
<1>8. Exact(f[n], T \cup FirstOf(s, n))
  <2>1. n \in 0..n
    BY <1>1
  <2> QED BY <1>7, <2>1
<1> QED BY <1>1, <1>3, <1>8

\* Nothing to lose or gain.
LEMMA NoneIs ==
  ASSUME NEW groups \in TileLists, NEW s, Lists(s, {})
  PROVE  LoseAll(groups, s) = groups /\ GainAll(groups, s) = groups
<1>1. s \in Seq(Tokens) /\ Len(s) = 0
  <2>1. s \in Seq({}) /\ Len(s) \in Nat
    BY FirstOfAll DEF Lists
  <2>2. ~(1 \in DOMAIN s)
    BY <2>1
  <2>3. Len(s) = 0
    BY <2>1, <2>2
  <2>4. s \in Seq(Tokens)
    BY <2>1
  <2> QED BY <2>3, <2>4
<1>2. PICK f : LoseRun(f, groups, s) /\ LoseAll(groups, s) = f[Len(s)]
  BY <1>1, LoseRuns
<1>3. PICK g : GainRun(g, groups, s) /\ GainAll(groups, s) = g[Len(s)]
  BY <1>1, GainRuns
<1> QED BY <1>1, <1>2, <1>3 DEF LoseRun, GainRun

-----------------------------------------------------------------------------
(* The grid of owned assets *)

\* What the stream compares with, as long as it does.
Comparing == up = "live" /\ prev # <<>>
Base == [holds |-> IF Comparing THEN Head(prev) ELSE Now.holds]

AheadInv == (page.view = "assets" /\ Comparing /\ queue = <<>>) => Head(prev) = Now.holds

AssetInv ==
  (page.view = "assets" /\ marks \subseteq {"ahead"} /\ (queue = <<>> \/ Comparing)) =>
    Shows(tiles, cursor, more, request, GroupTiles(Held(F, Base)), Policies(Held(F, Base)),
          Groups(F, Base, order))

\* Only the tokens of a snapshot count.
LEMMA HoldsOnly ==
  ASSUME NEW f, NEW snap
  PROVE  /\ Held(f, [holds |-> snap.holds]) = Held(f, snap)
         /\ \A desc : Groups(f, [holds |-> snap.holds], desc) = Groups(f, snap, desc)
<1>1. Held(f, [holds |-> snap.holds]) = Held(f, snap)
  BY DEF Held
<1> QED BY <1>1 DEF Groups

LEMMA AssetNames ==
  ASSUME UNCHANGED <<page, order>>, Base' = Base
  PROVE  /\ GroupTiles(Held(F, Base))' = GroupTiles(Held(F, Base))
         /\ Policies(Held(F, Base))' = Policies(Held(F, Base))
         /\ Groups(F, Base, order)' = Groups(F, Base, order)
<1>1. F' = F
  BY DEF F
<1>2. Held(F, Base)' = Held(F, Base)
  BY <1>1
<1> QED BY <1>1, <1>2

\* A step that leaves what the tiles are compared with, and the claims.
LEMMA AssetKept ==
  ASSUME AssetInv, UNCHANGED <<page, order>>, Base' = Base,
         page.view = "assets" /\ marks' \subseteq {"ahead"} /\ (queue' = <<>> \/ Comparing')
           => marks \subseteq {"ahead"} /\ (queue = <<>> \/ Comparing),
         \A good, goal, all : Shows(tiles, cursor, more, request, good, goal, all)
                                => Shows(tiles', cursor', more', request', good, goal, all)
  PROVE  AssetInv'
<1> DEFINE good == GroupTiles(Held(F, Base))
           goal == Policies(Held(F, Base))
           all == Groups(F, Base, order)
<1>1. good' = good /\ goal' = goal /\ all' = all
  BY AssetNames
<1> HIDE DEF good, goal, all
<1>2. AssetInv = ((page.view = "assets" /\ marks \subseteq {"ahead"} /\ (queue = <<>> \/ Comparing)) =>
                    Shows(tiles, cursor, more, request, good, goal, all))
  BY DEF AssetInv, good, goal, all
<1>3. ASSUME page.view = "assets", marks' \subseteq {"ahead"}, queue' = <<>> \/ Comparing'
      PROVE  Shows(tiles', cursor', more', request', good', goal', all')
  <2>1. marks \subseteq {"ahead"} /\ (queue = <<>> \/ Comparing)
    BY <1>3
  <2>2. Shows(tiles, cursor, more, request, good, goal, all)
    BY <1>2, <1>3, <2>1
  <2>3. Shows(tiles', cursor', more', request', good, goal, all)
    BY <2>2
  <2> QED BY <1>1, <2>3
<1> QED BY <1>3 DEF AssetInv, good, goal, all

LEMMA AssetBlank ==
  ASSUME tiles' = <<>>, cursor' = 0, more' = TRUE, ~Answered(request')
  PROVE  AssetInv'
<1>1. \A good, goal, all : Shows(<<>>, 0, TRUE, request', good, goal, all)
  BY ShowsNothing
<1>2. \A good, goal, all : Shows(tiles', cursor', more', request', good, goal, all)
  BY <1>1
<1> QED BY <1>2 DEF AssetInv

\* The tiles after the tokens that have gone and come.
LEMMA AssetPatched ==
  ASSUME TypeInv, page.view = "assets", up = "live", prev # <<>>, ~more,
         Shows(tiles, cursor, more, request, GroupTiles(Held(F, Base)), Policies(Held(F, Base)),
               Groups(F, Base, order)),
         tiles' = GainAll(LoseAll(tiles, SetToSeq(TileDiff(Head(prev), Now.holds).removed)),
                          SetToSeq(TileDiff(Head(prev), Now.holds).added))
  PROVE  Exact(tiles', Held(F, Now))
<1> DEFINE diff == TileDiff(Head(prev), Now.holds)
           T == Held(F, [holds |-> Head(prev)])
           U == Held(F, [holds |-> Now.holds])
           lost == SetToSeq(diff.removed)
           got == SetToSeq(diff.added)
           left == LoseAll(tiles, lost)
<1>1. WorldInv /\ StreamInv /\ TileList(tiles)
  BY DEF TypeInv, GridInv, TileLists, TileList
<1>2. Now.holds \in Holdings
  BY <1>1, NowIs
<1>3. Head(prev) \in Holdings
  BY <1>1, OptIs DEF StreamInv
<1>4. /\ T \in SUBSET Tokens /\ IsFiniteSet(T) /\ U \in SUBSET Tokens /\ IsFiniteSet(U)
      /\ Lists(got, U \ T) /\ Lists(lost, T \ U)
  BY <1>2, <1>3, DiffIs
<1>5. Base = [holds |-> Head(prev)]
  BY DEF Base, Comparing
<1>6. ToSet(tiles) \subseteq GroupTiles(T) /\ Policies(T) \subseteq Ids(tiles)
  BY <1>5 DEF Shows
<1>7. Held(F, Now) = U
  BY HoldsOnly
<1>8. tiles' = GainAll(left, got)
  OBVIOUS
<1> HIDE DEF T, U, lost, got
<1>9. \A x \in GroupTiles(T) : x.id \in Policies(T)
  BY DEF GroupTiles, GroupTile
<1>10. \A x, y \in GroupTiles(T) : x.id = y.id => x = y
  BY DEF GroupTiles, GroupTile
<1>11. ToSet(tiles) = GroupTiles(T)
  BY <1>1, <1>6, <1>9, <1>10, ShowsAll
<1>12. Exact(tiles, T)
  BY <1>1, <1>11 DEF Exact
<1>13. T \ U \in SUBSET T
  OBVIOUS
<1>14. Exact(left, T \ (T \ U))
  BY <1>4, <1>12, <1>13, LoseAllExact
<1> HIDE DEF left
<1> DEFINE V == T \ (T \ U)
           W == U \ T
<1>15. V \in SUBSET Tokens /\ W \in SUBSET Tokens /\ W \cap V = {} /\ V \cup W = U
  BY <1>4
<1>16. IsFiniteSet(V) /\ IsFiniteSet(W)
  <2>1. V \in SUBSET T /\ W \in SUBSET U
    OBVIOUS
  <2> HIDE DEF V, W
  <2> QED BY <1>4, <2>1, FS_Subset
<1>17. Exact(left, V) /\ Lists(got, W)
  BY <1>4, <1>14
<1> HIDE DEF V, W
<1>18. Exact(GainAll(left, got), V \cup W)
  BY <1>15, <1>16, <1>17, GainAllExact
<1> QED BY <1>7, <1>8, <1>15, <1>18

LEMMA AssetHandle ==
  ASSUME TypeInv, AssetInv, Handle
  PROVE  AheadInv' /\ AssetInv'
<1>1. /\ page' = page /\ chain' = chain /\ up = "live" /\ up' = up /\ queue # <<>>
  BY DEF Handle
<1>2. F' = F /\ Now' = Now
  BY <1>1 DEF F, Now
<1>3. CASE page.view # "assets"
  BY <1>1, <1>3 DEF AheadInv, AssetInv
<1>4. CASE page.view = "assets"
  <2> DEFINE event == Head(queue)
             diff == TileDiff(Head(prev), Now.holds)
  <2>1. AssetDelta(event)
    BY <1>4 DEF Handle
  <2>2. prev' = <<Now.holds>> /\ UNCHANGED <<cursor, more, request, order>>
    BY <2>1 DEF AssetDelta
  <2>3. Head(prev') = Now'.holds /\ prev' # <<>>
    BY <1>2, <2>2
  <2>4. AheadInv'
    BY <2>3 DEF AheadInv
  <2>5. Base' = [holds |-> Now.holds]
    BY <1>2, <2>3 DEF Base
  <2>6. /\ Held(F, Base)' = Held(F, Now) /\ Groups(F, Base, order)' = Groups(F, Now, order)
    <3>1. /\ Held(F, [holds |-> Now.holds]) = Held(F, Now)
          /\ Groups(F, [holds |-> Now.holds], order) = Groups(F, Now, order)
      BY HoldsOnly
    <3> QED BY <1>2, <2>2, <2>5, <3>1
  <2>7. CASE prev = <<>>
    <3>1. tiles' = tiles /\ marks' = marks \cup IF Stocked THEN {"first"} ELSE {}
      BY <2>1, <2>7 DEF AssetDelta
    <3>2. CASE Stocked
      <4>1. "first" \in marks'
        BY <3>1, <3>2
      <4>2. ~(marks' \subseteq {"ahead"})
        BY <4>1
      <4> QED BY <2>4, <4>2 DEF AssetInv
    <3>3. CASE ~Stocked
      <4>1. tiles' = <<>> /\ cursor' = 0 /\ more' = TRUE /\ ~Answered(request')
        BY <2>2, <3>1, <3>3, Unstocked
      <4> QED BY <2>4, <4>1, AssetBlank
    <3> QED BY <3>2, <3>3
  <2>8. CASE prev # <<>>
    <3>1. /\ tiles' = GainAll(LoseAll(tiles, SetToSeq(diff.removed)), SetToSeq(diff.added))
          /\ marks' = marks \cup IF diff.added \cup diff.removed = {} THEN {} ELSE DeltaMarks(event)
      BY <2>1, <2>8 DEF AssetDelta
    <3>2. Comparing
      BY <1>1, <2>8 DEF Comparing
    <3>3. WorldInv /\ StreamInv /\ tiles \in TileLists
      BY DEF TypeInv, GridInv
    <3>4. Now.holds \in Holdings /\ Head(prev) \in Holdings
      BY <1>4, <2>8, <3>3, NowIs, OptIs DEF StreamInv
    <3> DEFINE T == Held(F, [holds |-> Head(prev)])
               U == Held(F, [holds |-> Now.holds])
    <3>5. /\ diff.added = U \ T /\ diff.removed = T \ U
          /\ Lists(SetToSeq(diff.added), U \ T) /\ Lists(SetToSeq(diff.removed), T \ U)
      BY <3>4, DiffIs
    <3>6. Held(F, Now) = U
      BY HoldsOnly
    <3>7. Base = [holds |-> Head(prev)]
      BY <3>2 DEF Base
    <3>8. Held(F, Base) = T
      BY <3>7
    <3> HIDE DEF diff, T, U
    <3>9. ASSUME marks' \subseteq {"ahead"}
          PROVE  Shows(tiles', cursor', more', request', GroupTiles(Held(F, Now)), Policies(Held(F, Now)),
                       Groups(F, Now, order))
      <4>1. marks \subseteq {"ahead"}
        BY <3>1, <3>9
      <4>2. Shows(tiles, cursor, more, request, GroupTiles(T), Policies(T), Groups(F, Base, order))
        BY <1>4, <3>2, <3>8, <4>1 DEF AssetInv
      <4>3. CASE diff.added \cup diff.removed = {}
        <5>1. T = U
          BY <3>5, <4>3
        <5>2. Lists(SetToSeq(diff.added), {}) /\ Lists(SetToSeq(diff.removed), {})
          BY <3>5, <5>1
        <5>3. LoseAll(tiles, SetToSeq(diff.removed)) = tiles
          BY <3>3, <5>2, NoneIs
        <5>4. GainAll(tiles, SetToSeq(diff.added)) = tiles
          BY <3>3, <5>2, NoneIs
        <5>5. tiles' = tiles
          BY <3>1, <5>3, <5>4
        <5>6. Groups(F, Base, order) = Groups(F, Now, order)
          BY <3>6, <3>8, <5>1 DEF Groups
        <5> QED BY <2>2, <3>6, <4>2, <5>1, <5>5, <5>6
      <4>4. CASE diff.added \cup diff.removed # {}
        <5>1. DeltaMarks(event) \subseteq {"ahead"}
          BY <3>1, <3>9, <4>4
        <5>2. "race" \notin DeltaMarks(event) /\ "offset" \notin DeltaMarks(event)
          BY <5>1
        <5>3. ~(request # <<>> /\ Head(request).reply # <<>>) /\ ~more
          BY <1>4, <5>2 DEF DeltaMarks
        <5>4. ~Answered(request)
          BY <5>3 DEF Answered
        <5>5. Exact(tiles', Held(F, Now))
          <6>1. Shows(tiles, cursor, more, request, GroupTiles(Held(F, Base)), Policies(Held(F, Base)),
                      Groups(F, Base, order))
            BY <3>8, <4>2
          <6>2. tiles' = GainAll(LoseAll(tiles, SetToSeq(TileDiff(Head(prev), Now.holds).removed)),
                                 SetToSeq(TileDiff(Head(prev), Now.holds).added))
            BY <3>1 DEF diff
          <6> QED BY <1>1, <1>4, <2>8, <5>3, <6>1, <6>2, AssetPatched
        <5>6. ToSet(tiles') = GroupTiles(Held(F, Now)) /\ Ids(tiles') = Policies(Held(F, Now))
          BY <5>5, ExactIds DEF Exact
        <5> DEFINE all == Groups(F, Now, order)
        <5>7. TilesOf(all, GroupTiles(Held(F, Now)), Policies(Held(F, Now)))
          <6>1. order \in BOOLEAN
            BY DEF TypeInv, GridInv
          <6> QED BY <3>4, <6>1, GroupsIs
        <5> HIDE DEF all
        <5>8. DOMAIN all = 1..Len(all) /\ Ids(all) = Policies(Held(F, Now))
          BY <5>7, TileListIs DEF TilesOf
        <5>9. First(all, cursor) \subseteq Ids(all)
          BY <5>8 DEF First, Ids
        <5> QED BY <2>2, <5>3, <5>4, <5>6, <5>8, <5>9 DEF Shows, all
      <4> QED BY <4>3, <4>4
    <3> QED BY <2>4, <2>6, <3>9 DEF AssetInv
  <2> QED BY <2>7, <2>8
<1> QED BY <1>3, <1>4

LEMMA AssetServe ==
  ASSUME TypeInv, AheadInv, AssetInv, Serve
  PROVE  AssetInv'
<1>1. UNCHANGED <<page, chain, queue, up, prev, order>> /\ marks \subseteq marks'
  BY DEF Serve, world, stream
<1>2. F' = F /\ Now' = Now /\ Comparing' = Comparing /\ Base' = Base
  BY <1>1 DEF F, Now, Comparing, Base
<1>3. /\ GroupTiles(Held(F, Base))' = GroupTiles(Held(F, Base))
      /\ Policies(Held(F, Base))' = Policies(Held(F, Base))
      /\ Groups(F, Base, order)' = Groups(F, Base, order)
  BY <1>1, <1>2, AssetNames
<1>4. ASSUME page.view = "assets", marks' \subseteq {"ahead"}, queue = <<>> \/ Comparing
      PROVE  Shows(tiles', cursor', more', request', GroupTiles(Held(F, Base)), Policies(Held(F, Base)),
                   Groups(F, Base, order))
  <2>1. marks \subseteq {"ahead"}
    BY <1>1, <1>4
  <2>2. queue = <<>>
    <3>1. queue # <<>> => "offset" \in marks'
      BY <1>4 DEF Serve
    <3> QED BY <1>4, <3>1
  <2>3. Base = [holds |-> Now.holds]
    BY <1>4, <2>2 DEF Base, AheadInv
  <2>4. Held(F, Base) = Held(F, Now) /\ Groups(F, Base, order) = Groups(F, Now, order)
    BY <2>3, HoldsOnly
  <2> DEFINE good == GroupTiles(Held(F, Base))
             goal == Policies(Held(F, Base))
             all == Groups(F, Base, order)
  <2>5. Shows(tiles, cursor, more, request, good, goal, all)
    BY <1>4, <2>1 DEF AssetInv
  <2>6. RightTiles(Now) = good /\ RightIds(Now) = goal
    BY <1>4, <2>4 DEF RightTiles, RightIds
  <2>7. all = Listing(Now, order)
    BY <1>4, <2>4 DEF Listing
  <2> HIDE DEF good, goal, all
  <2>8. Shows(tiles', cursor', more', request', good, goal, all)
    BY <2>5, <2>6, <2>7, ShowsServed
  <2> QED BY <2>8 DEF good, goal, all
<1> QED BY <1>1, <1>2, <1>3, <1>4 DEF AssetInv

LEMMA AssetMove ==
  ASSUME TypeInv, AheadInv, AssetInv, Apply \/ Roll
  PROVE  AheadInv' /\ AssetInv'
<1>1. WorldInv /\ StreamInv
  BY DEF TypeInv
<1>2. /\ page' = page /\ UNCHANGED <<stream, grid>>
      /\ IF up = "down" THEN queue' = queue ELSE queue' # <<>>
      /\ marks \subseteq marks'
      /\ up = "down" /\ Stocked => "gap" \in marks'
  BY <1>1, MoveIs
<1>3. UNCHANGED <<up, prev, tiles, cursor, more, request, order>>
  BY <1>2 DEF stream, grid
<1>4. CASE up = "down"
  <2>1. up' # "live"
    BY <1>3, <1>4
  <2>2. AheadInv'
    <3>1. ~Comparing'
      BY <2>1 DEF Comparing
    <3> QED BY <3>1 DEF AheadInv
  <2>3. CASE Stocked
    <3>1. ~(marks' \subseteq {"ahead"})
      BY <1>2, <1>4, <2>3
    <3> QED BY <2>2, <3>1 DEF AssetInv
  <2>4. CASE ~Stocked
    <3>1. tiles' = <<>> /\ cursor' = 0 /\ more' = TRUE /\ ~Answered(request')
      BY <1>3, <2>4, Unstocked
    <3> QED BY <2>2, <3>1, AssetBlank
  <2> QED BY <2>3, <2>4
<1>5. CASE up # "down"
  <2>1. queue' # <<>>
    BY <1>2, <1>5
  <2>2. AheadInv'
    BY <2>1 DEF AheadInv
  <2>3. Comparing' = Comparing
    BY <1>3 DEF Comparing
  <2>4. CASE Comparing
    <3>1. Base' = Base
      BY <1>3, <2>3, <2>4 DEF Base
    <3>2. marks' \subseteq {"ahead"} => marks \subseteq {"ahead"}
      BY <1>2
    <3>3. AssetInv'
      BY <1>2, <1>3, <2>4, <3>1, <3>2, AssetKept
    <3> QED BY <2>2, <3>3
  <2>5. CASE ~Comparing
    BY <2>1, <2>2, <2>3, <2>5 DEF AssetInv
  <2> QED BY <2>4, <2>5
<1> QED BY <1>4, <1>5

LEMMA AssetStep ==
  ASSUME TypeInv, AheadInv, AssetInv, [Next]_vars
  PROVE  AheadInv' /\ AssetInv'
<1>0. ASSUME UNCHANGED <<page, chain, queue, up, prev>>
      PROVE  AheadInv' /\ Base' = Base /\ Comparing' = Comparing
  <2>1. Now' = Now /\ Comparing' = Comparing
    BY <1>0 DEF Now, Comparing
  <2> QED BY <1>0, <2>1 DEF AheadInv, Base
<1>1. CASE Apply \/ Roll
  BY <1>1, AssetMove
<1>2. CASE Handle
  BY <1>2, AssetHandle
<1>3. CASE Connect
  <2>1. UNCHANGED <<page, chain, queue, grid, marks>> /\ prev' = <<>> /\ up = "down"
    BY <1>3 DEF Connect, world
  <2>2. ~Comparing /\ ~Comparing' /\ Now' = Now
    BY <2>1 DEF Comparing, Now
  <2>3. Base' = Base
    BY <2>2 DEF Base
  <2>4. UNCHANGED <<tiles, cursor, more, request, order>>
    BY <2>1 DEF grid
  <2>5. AssetInv'
    BY <2>1, <2>2, <2>3, <2>4, AssetKept
  <2> QED BY <2>2, <2>5 DEF AheadInv
<1>4. CASE Seed
  <2>1. UNCHANGED <<page, chain, queue, prev, grid, marks>> /\ up = "header"
    BY <1>4 DEF Seed, world
  <2>2. prev = <<>>
    BY <2>1 DEF TypeInv, StreamInv
  <2>3. ~Comparing /\ ~Comparing' /\ Now' = Now
    BY <2>1, <2>2 DEF Comparing, Now
  <2>4. Base' = Base
    BY <2>3 DEF Base
  <2>5. UNCHANGED <<tiles, cursor, more, request, order>>
    BY <2>1 DEF grid
  <2>6. AssetInv'
    BY <2>1, <2>3, <2>4, <2>5, AssetKept
  <2> QED BY <2>3, <2>6 DEF AheadInv
<1>5. CASE Drop
  <2>1. UNCHANGED <<page, chain, prev, grid>> /\ up' = "down" /\ queue' = <<>>
    BY <1>5 DEF Drop
  <2>2. ~Comparing' /\ Now' = Now
    BY <2>1 DEF Comparing, Now
  <2>3. AheadInv'
    BY <2>2 DEF AheadInv
  <2>4. UNCHANGED <<tiles, cursor, more, request, order>>
    BY <2>1 DEF grid
  <2>5. CASE page.view # "assets"
    BY <2>1, <2>3, <2>5 DEF AssetInv
  <2>6. CASE ~Stocked
    <3>1. tiles' = <<>> /\ cursor' = 0 /\ more' = TRUE /\ ~Answered(request')
      BY <2>4, <2>6, Unstocked
    <3> QED BY <2>3, <3>1, AssetBlank
  <2>7. CASE page.view = "assets" /\ queue = <<>>
    <3>1. marks' = marks
      BY <1>5, <2>7 DEF Drop, IsGrid
    <3>2. Base' = Base
      BY <2>2, <2>7 DEF Base, AheadInv
    <3>3. AssetInv'
      BY <2>1, <2>4, <2>7, <3>1, <3>2, AssetKept
    <3> QED BY <2>3, <3>3
  <2>8. CASE page.view = "assets" /\ Stocked /\ queue # <<>>
    <3>1. "gap" \in marks'
      BY <1>5, <2>8 DEF Drop, IsGrid
    <3>2. ~(marks' \subseteq {"ahead"})
      BY <3>1
    <3> QED BY <2>3, <3>2 DEF AssetInv
  <2> QED BY <2>5, <2>6, <2>7, <2>8
<1>6. CASE Fetch
  <2>1. UNCHANGED <<page, chain, queue, up, prev, tiles, cursor, more, order, marks>>
    BY <1>6 DEF Fetch, world, stream
  <2>2. ~Answered(request')
    <3>1. request' = <<[at |-> cursor, desc |-> order, old |-> FALSE, reply |-> <<>>]>>
      BY <1>6 DEF Fetch
    <3>2. Head(request').reply = <<>>
      BY <3>1
    <3> QED BY <3>2 DEF Answered
  <2>3. \A good, goal, all : Shows(tiles, cursor, more, request, good, goal, all)
          => Shows(tiles', cursor', more', request', good, goal, all)
    BY <2>1, <2>2, ShowsAsked
  <2>4. AheadInv' /\ Base' = Base /\ Comparing' = Comparing
    BY <1>0, <2>1
  <2>5. AssetInv'
    BY <2>1, <2>3, <2>4, AssetKept
  <2> QED BY <2>4, <2>5
<1>7. CASE Serve
  <2>1. UNCHANGED <<page, chain, queue, up, prev>>
    BY <1>7 DEF Serve, world, stream
  <2> QED BY <1>0, <1>7, <2>1, AssetServe
<1>8. CASE Receive
  <2>1. UNCHANGED <<page, chain, queue, up, prev, order, marks>>
    BY <1>8 DEF Receive, world, stream
  <2>2. \A good, goal, all : Shows(tiles, cursor, more, request, good, goal, all)
          => Shows(tiles', cursor', more', request', good, goal, all)
    BY <1>8, ShowsReceived
  <2>3. AheadInv' /\ Base' = Base /\ Comparing' = Comparing
    BY <1>0, <2>1
  <2>4. AssetInv'
    BY <2>1, <2>2, <2>3, AssetKept
  <2> QED BY <2>3, <2>4
<1>9. CASE Fail
  <2>1. UNCHANGED <<page, chain, queue, stream>> /\ "failed" \in marks'
    BY <1>9 DEF Fail
  <2>2. UNCHANGED <<page, chain, queue, up, prev>>
    BY <2>1 DEF stream
  <2>3. ~(marks' \subseteq {"ahead"})
    BY <2>1
  <2> QED BY <1>0, <2>2, <2>3 DEF AssetInv
<1>10. CASE CycleSort
  <2>1. UNCHANGED <<page, chain, queue, stream>> /\ Reset
    BY <1>10 DEF CycleSort
  <2>2. UNCHANGED <<page, chain, queue, up, prev>>
    BY <2>1 DEF stream
  <2>3. tiles' = <<>> /\ cursor' = 0 /\ more' = TRUE /\ ~Answered(request')
    BY <2>1, ResetIs
  <2>4. AssetInv'
    BY <2>3, AssetBlank
  <2> QED BY <1>0, <2>2, <2>4
<1>11. CASE UNCHANGED vars
  <2>1. UNCHANGED <<page, chain, queue, up, prev, tiles, cursor, more, request, order, marks>>
    BY <1>11 DEF vars, world, stream, grid
  <2>2. AheadInv' /\ Base' = Base /\ Comparing' = Comparing
    BY <1>0, <2>1
  <2>3. AssetInv'
    BY <2>1, <2>2, AssetKept
  <2> QED BY <2>2, <2>3
<1>12. CASE Compare
  <2>1. UNCHANGED <<page, chain, queue, up, prev, tiles, cursor, more, request, order, marks>>
    BY <1>12 DEF Compare, world, grid
  <2>2. AheadInv' /\ Base' = Base /\ Comparing' = Comparing
    BY <1>0, <2>1
  <2>3. AssetInv'
    BY <2>1, <2>2, AssetKept
  <2> QED BY <2>2, <2>3
<1> QED BY <1>1, <1>2, <1>3, <1>4, <1>5, <1>6, <1>7, <1>8, <1>9, <1>10, <1>11, <1>12 DEF Next

\* The grid of owned assets shows each policy once, with the count of its tokens,
\* also after deltas for which the state was ahead (asset_delta_event,
\* handleLiveGrouped, owned_assets).
THEOREM AssetsAreShown == Spec => []GridShowsAssets
<1>1. Init => TypeInv /\ AheadInv /\ AssetInv
  <2> SUFFICES ASSUME Init PROVE TypeInv /\ AheadInv /\ AssetInv
    OBVIOUS
  <2>1. TypeInv
    BY InitTyped
  <2>2. AheadInv
    BY DEF Init, AheadInv, Comparing
  <2>3. tiles = <<>> /\ cursor = 0 /\ more = TRUE /\ ~Answered(request)
    BY DEF Init, Answered
  <2>4. \A good, goal, all : Shows(<<>>, 0, TRUE, request, good, goal, all)
    BY <2>3, ShowsNothing
  <2>5. \A good, goal, all : Shows(tiles, cursor, more, request, good, goal, all)
    BY <2>3, <2>4
  <2> QED BY <2>1, <2>2, <2>5 DEF AssetInv
<1>2. (TypeInv /\ AheadInv /\ AssetInv) /\ [Next]_vars => (TypeInv /\ AheadInv /\ AssetInv)'
  <2> SUFFICES ASSUME TypeInv, AheadInv, AssetInv, [Next]_vars
               PROVE  (TypeInv /\ AheadInv /\ AssetInv)'
    OBVIOUS
  <2>1. TypeInv'
    BY TypeOfWorld, TypeOfStream, TypeOfGrid DEF TypeInv
  <2> QED BY <2>1, AssetStep
<1>3. TypeInv /\ AheadInv /\ AssetInv => GridShowsAssets
  <2> DEFINE T == Held(F, Now)
  <2> SUFFICES ASSUME TypeInv, AheadInv, AssetInv, page.view = "assets", InStep, ~more,
                      marks \subseteq {"ahead"}
               PROVE  ToSet(tiles) = GroupTiles(T) /\ Len(tiles) = Cardinality(Policies(T))
    BY DEF GridShowsAssets, GroupTiles
  <2>1. queue = <<>>
    BY DEF InStep
  <2>2. Base = [holds |-> Now.holds]
    BY <2>1 DEF Base, AheadInv
  <2>3. Held(F, Base) = T
    BY <2>2, HoldsOnly
  <2>4. Shows(tiles, cursor, more, request, GroupTiles(T), Policies(T), Groups(F, Base, order))
    BY <2>1, <2>3 DEF AssetInv
  <2> HIDE DEF T
  <2>5. ToSet(tiles) \subseteq GroupTiles(T) /\ Policies(T) \subseteq Ids(tiles)
    BY <2>4 DEF Shows
  <2>6. TileList(tiles)
    BY DEF TypeInv, GridInv, TileLists, TileList
  <2>7. /\ \A x \in GroupTiles(T) : x.id \in Policies(T)
        /\ \A x, y \in GroupTiles(T) : x.id = y.id => x = y
    BY DEF GroupTiles, GroupTile
  <2> QED BY <2>5, <2>6, <2>7, ShowsAll
<1> QED BY <1>1, <1>2, <1>3, PTL DEF Spec

-----------------------------------------------------------------------------
(* What a block moves *)

\* What a move brings to some addresses or credentials.
Gain(A, own) == [m \in A \X Nat |-> IF m[1] \in own THEN m[2] ELSE 0]

LEMMA AmountsWorth ==
  ASSUME NEW A, NEW own
  PROVE  /\ Gain(A, own) \in [A \X Nat -> Int]
         /\ \A moves \in Seq(A \X Nat) : Amounts(moves, own) = Worth(moves, Gain(A, own))
<1>1. Gain(A, own) \in [A \X Nat -> Int]
  <2>1. \A m \in A \X Nat : (IF m[1] \in own THEN m[2] ELSE 0) \in Int
    OBVIOUS
  <2> QED BY <2>1 DEF Gain
<1>2. ASSUME NEW moves \in Seq(A \X Nat) PROVE Amounts(moves, own) = Worth(moves, Gain(A, own))
  <2>1. \A i \in DOMAIN moves : moves[i] \in A \X Nat
    BY ElementIn
  <2>2. \A i \in DOMAIN moves :
          Gain(A, own)[moves[i]] = IF moves[i][1] \in own THEN moves[i][2] ELSE 0
    BY <2>1 DEF Gain
  <2>3. [i \in DOMAIN moves |-> IF moves[i][1] \in own THEN moves[i][2] ELSE 0]
          = [i \in DOMAIN moves |-> Gain(A, own)[moves[i]]]
    BY <2>2
  <2> QED BY <2>3 DEF Amounts, Worth
<1> QED BY <1>1, <1>2

\* Two sets that share nothing get together what each gets.
LEMMA AmountsJoin ==
  ASSUME NEW A, NEW moves \in Seq(A \X Nat), NEW a, NEW b, a \cap b = {}
  PROVE  Amounts(moves, a \cup b) = Amounts(moves, a) + Amounts(moves, b)
<1> DEFINE S == A \X Nat
           x == Gain(A, a)
           y == Gain(A, b)
           z == Gain(A, a \cup b)
<1>1. x \in [S -> Int] /\ Amounts(moves, a) = Worth(moves, x)
  BY AmountsWorth
<1>2. y \in [S -> Int] /\ Amounts(moves, b) = Worth(moves, y)
  BY AmountsWorth
<1>3. z \in [S -> Int] /\ Amounts(moves, a \cup b) = Worth(moves, z)
  BY AmountsWorth
<1>4. ASSUME NEW m \in S PROVE z[m] = x[m] + y[m]
  <2>1. m[2] \in Int
    OBVIOUS
  <2>2. /\ x[m] = IF m[1] \in a THEN m[2] ELSE 0
        /\ y[m] = IF m[1] \in b THEN m[2] ELSE 0
        /\ z[m] = IF m[1] \in a \/ m[1] \in b THEN m[2] ELSE 0
    BY DEF Gain
  <2>3. ~(m[1] \in a /\ m[1] \in b)
    OBVIOUS
  <2> QED BY <2>1, <2>2, <2>3
<1> HIDE DEF x, y, z, S
<1>5. IsTogether(S, z, x, y)
  BY <1>1, <1>2, <1>3, <1>4 DEF IsTogether
<1>6. moves \in Seq(S)
  BY DEF S
<1>7. Worth(moves, z) = Worth(moves, x) + Worth(moves, y)
  BY <1>5, <1>6, WorthSplits
<1> QED BY <1>1, <1>2, <1>3, <1>7

\* What the keys of a list get one by one is what they get together.
Reached(key, u) == UNION {key[x] : x \in ToSet(u)}

Apart(K, key) == \A x, y \in K : x # y => key[x] \cap key[y] = {}

Spread(A, K, moves, key, val) ==
  /\ moves \in Seq(A \X Nat) /\ Apart(K, key) /\ val \in [K -> Int]
  /\ \A x \in K : val[x] = Amounts(moves, key[x])

LEMMA AmountsSpread ==
  ASSUME NEW A, NEW K, NEW moves, NEW key, NEW val, Spread(A, K, moves, key, val)
  PROVE  \A u \in Seq(K) : Once(u) => Worth(u, val) = Amounts(moves, Reached(key, u))
<1> DEFINE W == {w \in Seq(K) : Once(w) => Worth(w, val) = Amounts(moves, Reached(key, w))}
<1>0. /\ moves \in Seq(A \X Nat) /\ Apart(K, key) /\ val \in [K -> Int]
      /\ \A x \in K : val[x] = Amounts(moves, key[x])
  BY DEF Spread
<1>1. /\ Worth(<<>>, val) = 0
      /\ \A w \in Seq(K), y \in K : Worth(Append(w, y), val) = Worth(w, val) + val[y]
  BY <1>0, WorthAppend
<1>5. \A a, b : a \cap b = {} => Amounts(moves, a \cup b) = Amounts(moves, a) + Amounts(moves, b)
  BY <1>0, AmountsJoin
<1>2. <<>> \in W
  <2>1. Reached(key, <<>>) = {}
    <3>1. \A x : x \notin ToSet(<<>>)
      BY DEF ToSet
    <3>2. \A z : z \notin Reached(key, <<>>)
      BY <3>1, Zenon DEF Reached
    <3> QED BY <3>2
  <2>2. Amounts(moves, {}) = 0
    BY <1>0, AmountsNone
  <2>3. <<>> \in Seq(K)
    OBVIOUS
  <2>4. Worth(<<>>, val) = Amounts(moves, Reached(key, <<>>))
    BY <1>1, <2>1, <2>2
  <2> QED BY <2>3, <2>4
<1>3. ASSUME NEW w \in Seq(K), NEW y \in K, w \in W PROVE Append(w, y) \in W
  <2> DEFINE r == Append(w, y)
  <2>1. r \in Seq(K)
    OBVIOUS
  <2>2. ToSet(r) = ToSet(w) \cup {y}
    BY AppendSet
  <2>3. Reached(key, r) = Reached(key, w) \cup key[y]
    <3> HIDE DEF r
    <3> QED BY <2>2 DEF Reached
  <2>4. ASSUME Once(r) PROVE Worth(r, val) = Amounts(moves, Reached(key, r))
    <3>1. Once(w) /\ y \notin ToSet(w)
      BY <2>4, AppendSet
    <3>2. ToSet(w) \subseteq K
      BY ElementIn DEF ToSet
    <3>3. Reached(key, w) \cap key[y] = {}
      <4>1. \A x \in ToSet(w) : key[x] \cap key[y] = {}
        <5>1. \A x \in ToSet(w) : x \in K /\ x # y
          BY <3>1, <3>2
        <5> QED BY <1>0, <5>1, Zenon DEF Apart
      <4>2. \A z \in Reached(key, w) : \E x \in ToSet(w) : z \in key[x]
        BY Zenon DEF Reached
      <4> HIDE DEF r, W
      <4> QED BY <4>1, <4>2
    <3>4. Amounts(moves, Reached(key, w) \cup key[y])
            = Amounts(moves, Reached(key, w)) + Amounts(moves, key[y])
      BY <1>5, <3>3, Zenon
    <3>5. Worth(w, val) = Amounts(moves, Reached(key, w))
      BY <1>3, <3>1
    <3>6. Worth(r, val) = Worth(w, val) + val[y]
      BY <1>1
    <3>7. val[y] = Amounts(moves, key[y])
      BY <1>0
    <3> HIDE DEF r, W
    <3> QED BY <2>3, <3>4, <3>5, <3>6, <3>7
  <2> QED BY <2>1, <2>4
<1> HIDE DEF W
<1>4. \A w \in Seq(K) : w \in W
  BY <1>2, <1>3, BuiltUp
<1> QED BY <1>4 DEF W

\* What the elements of a list stand for is worth what each of them is.
WorthEach(S, R, f, val, each) ==
  /\ f \in [S -> Seq(R)] /\ val \in [R -> Int] /\ each \in [S -> Int]
  /\ \A x \in S : each[x] = Worth(f[x], val)

LEMMA WorthFlat ==
  ASSUME NEW S, NEW R, NEW f, NEW val, NEW each, WorthEach(S, R, f, val, each)
  PROVE  \A s \in Seq(S) : Worth(FlatMap(s, f), val) = Worth(s, each)
<1> DEFINE W == {w \in Seq(S) : Worth(FlatMap(w, f), val) = Worth(w, each)}
<1>0. /\ f \in [S -> Seq(R)] /\ val \in [R -> Int] /\ each \in [S -> Int]
      /\ \A x \in S : each[x] = Worth(f[x], val)
  BY DEF WorthEach
<1>1. /\ FlatMap(<<>>, f) = <<>>
      /\ \A w \in Seq(S) : FlatMap(w, f) \in Seq(R)
      /\ \A w \in Seq(S), x \in S : FlatMap(Append(w, x), f) = FlatMap(w, f) \o f[x]
  BY <1>0, FlatMapAppend
<1>2. /\ Worth(<<>>, each) = 0
      /\ \A w \in Seq(S), x \in S : Worth(Append(w, x), each) = Worth(w, each) + each[x]
  BY <1>0, WorthAppend
<1>3. Worth(<<>>, val) = 0
  BY <1>0, WorthAppend
<1>4. <<>> \in W
  BY <1>1, <1>2, <1>3
<1>5. ASSUME NEW w \in Seq(S), NEW x \in S, w \in W PROVE Append(w, x) \in W
  <2>1. Append(w, x) \in Seq(S)
    OBVIOUS
  <2>2. FlatMap(w, f) \in Seq(R) /\ f[x] \in Seq(R)
    BY <1>0, <1>1
  <2>3. Worth(FlatMap(w, f) \o f[x], val) = Worth(FlatMap(w, f), val) + Worth(f[x], val)
    BY <1>0, <2>2, WorthConcat
  <2>4. FlatMap(Append(w, x), f) = FlatMap(w, f) \o f[x]
    BY <1>1
  <2>5. Worth(Append(w, x), each) = Worth(w, each) + each[x]
    BY <1>2
  <2>6. Worth(FlatMap(w, f), val) = Worth(w, each) /\ each[x] = Worth(f[x], val)
    BY <1>0, <1>5
  <2>7. Worth(FlatMap(Append(w, x), f), val) = Worth(Append(w, x), each)
    BY <2>3, <2>4, <2>5, <2>6
  <2> QED BY <2>1, <2>7
<1> HIDE DEF W
<1>6. \A w \in Seq(S) : w \in W
  BY <1>4, <1>5, BuiltUp
<1> QED BY <1>6 DEF W

OwnOf(M) == {a \in DOMAIN CredOf : CredOf[a] \in M}

\* What the transactions of a block together move to the credentials of a set.
Net(block, M) ==
  Amounts(All(block, "outs"), OwnOf(M)) - Amounts(All(block, "ins"), OwnOf(M))
    - Amounts(All(block, "wds"), M)

PerTx(A, field, own, each) ==
  /\ each \in [ResolvedTx -> Int]
  /\ \A tx \in ResolvedTx : tx[field] \in Seq(A \X Nat) /\ each[tx] = Amounts(tx[field], own)

LEMMA AmountsPerTx ==
  ASSUME NEW block \in ResolvedBlk, NEW A, NEW field, NEW own, NEW each,
         PerTx(A, field, own, each)
  PROVE  /\ All(block, field) \in Seq(A \X Nat)
         /\ Amounts(All(block, field), own) = Worth(block.txs, each)
<1> DEFINE T == ResolvedTx
           R == A \X Nat
           f == [tx \in T |-> tx[field]]
           val == Gain(A, own)
<1>1. block.txs \in Seq(T)
  BY DEF ResolvedBlk
<1>0. each \in [T -> Int] /\ \A tx \in T : tx[field] \in Seq(R) /\ each[tx] = Amounts(tx[field], own)
  BY DEF PerTx
<1>2. f \in [T -> Seq(R)] /\ \A tx \in T : f[tx] = tx[field]
  BY <1>0
<1>3. \A i \in DOMAIN block.txs : f[block.txs[i]] = block.txs[i][field]
  BY <1>1, <1>2, ElementIn
<1>4. All(block, field) = FlatMap(block.txs, f)
  BY <1>3 DEF All, FlatMap
<1>5. val \in [R -> Int] /\ \A moves \in Seq(R) : Amounts(moves, own) = Worth(moves, val)
  BY AmountsWorth
<1>6. each \in [T -> Int] /\ \A tx \in T : each[tx] = Amounts(tx[field], own)
  BY <1>0
<1> HIDE DEF f, R, val, T
<1>7. FlatMap(block.txs, f) \in Seq(R)
  BY <1>1, <1>2, FlatMapAppend
<1>8. \A tx \in T : each[tx] = Worth(f[tx], val)
  <2>1. \A tx \in T : f[tx] \in Seq(R)
    BY <1>2
  <2> QED BY <1>2, <1>5, <1>6, <2>1
<1>9. \A s \in Seq(T) : Worth(FlatMap(s, f), val) = Worth(s, each)
  <2>1. WorthEach(T, R, f, val, each)
    <3>1. f \in [T -> Seq(R)]
      BY <1>2
    <3> QED BY <1>5, <1>6, <1>8, <3>1 DEF WorthEach
  <2> QED BY <2>1, WorthFlat
<1> QED BY <1>1, <1>4, <1>5, <1>7, <1>9 DEF R

\* Its transactions one by one move that.
Moving(M) == [tx \in ResolvedTx |-> Moved(tx, M)]

LEMMA BlockMoves ==
  ASSUME NEW block \in ResolvedBlk, NEW M
  PROVE  Moving(M) \in [ResolvedTx -> Int] /\ Worth(block.txs, Moving(M)) = Net(block, M)
<1> DEFINE T == ResolvedTx
           own == OwnOf(M)
           made == [tx \in T |-> Amounts(tx.outs, own)]
           spent == [tx \in T |-> Amounts(tx.ins, own)]
           wd == [tx \in T |-> Amounts(tx.wds, M)]
           taken == [tx \in T |-> spent[tx] + wd[tx]]
           moving == Moving(M)
<1>1. \A tx \in T : /\ tx.outs \in Seq(Addr \X Nat) /\ tx.ins \in Seq(Addr \X Nat)
                    /\ tx.wds \in Seq(Creds \X Nat)
  BY DEF ResolvedTx
<1>2. \A tx \in T : Amounts(tx.outs, own) \in Nat
  BY <1>1, AmountsNat
<1>3. \A tx \in T : Amounts(tx.ins, own) \in Nat
  BY <1>1, AmountsNat
<1>4. \A tx \in T : Amounts(tx.wds, M) \in Nat
  BY <1>1, AmountsNat
<1>5. made \in [T -> Int] /\ spent \in [T -> Int] /\ wd \in [T -> Int]
  BY <1>2, <1>3, <1>4
<1>6. taken \in [T -> Int]
  BY <1>5
<1>7. moving \in [T -> Int]
  BY MovedInt DEF Moving
<1>8. \A tx \in T : /\ moving[tx] = Amounts(tx.outs, own) - Amounts(tx.ins, own) - Amounts(tx.wds, M)
                    /\ made[tx] = Amounts(tx.outs, own) /\ spent[tx] = Amounts(tx.ins, own)
                    /\ wd[tx] = Amounts(tx.wds, M) /\ taken[tx] = spent[tx] + wd[tx]
  BY DEF Moving, Moved, OwnOf
<1>9. block.txs \in Seq(T)
  BY DEF ResolvedBlk
<1> HIDE DEF made, spent, wd, taken, moving, own
<1>10. \A tx \in T : made[tx] = moving[tx] + taken[tx]
  BY <1>2, <1>3, <1>4, <1>8
<1> HIDE DEF T
<1>11. IsTogether(T, made, moving, taken)
  BY <1>5, <1>6, <1>7, <1>10 DEF IsTogether
<1>12. IsTogether(T, taken, spent, wd)
  BY <1>5, <1>6, <1>8 DEF IsTogether
<1>22. \A a, b, c : IsTogether(T, a, b, c) =>
          Worth(block.txs, a) = Worth(block.txs, b) + Worth(block.txs, c)
  BY <1>9, WorthSplits
<1>13. Worth(block.txs, made) = Worth(block.txs, moving) + Worth(block.txs, taken)
  BY <1>11, <1>22
<1>14. Worth(block.txs, taken) = Worth(block.txs, spent) + Worth(block.txs, wd)
  BY <1>12, <1>22
<1>15. Amounts(All(block, "outs"), own) = Worth(block.txs, made)
  <2>1. PerTx(Addr, "outs", own, made)
    BY <1>1, <1>5, <1>8 DEF PerTx, T
  <2> QED BY <2>1, AmountsPerTx
<1>16. Amounts(All(block, "ins"), own) = Worth(block.txs, spent)
  <2>1. PerTx(Addr, "ins", own, spent)
    BY <1>1, <1>5, <1>8 DEF PerTx, T
  <2> QED BY <2>1, AmountsPerTx
<1>17. Amounts(All(block, "wds"), M) = Worth(block.txs, wd)
  <2>1. PerTx(Creds, "wds", M, wd)
    BY <1>1, <1>5, <1>8 DEF PerTx, T
  <2> QED BY <2>1, AmountsPerTx
<1>18. \A v \in [T -> Int] : Worth(block.txs, v) \in Int
  BY <1>9, WorthAppend
<1>19. /\ Worth(block.txs, moving) \in Int /\ Worth(block.txs, spent) \in Int
       /\ Worth(block.txs, wd) \in Int
  BY <1>5, <1>7, <1>18
<1>20. Net(block, M) = Worth(block.txs, made) - Worth(block.txs, spent) - Worth(block.txs, wd)
  BY <1>15, <1>16, <1>17 DEF Net, own
<1>21. Worth(block.txs, moving) = Net(block, M)
  BY <1>13, <1>14, <1>19, <1>20
<1> QED BY <1>7, <1>21 DEF T, moving

\* The event of a block says of money what the block says.
LEMMA SameMoves ==
  ASSUME NEW block \in Block, NEW snap \in Snapshot
  PROVE  /\ All(ResolvedBlock(block, snap), "outs") = All(block, "outs")
         /\ All(ResolvedBlock(block, snap), "ins") = All(block, "ins")
         /\ All(ResolvedBlock(block, snap), "wds") = All(block, "wds")
         /\ \A M : Net(ResolvedBlock(block, snap), M) = Net(block, M)
<1> DEFINE s == [i \in DOMAIN block.txs |-> Resolved(block.txs[i], snap)]
           r == ResolvedBlock(block, snap)
<1>1. block.txs \in Seq(Transaction)
  BY DEF Block
<1>2. r.txs = s
  BY DEF ResolvedBlock, Block
<1>3. \A i \in DOMAIN block.txs : block.txs[i] \in Transaction
  BY <1>1, ElementIn
<1>4. DOMAIN s = DOMAIN block.txs /\ \A i \in DOMAIN block.txs : s[i] = Resolved(block.txs[i], snap)
  OBVIOUS
<1> HIDE DEF s, r
<1>5. \A i \in DOMAIN block.txs : /\ s[i].outs = block.txs[i].outs /\ s[i].ins = block.txs[i].ins
                                  /\ s[i].wds = block.txs[i].wds
  BY <1>3, <1>4, ResolvedIs
<1>6. All(r, "outs") = All(block, "outs")
  BY <1>2, <1>4, <1>5 DEF All
<1>7. All(r, "ins") = All(block, "ins")
  BY <1>2, <1>4, <1>5 DEF All
<1>8. All(r, "wds") = All(block, "wds")
  BY <1>2, <1>4, <1>5 DEF All
<1> QED BY <1>6, <1>7, <1>8 DEF r, Net

-----------------------------------------------------------------------------
(* What a block makes of stake *)

\* What is together worth something is so within any set.
LEMMA WithinSplits ==
  ASSUME NEW S, NEW a, NEW b, NEW c, IsTogether(S, a, b, c), NEW keep, NEW s \in Seq(S)
  PROVE  /\ Worth(s, Within(S, a, keep)) = Worth(s, Within(S, b, keep)) + Worth(s, Within(S, c, keep))
         /\ Worth(s, Within(S, b, keep)) \in Int /\ Worth(s, Within(S, c, keep)) \in Int
<1> DEFINE x == Within(S, a, keep)
           y == Within(S, b, keep)
           z == Within(S, c, keep)
<1>1. /\ a \in [S -> Int] /\ b \in [S -> Int] /\ c \in [S -> Int]
      /\ \A e \in S : a[e] = b[e] + c[e]
  BY DEF IsTogether
<1>2. x \in [S -> Int] /\ y \in [S -> Int] /\ z \in [S -> Int]
  BY <1>1 DEF Within
<1>3. \A e \in S : x[e] = y[e] + z[e]
  <2>1. ASSUME NEW e \in S PROVE x[e] = y[e] + z[e]
    <3>1. /\ x[e] = IF e \in keep THEN a[e] ELSE 0
          /\ y[e] = IF e \in keep THEN b[e] ELSE 0
          /\ z[e] = IF e \in keep THEN c[e] ELSE 0
      BY DEF Within
    <3>2. a[e] = b[e] + c[e]
      BY <1>1
    <3> QED BY <3>1, <3>2
  <2> QED BY <2>1
<1> HIDE DEF x, y, z
<1>4. IsTogether(S, x, y, z)
  BY <1>2, <1>3 DEF IsTogether
<1>5. Worth(s, x) = Worth(s, y) + Worth(s, z)
  BY <1>4, WorthSplits
<1>6. Worth(s, y) \in Int
  BY <1>2, WorthAppend
<1>7. Worth(s, z) \in Int
  BY <1>2, WorthAppend
<1> QED BY <1>5, <1>6, <1>7 DEF x, y, z

Places == [a \in Addr |-> a]

LEMMA PlacesAre ==
  /\ Places \in Seq(Addr) /\ DOMAIN Places = Addr /\ Once(Places) /\ ToSet(Places) = Addr
  /\ IsFiniteSet(Addr)
<1>1. Addr = 1..Len(CredOf) /\ Len(CredOf) \in Nat
  BY FilterAssumption, LenNat DEF Addr
<1>2. Places \in [1..Len(CredOf) -> Addr] /\ \A a \in Addr : Places[a] = a
  BY <1>1 DEF Places
<1>3. Places \in Seq(Addr) /\ DOMAIN Places = Addr /\ Len(Places) = Len(CredOf)
  BY <1>1, <1>2
<1>4. Once(Places)
  BY <1>1, <1>2, <1>3 DEF Once
<1>5. ToSet(Places) = Addr
  BY <1>2, <1>3 DEF ToSet
<1>6. IsFiniteSet(Addr)
  BY <1>1, FS_Interval
<1> QED BY <1>3, <1>4, <1>5, <1>6

\* What each address of a credential gets of a list, together.
LEMMA OwnWorth ==
  ASSUME NEW moves \in Seq(Addr \X Nat), NEW own \in SUBSET Addr, NEW val \in [Addr -> Int],
         \A a \in Addr : val[a] = Amounts(moves, {a})
  PROVE  Worth(Places, Within(Addr, val, own)) = Amounts(moves, own)
<1> DEFINE u == SetToSeq(own)
           key == [a \in Addr |-> {a}]
<1>1. u \in Seq(own) /\ Once(u) /\ ToSet(u) = own
  <2>1. IsFiniteSet(own)
    BY PlacesAre, FS_Subset
  <2> QED BY <2>1, SetToSeqOnce
<1>2. \A a \in Addr : key[a] = {a}
  OBVIOUS
<1> HIDE DEF u, key
<1>3. u \in Seq(Addr)
  BY <1>1
<1>4. Apart(Addr, key)
  BY <1>2 DEF Apart
<1>5. Reached(key, u) = own
  BY <1>1, <1>2 DEF Reached
<1>6. \A a \in Addr : val[a] = Amounts(moves, key[a])
  BY <1>2
<1>7. Worth(u, val) = Amounts(moves, own)
  <2>1. \A w \in Seq(Addr) : Once(w) => Worth(w, val) = Amounts(moves, Reached(key, w))
    <3>1. Spread(Addr, Addr, moves, key, val)
      BY <1>4, <1>6 DEF Spread
    <3> QED BY <3>1, AmountsSpread
  <2> QED BY <1>1, <1>3, <1>5, <2>1
<1>8. Worth(Places, Within(Addr, val, ToSet(u))) = Worth(u, val)
  BY <1>1, <1>3, PlacesAre, WorthExchange
<1> QED BY <1>1, <1>7, <1>8

LEMMA StakeWorth ==
  ASSUME NEW snap \in Snapshot, NEW c
  PROVE  StakeOf(snap, c) = Worth(Places, Within(Addr, snap.bal, OwnOf({c})))
<1>1. DOMAIN snap.bal = Addr
  BY DEF Snapshot
<1>2. \A a \in Addr : Within(Addr, snap.bal, OwnOf({c}))[Places[a]]
                        = IF CredOf[a] = c THEN snap.bal[a] ELSE 0
  BY DEF Within, OwnOf, Places, Addr
<1>3. DOMAIN Places = Addr
  BY DEF Places
<1>4. [a \in DOMAIN snap.bal |-> IF CredOf[a] = c THEN snap.bal[a] ELSE 0]
        = [a \in DOMAIN Places |-> Within(Addr, snap.bal, OwnOf({c}))[Places[a]]]
  BY <1>1, <1>2, <1>3
<1> QED BY <1>4 DEF StakeOf, Worth

\* A block without an epoch's rewards moves a credential's stake by its net.
LEMMA CredMoves ==
  ASSUME NEW snap \in Snapshot, NEW block \in Block, Valid(snap, block),
         block.epoch = snap.epoch, NEW slot \in Nat, NEW c \in Creds
  PROVE  Live(After(snap, block, slot), c) = Live(snap, c) + Net(block, {c})
<1> DEFINE next == After(snap, block, slot)
           own == OwnOf({c})
           outs == All(block, "outs")
           ins == All(block, "ins")
           wds == All(block, "wds")
           made == [a \in Addr |-> Amounts(outs, {a})]
           spent == [a \in Addr |-> Amounts(ins, {a})]
           mid == [a \in Addr |-> next.bal[a] + spent[a]]
<1>1. next \in Snapshot /\ AfterParts(snap, block, slot, next)
  BY AfterTyped, AfterIs
<1>2. outs \in Seq(Addr \X Nat) /\ ins \in Seq(Addr \X Nat)
  <2>1. "outs" \in Fields /\ Raw("outs") = Addr \X Nat /\ "ins" \in Fields /\ Raw("ins") = Addr \X Nat
    BY DEF Fields, Raw
  <2>2. outs \in Seq(Addr \X Nat)
    BY <2>1, AllIs
  <2>3. ins \in Seq(Addr \X Nat)
    BY <2>1, AllIs
  <2> QED BY <2>2, <2>3
<1>3. /\ \A a : Amounts(outs, a) \in Nat
      /\ \A a : Amounts(ins, a) \in Nat
      /\ \A a : Amounts(wds, a) \in Nat
  BY AmountsOf
<1> HIDE DEF next, outs, ins, wds
<1>4. /\ snap.bal \in [Addr -> Nat] /\ next.bal \in [Addr -> Nat]
      /\ snap.reward[c] \in Nat /\ next.reward[c] \in Nat
  BY <1>1 DEF Snapshot
<1>5. made \in [Addr -> Int] /\ spent \in [Addr -> Int]
  BY <1>3
<1>6. mid \in [Addr -> Int] /\ \A a \in Addr : mid[a] = next.bal[a] + spent[a]
  BY <1>4, <1>5
<1>7. \A a \in Addr : made[a] = Amounts(outs, {a}) /\ spent[a] = Amounts(ins, {a})
  OBVIOUS
<1>8. \A a \in Addr : next.bal[a] = snap.bal[a] + made[a] - spent[a]
  BY <1>1, <1>7 DEF AfterParts, outs, ins
<1> HIDE DEF made, spent, mid, own
<1>9. \A a \in Addr : mid[a] = snap.bal[a] + made[a]
  BY <1>4, <1>5, <1>6, <1>8
<1>10. snap.bal \in [Addr -> Int] /\ next.bal \in [Addr -> Int]
  BY <1>4
<1>11. IsTogether(Addr, mid, next.bal, spent)
  BY <1>5, <1>6, <1>10 DEF IsTogether
<1>12. IsTogether(Addr, mid, snap.bal, made)
  BY <1>5, <1>6, <1>9, <1>10 DEF IsTogether
<1> DEFINE Mid == Worth(Places, Within(Addr, mid, own))
           Was == Worth(Places, Within(Addr, snap.bal, own))
           Is == Worth(Places, Within(Addr, next.bal, own))
           Out == Worth(Places, Within(Addr, made, own))
           In == Worth(Places, Within(Addr, spent, own))
<1>13. Mid = Is + In /\ Is \in Int /\ In \in Int
  BY <1>11, PlacesAre, WithinSplits
<1>14. Mid = Was + Out /\ Was \in Int /\ Out \in Int
  BY <1>12, PlacesAre, WithinSplits
<1>15. own \in SUBSET Addr
  BY DEF own, OwnOf, Addr
<1>16. Out = Amounts(outs, own)
  BY <1>2, <1>5, <1>7, <1>15, OwnWorth
<1>17. In = Amounts(ins, own)
  BY <1>2, <1>5, <1>7, <1>15, OwnWorth
<1>18. StakeOf(snap, c) = Was /\ StakeOf(next, c) = Is
  BY <1>1, StakeWorth DEF own
<1> HIDE DEF Mid, Was, Is, Out, In
<1>19. StakeOf(next, c) = StakeOf(snap, c) + Amounts(outs, own) - Amounts(ins, own)
  BY <1>13, <1>14, <1>16, <1>17, <1>18
<1>20. next.reward[c] = snap.reward[c] - Amounts(wds, {c})
  <2>1. ~(block.epoch > snap.epoch)
    BY DEF Snapshot
  <2>2. next.reward[c] = snap.reward[c] + 0 - Amounts(wds, {c})
    BY <1>1, <2>1 DEF AfterParts, wds
  <2> QED BY <1>3, <1>4, <2>2
<1>21. Net(block, {c}) = Amounts(outs, own) - Amounts(ins, own) - Amounts(wds, {c})
  BY DEF Net, outs, ins, wds, own
<1>22. Live(snap, c) = StakeOf(snap, c) + snap.reward[c] /\ Live(next, c) = StakeOf(next, c) + next.reward[c]
  BY DEF Live
<1>23. StakeOf(snap, c) \in Int /\ StakeOf(next, c) \in Int
  BY <1>13, <1>14, <1>18
<1>24. Amounts(outs, own) \in Int /\ Amounts(ins, own) \in Int /\ Amounts(wds, {c}) \in Int
  BY <1>3
<1>25. Live(next, c) = Live(snap, c) + Net(block, {c})
  BY <1>4, <1>19, <1>20, <1>21, <1>22, <1>23, <1>24
<1> QED BY <1>25 DEF next

\* What a block moves to the credentials of a set one by one, together.
LEMMA GroupMoves ==
  ASSUME NEW block \in Block, NEW M \in SUBSET Creds,
         NEW val \in [Creds -> Int], \A c \in Creds : val[c] = Net(block, {c})
  PROVE  Worth(SetToSeq(M), val) = Net(block, M)
<1> DEFINE u == SetToSeq(M)
           outs == All(block, "outs")
           ins == All(block, "ins")
           wds == All(block, "wds")
           key == [c \in Creds |-> OwnOf({c})]
           self == [c \in Creds |-> {c}]
           made == [c \in Creds |-> Amounts(outs, key[c])]
           spent == [c \in Creds |-> Amounts(ins, key[c])]
           wd == [c \in Creds |-> Amounts(wds, self[c])]
           taken == [c \in Creds |-> spent[c] + wd[c]]
<1>1. u \in Seq(M) /\ Once(u) /\ ToSet(u) = M
  <2>1. IsFiniteSet(M)
    BY FilterAssumption, FS_Subset
  <2> QED BY <2>1, SetToSeqOnce
<1>2. outs \in Seq(Addr \X Nat) /\ ins \in Seq(Addr \X Nat) /\ wds \in Seq(Creds \X Nat)
  <2>1. /\ {"outs", "ins", "wds"} \subseteq Fields
        /\ Raw("outs") = Addr \X Nat /\ Raw("ins") = Addr \X Nat /\ Raw("wds") = Creds \X Nat
    BY DEF Fields, Raw
  <2>2. outs \in Seq(Addr \X Nat)
    BY <2>1, AllIs
  <2>3. ins \in Seq(Addr \X Nat)
    BY <2>1, AllIs
  <2>4. wds \in Seq(Creds \X Nat)
    BY <2>1, AllIs
  <2> QED BY <2>2, <2>3, <2>4
<1>3. /\ \A a : Amounts(outs, a) \in Nat
      /\ \A a : Amounts(ins, a) \in Nat
      /\ \A a : Amounts(wds, a) \in Nat
  BY AmountsOf
<1>4. \A c \in Creds : key[c] = OwnOf({c}) /\ self[c] = {c}
  OBVIOUS
<1>5. Apart(Creds, key) /\ Apart(Creds, self)
  BY <1>4 DEF Apart, OwnOf
<1>6. Reached(key, u) = OwnOf(M) /\ Reached(self, u) = M
  <2> HIDE DEF key, self, u
  <2>1. Reached(key, u) = OwnOf(M)
    BY <1>1, <1>4 DEF Reached, OwnOf
  <2>2. Reached(self, u) = M
    <3>1. \A x \in M : self[x] = {x}
      BY <1>4
    <3>2. Reached(self, u) = UNION {self[x] : x \in M}
      BY <1>1 DEF Reached
    <3> QED BY <3>1, <3>2
  <2> QED BY <2>1, <2>2
<1>7. \A c \in Creds : val[c] = Amounts(outs, key[c]) - Amounts(ins, key[c]) - Amounts(wds, self[c])
  BY <1>4 DEF Net
<1> HIDE DEF u, outs, ins, wds, key, self
<1>8. made \in [Creds -> Int] /\ spent \in [Creds -> Int] /\ wd \in [Creds -> Int]
  BY <1>3
<1>9. taken \in [Creds -> Int]
  BY <1>8
<1>10. \A c \in Creds : /\ made[c] = Amounts(outs, key[c]) /\ spent[c] = Amounts(ins, key[c])
                        /\ wd[c] = Amounts(wds, self[c]) /\ taken[c] = spent[c] + wd[c]
  OBVIOUS
<1> HIDE DEF made, spent, wd, taken
<1>11. \A c \in Creds : made[c] = val[c] + taken[c]
  <2>1. ASSUME NEW c \in Creds PROVE made[c] = val[c] + taken[c]
    <3>1. val[c] = made[c] - spent[c] - wd[c] /\ taken[c] = spent[c] + wd[c]
      BY <1>7, <1>10
    <3>2. made[c] \in Int /\ spent[c] \in Int /\ wd[c] \in Int
      BY <1>8
    <3> QED BY <3>1, <3>2
  <2> QED BY <2>1
<1>12. u \in Seq(Creds)
  BY <1>1
<1>13. IsTogether(Creds, made, val, taken)
  BY <1>8, <1>9, <1>11 DEF IsTogether
<1>14. IsTogether(Creds, taken, spent, wd)
  BY <1>8, <1>9, <1>10 DEF IsTogether
<1>15. Worth(u, made) = Worth(u, val) + Worth(u, taken)
  BY <1>12, <1>13, WorthSplits
<1>16. Worth(u, taken) = Worth(u, spent) + Worth(u, wd)
  BY <1>12, <1>14, WorthSplits
<1>17. Worth(u, made) = Amounts(outs, OwnOf(M))
  <2>1. \A w \in Seq(Creds) : Once(w) => Worth(w, made) = Amounts(outs, Reached(key, w))
    <3>1. Spread(Addr, Creds, outs, key, made)
      BY <1>2, <1>5, <1>8, <1>10 DEF Spread
    <3> QED BY <3>1, AmountsSpread
  <2> QED BY <1>1, <1>6, <1>12, <2>1
<1>18. Worth(u, spent) = Amounts(ins, OwnOf(M))
  <2>1. \A w \in Seq(Creds) : Once(w) => Worth(w, spent) = Amounts(ins, Reached(key, w))
    <3>1. Spread(Addr, Creds, ins, key, spent)
      BY <1>2, <1>5, <1>8, <1>10 DEF Spread
    <3> QED BY <3>1, AmountsSpread
  <2> QED BY <1>1, <1>6, <1>12, <2>1
<1>19. Worth(u, wd) = Amounts(wds, M)
  <2>1. \A w \in Seq(Creds) : Once(w) => Worth(w, wd) = Amounts(wds, Reached(self, w))
    <3>1. Spread(Creds, Creds, wds, self, wd)
      BY <1>2, <1>5, <1>8, <1>10 DEF Spread
    <3> QED BY <3>1, AmountsSpread
  <2> QED BY <1>1, <1>6, <1>12, <2>1
<1>20. Worth(u, val) \in Int
  BY <1>12, WorthAppend
<1>21. Amounts(outs, OwnOf(M)) \in Int /\ Amounts(ins, OwnOf(M)) \in Int /\ Amounts(wds, M) \in Int
  BY <1>3
<1>22. Worth(u, val) = Amounts(outs, OwnOf(M)) - Amounts(ins, OwnOf(M)) - Amounts(wds, M)
  BY <1>15, <1>16, <1>17, <1>18, <1>19, <1>20, <1>21
<1> QED BY <1>22 DEF Net, u, outs, ins, wds

\* The stake of some credentials, credential by credential.
Stakes(snap) == [c \in Creds |-> Live(snap, c)]

LEMMA LiveOfIs ==
  ASSUME NEW snap \in Snapshot, NEW M \in SUBSET Creds
  PROVE  /\ Stakes(snap) \in [Creds -> Int] /\ SetToSeq(M) \in Seq(Creds)
         /\ Once(SetToSeq(M)) /\ ToSet(SetToSeq(M)) = M
         /\ LiveOf(snap, M) = Worth(SetToSeq(M), Stakes(snap)) /\ LiveOf(snap, M) \in Int
<1> DEFINE u == SetToSeq(M)
<1>1. u \in Seq(M) /\ Once(u) /\ ToSet(u) = M
  <2>1. IsFiniteSet(M)
    BY FilterAssumption, FS_Subset
  <2> QED BY <2>1, SetToSeqOnce
<1>2. LiveOf(snap, M) = SumSeq([i \in DOMAIN u |-> Live(snap, u[i])])
  BY DEF LiveOf
<1> HIDE DEF u
<1>3. u \in Seq(Creds)
  BY <1>1
<1>4. \A i \in DOMAIN u : u[i] \in Creds
  BY <1>3, ElementIn
<1>5. [i \in DOMAIN u |-> Live(snap, u[i])] = [i \in DOMAIN u |-> Stakes(snap)[u[i]]]
  BY <1>4 DEF Stakes
<1>6. LiveOf(snap, M) = Worth(u, Stakes(snap))
  BY <1>2, <1>5 DEF Worth
<1>7. Stakes(snap) \in [Creds -> Int]
  <2>1. \A c \in Creds : Live(snap, c) \in Nat
    BY LiveNat
  <2> QED BY <2>1 DEF Stakes
<1>8. Worth(u, Stakes(snap)) \in Int
  BY <1>3, <1>7, WorthAppend
<1> QED BY <1>1, <1>3, <1>6, <1>7, <1>8 DEF u

LEMMA StakeMoves ==
  ASSUME NEW snap \in Snapshot, NEW block \in Block, Valid(snap, block),
         block.epoch = snap.epoch, NEW slot \in Nat, NEW M \in SUBSET Creds
  PROVE  /\ LiveOf(After(snap, block, slot), M) = LiveOf(snap, M) + Net(block, M)
         /\ Net(block, M) \in Int
<1> DEFINE next == After(snap, block, slot)
           u == SetToSeq(M)
           val == [c \in Creds |-> Net(block, {c})]
           was == Stakes(snap)
           is == Stakes(next)
<1>1. next \in Snapshot
  BY AfterTyped
<1>2. \A c \in Creds : Live(next, c) = Live(snap, c) + Net(block, {c})
  BY CredMoves
<1>3. \A K : Net(block, K) \in Int
  <2>1. ASSUME NEW K PROVE Net(block, K) \in Int
    <3>1. /\ Amounts(All(block, "outs"), OwnOf(K)) \in Nat
          /\ Amounts(All(block, "ins"), OwnOf(K)) \in Nat
      BY AmountsOf
    <3>2. Amounts(All(block, "wds"), K) \in Nat
      BY AmountsOf
    <3> QED BY <3>1, <3>2 DEF Net
  <2> QED BY <2>1
<1>4. val \in [Creds -> Int] /\ \A c \in Creds : val[c] = Net(block, {c})
  BY <1>3
<1>5. \A c \in Creds : is[c] = Live(next, c) /\ was[c] = Live(snap, c)
  BY DEF Stakes
<1> HIDE DEF next, val
<1>6. u \in Seq(Creds) /\ was \in [Creds -> Int] /\ LiveOf(snap, M) = Worth(u, was)
      /\ LiveOf(snap, M) \in Int
  BY LiveOfIs
<1>7. is \in [Creds -> Int] /\ LiveOf(next, M) = Worth(u, is)
  BY <1>1, LiveOfIs
<1>8. Worth(u, val) = Net(block, M)
  BY <1>4, GroupMoves
<1> HIDE DEF u, was, is
<1>9. \A c \in Creds : is[c] = was[c] + val[c]
  BY <1>2, <1>4, <1>5
<1>10. IsTogether(Creds, is, was, val)
  BY <1>4, <1>6, <1>7, <1>9 DEF IsTogether
<1>11. Worth(u, is) = Worth(u, was) + Worth(u, val)
  BY <1>6, <1>10, WorthSplits
<1> QED BY <1>3, <1>6, <1>7, <1>8, <1>11 DEF next

-----------------------------------------------------------------------------
(* What delegations make of stake *)

\* What a certificate says in the event of its block.
Told(snap, x) ==
  [cred |-> x[1], from |-> snap.deleg[x[1]], to |-> x[2], stake |-> Live(snap, x[1])]

LEMMA CertsAre ==
  ASSUME NEW snap \in Snapshot, NEW block \in Block
  PROVE  /\ All(ResolvedBlock(block, snap), "certs") \in Seq(Certificate)
         /\ ToSet(All(ResolvedBlock(block, snap), "certs"))
              = {Told(snap, x) : x \in ToSet(All(block, "certs"))}
<1> DEFINE r == ResolvedBlock(block, snap)
           T == ResolvedTx
           f == [tx \in T |-> tx.certs]
           raw == All(block, "certs")
<1>1. r \in ResolvedBlk /\ ToSet(r.txs) = {Resolved(tx, snap) : tx \in ToSet(block.txs)}
  BY ResolvedBlockIs
<1>2. r.txs \in Seq(T)
  BY <1>1 DEF ResolvedBlk
<1>3. f \in [T -> Seq(Certificate)] /\ \A tx \in T : f[tx] = tx.certs
  BY DEF ResolvedTx
<1> HIDE DEF r, T, f
<1>4. \A i \in DOMAIN r.txs : f[r.txs[i]] = r.txs[i]["certs"]
  BY <1>2, <1>3, ElementIn
<1>5. All(r, "certs") = FlatMap(r.txs, f)
  BY <1>4 DEF All, FlatMap
<1>6. FlatMap(r.txs, f) \in Seq(Certificate)
  BY <1>2, <1>3, FlatMapAppend
<1>7. ToSet(FlatMap(r.txs, f)) = UNION {ToSet(f[tx]) : tx \in ToSet(r.txs)}
  BY <1>2, <1>3, FlatMapElements
<1>8. block.txs \in Seq(Transaction)
  BY DEF Block
<1>9. ToSet(block.txs) \subseteq Transaction
  BY <1>8, ElementIn DEF ToSet
<1>10. ToSet(r.txs) \subseteq T
  BY <1>2, ElementIn DEF ToSet
<1>11. ASSUME NEW tx \in ToSet(block.txs)
       PROVE  ToSet(f[Resolved(tx, snap)]) = {Told(snap, x) : x \in ToSet(tx.certs)}
  <2> DEFINE s == [i \in DOMAIN tx.certs |-> Told(snap, tx.certs[i])]
  <2>1. Resolved(tx, snap).certs = s
    BY <1>9 DEF Resolved, Told, Transaction
  <2>2. Resolved(tx, snap) \in T
    BY <1>1, <1>10
  <2>3. f[Resolved(tx, snap)] = s
    BY <1>3, <2>1, <2>2
  <2>4. ToSet(s) = {Told(snap, x) : x \in ToSet(tx.certs)}
    BY DEF ToSet
  <2> QED BY <2>3, <2>4
<1>12. \A x : x \in ToSet(raw) <=> \E tx \in ToSet(block.txs) : x \in ToSet(tx.certs)
  <2>1. "certs" \in Fields
    BY DEF Fields
  <2>2. \A x : x \in ToSet(raw) <=> \E tx \in ToSet(block.txs) : x \in ToSet(tx["certs"])
    BY <2>1, AllIs
  <2> QED BY <2>2
<1> HIDE DEF raw
<1>13. UNION {ToSet(f[tx]) : tx \in ToSet(r.txs)}
         = UNION {ToSet(f[Resolved(tx, snap)]) : tx \in ToSet(block.txs)}
  BY <1>1
<1>14. UNION {ToSet(f[Resolved(tx, snap)]) : tx \in ToSet(block.txs)}
         = {Told(snap, x) : x \in ToSet(raw)}
  <2> DEFINE A == UNION {ToSet(f[Resolved(tx, snap)]) : tx \in ToSet(block.txs)}
             B == {Told(snap, x) : x \in ToSet(raw)}
  <2>1. ASSUME NEW z \in A PROVE z \in B
    <3>1. PICK tx \in ToSet(block.txs) : z \in ToSet(f[Resolved(tx, snap)])
      OBVIOUS
    <3>2. z \in {Told(snap, x) : x \in ToSet(tx.certs)}
      BY <1>11, <3>1
    <3>3. PICK x \in ToSet(tx.certs) : z = Told(snap, x)
      BY <3>2
    <3>4. x \in ToSet(raw)
      BY <1>12
    <3> QED BY <3>3, <3>4
  <2>2. ASSUME NEW z \in B PROVE z \in A
    <3>1. PICK x \in ToSet(raw) : z = Told(snap, x)
      OBVIOUS
    <3>2. PICK tx \in ToSet(block.txs) : x \in ToSet(tx.certs)
      BY <1>12
    <3>3. z \in ToSet(f[Resolved(tx, snap)])
      BY <1>11, <3>1, <3>2
    <3> QED BY <3>3
  <2> QED BY <2>1, <2>2
<1> QED BY <1>5, <1>6, <1>7, <1>13, <1>14 DEF r, raw

\* No two certificates are of one credential.
OncePer(certs) == \A i, j \in DOMAIN certs : i # j => certs[i].cred # certs[j].cred

\* Then each says what its credential delegates to after the block.
LEMMA CertDecides ==
  ASSUME NEW snap \in Snapshot, NEW block \in Block,
         OncePer(All(ResolvedBlock(block, snap), "certs")),
         NEW d \in ToSet(All(ResolvedBlock(block, snap), "certs"))
  PROVE  /\ d \in Certificate /\ d.from = snap.deleg[d.cred] /\ d.stake = Live(snap, d.cred)
         /\ Target(snap, block, d.cred) = d.to
<1> DEFINE told == All(ResolvedBlock(block, snap), "certs")
           certs == All(block, "certs")
           R == Creds \X (Targets \cup {NoTarget})
           keep == {x \in ToSet(certs) : x[1] = d.cred}
           mine == Sift(certs, keep)
<1>1. told \in Seq(Certificate) /\ ToSet(told) = {Told(snap, x) : x \in ToSet(certs)}
  BY CertsAre
<1>2. certs \in Seq(R)
  <2>1. "certs" \in Fields /\ Raw("certs") = R
    BY DEF Fields, Raw
  <2> QED BY <2>1, AllIs
<1>3. OncePer(told) /\ d \in ToSet(told)
  OBVIOUS
<1>4. Target(snap, block, d.cred) = IF mine = <<>> THEN snap.deleg[d.cred] ELSE Last(mine)[2]
  BY DEF Target
<1> HIDE DEF told, certs
<1>5. PICK x \in ToSet(certs) : d = Told(snap, x)
  BY <1>1, <1>3
<1>6. d.cred = x[1] /\ d.from = snap.deleg[d.cred] /\ d.stake = Live(snap, d.cred)
  BY <1>5 DEF Told
<1>7. d \in Certificate
  BY <1>1, <1>3, ElementIn DEF ToSet
<1>8. x \in keep
  BY <1>6
<1>9. mine \in Seq(R \cap keep)
  BY <1>2, SiftIn
<1>10. {mine[j] : j \in DOMAIN mine} = {certs[j] : j \in DOMAIN certs} \cap keep
  <2>1. certs \in Seq(R)
    BY <1>2
  <2> HIDE DEF R, keep
  <2>2. {Sift(certs, keep)[j] : j \in DOMAIN Sift(certs, keep)}
          = {certs[j] : j \in DOMAIN certs} \cap keep
    BY <2>1, SiftElements
  <2> QED BY <2>2, Zenon
<1>11. \E j \in DOMAIN mine : mine[j] = x
  <2>1. x \in {certs[j] : j \in DOMAIN certs}
    BY DEF ToSet
  <2> QED BY <1>8, <1>10, <2>1
<1> HIDE DEF mine
<1>12. mine # <<>> /\ Last(mine) \in keep
  <2>1. PICK j \in DOMAIN mine : mine[j] = x
    BY <1>11
  <2>2. mine # <<>>
    BY <2>1
  <2>3. mine[Len(mine)] \in R \cap keep
    BY <1>9, <2>2
  <2> QED BY <2>2, <2>3 DEF Last
<1> DEFINE y == Last(mine)
<1>13. y \in ToSet(certs) /\ y[1] = d.cred
  BY <1>12
<1> HIDE DEF y
<1>14. Told(snap, y) \in ToSet(told) /\ Told(snap, y).cred = d.cred /\ Told(snap, y).to = y[2]
  BY <1>1, <1>13 DEF Told
<1>15. Told(snap, y) = d
  <2>1. PICK i \in DOMAIN told : told[i] = d
    BY <1>3 DEF ToSet
  <2>2. PICK j \in DOMAIN told : told[j] = Told(snap, y)
    BY <1>14 DEF ToSet
  <2>3. i = j
    BY <1>3, <1>14, <2>1, <2>2 DEF OncePer
  <2> QED BY <2>1, <2>2, <2>3
<1>16. Target(snap, block, d.cred) = d.to
  BY <1>4, <1>12, <1>14, <1>15 DEF y
<1> QED BY <1>6, <1>7, <1>16

\* What a certificate brings to a target.
Brought(f) ==
  [d \in Certificate |-> IF d.to = f.id /\ d.from # f.id THEN d.stake
                         ELSE IF d.from = f.id /\ d.to # f.id THEN -d.stake ELSE 0]

LEMMA JoinedWorth ==
  ASSUME NEW f, Delegates(f)
  PROVE  /\ Brought(f) \in [Certificate -> Int]
         /\ \A tx \in ResolvedTx : /\ Joined(f, tx) = Worth(tx.certs, Brought(f))
                                   /\ Joined(f, tx) \in Int
<1>1. Brought(f) \in [Certificate -> Int]
  <2>1. \A d \in Certificate : d.stake \in Int /\ -d.stake \in Int
    BY DEF Certificate
  <2> QED BY <2>1 DEF Brought
<1>2. ASSUME NEW tx \in ResolvedTx
      PROVE  Joined(f, tx) = Worth(tx.certs, Brought(f)) /\ Joined(f, tx) \in Int
  <2> DEFINE Brings(d) == IF d.to = f.id /\ d.from # f.id THEN d.stake
                          ELSE IF d.from = f.id /\ d.to # f.id THEN -d.stake ELSE 0
             certs == tx.certs
  <2>1. certs \in Seq(Certificate)
    BY DEF ResolvedTx
  <2>2. Joined(f, tx) = SumSeq([i \in DOMAIN certs |-> Brings(certs[i])])
    BY DEF Joined
  <2>3. \A d \in Certificate : Brought(f)[d] = Brings(d)
    BY DEF Brought
  <2> HIDE DEF Brings, certs
  <2>4. \A i \in DOMAIN certs : certs[i] \in Certificate
    BY <2>1, ElementIn
  <2>5. [i \in DOMAIN certs |-> Brings(certs[i])] = [i \in DOMAIN certs |-> Brought(f)[certs[i]]]
    BY <2>3, <2>4
  <2>6. Joined(f, tx) = Worth(certs, Brought(f))
    BY <2>2, <2>5 DEF Worth
  <2>7. Worth(certs, Brought(f)) \in Int
    BY <1>1, <2>1, WorthAppend
  <2> QED BY <2>6, <2>7 DEF certs
<1> QED BY <1>1, <1>2

Joining(f) == [tx \in ResolvedTx |-> Joined(f, tx)]

LEMMA BlockJoins ==
  ASSUME NEW block \in ResolvedBlk, NEW f, Delegates(f)
  PROVE  /\ Joining(f) \in [ResolvedTx -> Int]
         /\ Worth(block.txs, Joining(f)) = Worth(All(block, "certs"), Brought(f))
<1> DEFINE T == ResolvedTx
           g == [tx \in T |-> tx.certs]
           val == Brought(f)
           each == Joining(f)
<1>1. block.txs \in Seq(T)
  BY DEF ResolvedBlk
<1>2. g \in [T -> Seq(Certificate)] /\ \A tx \in T : g[tx] = tx.certs
  BY DEF ResolvedTx
<1>3. val \in [Certificate -> Int] /\ \A tx \in T : Joined(f, tx) = Worth(tx.certs, val) /\ Joined(f, tx) \in Int
  BY JoinedWorth
<1>4. each \in [T -> Int] /\ \A tx \in T : each[tx] = Joined(f, tx)
  BY <1>3 DEF Joining
<1> HIDE DEF T, g, val, each
<1>5. \A i \in DOMAIN block.txs : g[block.txs[i]] = block.txs[i]["certs"]
  BY <1>1, <1>2, ElementIn
<1>6. All(block, "certs") = FlatMap(block.txs, g)
  BY <1>5 DEF All, FlatMap
<1>7. \A tx \in T : each[tx] = Worth(g[tx], val)
  BY <1>2, <1>3, <1>4
<1>8. \A s \in Seq(T) : Worth(FlatMap(s, g), val) = Worth(s, each)
  <2>1. WorthEach(T, Certificate, g, val, each)
    <3>1. g \in [T -> Seq(Certificate)]
      BY <1>2
    <3>2. val \in [Certificate -> Int]
      BY <1>3
    <3>3. each \in [T -> Int]
      BY <1>4
    <3> QED BY <1>7, <3>1, <3>2, <3>3 DEF WorthEach
  <2> QED BY <2>1, WorthFlat
<1> QED BY <1>1, <1>4, <1>6, <1>8 DEF T, val, each

\* With the stakes from before the block, those that delegate after it have
\* what those before had, and what its certificates bring.
LEMMA MembersJoin ==
  ASSUME NEW snap \in Snapshot, NEW block \in Block, NEW slot \in Nat, NEW f, Delegates(f),
         OncePer(All(ResolvedBlock(block, snap), "certs"))
  PROVE  LiveOf(snap, Members(f, After(snap, block, slot)))
           = LiveOf(snap, Members(f, snap))
               + Worth(All(ResolvedBlock(block, snap), "certs"), Brought(f))
<1> DEFINE next == After(snap, block, slot)
           certs == All(ResolvedBlock(block, snap), "certs")
           M == Members(f, snap)
           N == Members(f, next)
           cs == SetToSeq(Creds)
           L == Stakes(snap)
           before == Within(Creds, L, M)
           after == Within(Creds, L, N)
           val == [c \in Creds |-> after[c] - before[c]]
           u == [i \in DOMAIN certs |-> certs[i].cred]
<1>1. M = {c \in Creds : snap.deleg[c] = f.id} /\ M \in SUBSET Creds
  BY MembersIs
<1>2. N = {c \in Creds : next.deleg[c] = f.id} /\ N \in SUBSET Creds
  BY MembersIs
<1>3. \A c \in Creds : next.deleg[c] = Target(snap, block, c)
  BY DEF After
<1>4. /\ certs \in Seq(Certificate) /\ OncePer(certs)
      /\ ToSet(certs) = {Told(snap, x) : x \in ToSet(All(block, "certs"))}
  BY CertsAre
<1>5. \A d \in ToSet(certs) : /\ d \in Certificate /\ d.from = snap.deleg[d.cred]
                              /\ d.stake = Live(snap, d.cred) /\ Target(snap, block, d.cred) = d.to
  BY CertDecides
<1>6. \A c \in Creds : L[c] = Live(snap, c)
  BY DEF Stakes
<1>7. /\ L \in [Creds -> Int] /\ cs \in Seq(Creds) /\ Once(cs) /\ ToSet(cs) = Creds
  BY LiveOfIs
<1>8. LiveOf(snap, M) = Worth(SetToSeq(M), L) /\ SetToSeq(M) \in Seq(Creds)
      /\ Once(SetToSeq(M)) /\ ToSet(SetToSeq(M)) = M
  BY <1>1, LiveOfIs
<1>9. LiveOf(snap, N) = Worth(SetToSeq(N), L) /\ SetToSeq(N) \in Seq(Creds)
      /\ Once(SetToSeq(N)) /\ ToSet(SetToSeq(N)) = N
  BY <1>2, LiveOfIs
<1> HIDE DEF next, certs, M, N, cs, L
<1>10. Worth(cs, before) = LiveOf(snap, M)
  <2>1. Worth(cs, Within(Creds, L, ToSet(SetToSeq(M)))) = Worth(SetToSeq(M), L)
    BY <1>1, <1>7, <1>8, WorthExchange
  <2> QED BY <1>8, <2>1
<1>11. Worth(cs, after) = LiveOf(snap, N)
  <2>1. Worth(cs, Within(Creds, L, ToSet(SetToSeq(N)))) = Worth(SetToSeq(N), L)
    BY <1>2, <1>7, <1>9, WorthExchange
  <2> QED BY <1>9, <2>1
<1>12. \A c \in Creds : /\ before[c] = IF c \in M THEN L[c] ELSE 0
                        /\ after[c] = IF c \in N THEN L[c] ELSE 0
  BY DEF Within
<1>13. before \in [Creds -> Int] /\ after \in [Creds -> Int]
  BY <1>7 DEF Within
<1> HIDE DEF before, after
<1>14. val \in [Creds -> Int] /\ \A c \in Creds : val[c] = after[c] - before[c]
  BY <1>13
<1> HIDE DEF val
<1>15. \A c \in Creds : after[c] = before[c] + val[c]
  BY <1>13, <1>14
<1>16. IsTogether(Creds, after, before, val)
  BY <1>13, <1>14, <1>15 DEF IsTogether
<1>17. Worth(cs, after) = Worth(cs, before) + Worth(cs, val)
  BY <1>7, <1>16, WorthSplits
<1>18. \A d \in Certificate : d.cred \in Creds
  BY DEF Certificate
<1>19. DOMAIN certs = 1..Len(certs) /\ Len(certs) \in Nat /\ \A i \in DOMAIN certs : certs[i] \in Certificate
  BY <1>4, LenNat, ElementIn
<1>20. /\ u \in Seq(Creds) /\ Len(u) = Len(certs) /\ DOMAIN u = DOMAIN certs
       /\ \A i \in DOMAIN certs : u[i] = certs[i].cred
  <2>1. \A i \in DOMAIN certs : certs[i].cred \in Creds
    BY <1>18, <1>19
  <2>2. u \in Seq(Creds) /\ Len(u) = Len(certs)
    BY <1>19, <2>1
  <2> QED BY <2>2
<1> HIDE DEF u
<1>21. Once(u)
  BY <1>4, <1>19, <1>20 DEF Once, OncePer
<1>22. ToSet(u) = {d.cred : d \in ToSet(certs)}
  BY <1>20 DEF ToSet
<1>23. ASSUME NEW c \in Creds, c \notin ToSet(u) PROVE val[c] = 0
  <2>1. ASSUME NEW x \in ToSet(All(block, "certs")) PROVE x[1] # c
    <3>1. Told(snap, x) \in ToSet(certs) /\ Told(snap, x).cred = x[1]
      BY <1>4 DEF Told
    <3> QED BY <1>22, <1>23, <3>1
  <2>2. Target(snap, block, c) = snap.deleg[c]
    BY <2>1, TargetIs
  <2>3. c \in M <=> c \in N
    BY <1>1, <1>2, <1>3, <2>2
  <2>4. after[c] = before[c]
    BY <1>12, <2>3
  <2> QED BY <1>13, <1>14, <2>4
<1>24. Within(Creds, val, ToSet(u)) = val
  <2>1. \A c \in Creds : (IF c \in ToSet(u) THEN val[c] ELSE 0) = val[c]
    BY <1>23
  <2> QED BY <1>14, <2>1 DEF Within
<1>25. Worth(cs, val) = Worth(u, val)
  <2>1. ToSet(u) \subseteq ToSet(cs)
    BY <1>7, <1>20, ElementIn DEF ToSet
  <2>2. Worth(cs, Within(Creds, val, ToSet(u))) = Worth(u, val)
    BY <1>7, <1>14, <1>20, <1>21, <2>1, WorthExchange
  <2> QED BY <1>24, <2>2
<1>26. ASSUME NEW i \in DOMAIN certs PROVE val[u[i]] = Brought(f)[certs[i]]
  <2> DEFINE d == certs[i]
             c == u[i]
  <2>1. d \in ToSet(certs) /\ c = d.cred
    BY <1>20 DEF ToSet
  <2>2. /\ d \in Certificate /\ d.from = snap.deleg[c] /\ d.stake = Live(snap, c)
        /\ Target(snap, block, c) = d.to
    BY <1>5, <2>1
  <2>3. c \in Creds
    BY <2>1, <2>2 DEF Certificate
  <2>4. Brought(f)[d] = IF d.to = f.id /\ d.from # f.id THEN d.stake
                        ELSE IF d.from = f.id /\ d.to # f.id THEN -d.stake ELSE 0
    BY <2>2 DEF Brought
  <2>5. (c \in N <=> d.to = f.id) /\ (c \in M <=> d.from = f.id)
    BY <1>1, <1>2, <1>3, <2>2, <2>3
  <2>6. /\ before[c] = (IF c \in M THEN L[c] ELSE 0) /\ after[c] = (IF c \in N THEN L[c] ELSE 0)
        /\ L[c] = d.stake /\ L[c] \in Int /\ val[c] = after[c] - before[c]
    BY <1>6, <1>7, <1>12, <1>14, <2>2, <2>3
  <2> HIDE DEF c, d
  <2>7. val[c] = Brought(f)[d]
    BY <2>4, <2>5, <2>6
  <2> QED BY <2>7 DEF c, d
<1>27. Worth(u, val) = Worth(certs, Brought(f))
  <2>1. [i \in DOMAIN u |-> val[u[i]]] = [i \in DOMAIN certs |-> Brought(f)[certs[i]]]
    BY <1>20, <1>26
  <2> QED BY <2>1 DEF Worth
<1> QED BY <1>10, <1>11, <1>17, <1>25, <1>27 DEF next, certs, M, N

-----------------------------------------------------------------------------
(* What a feed shows of a block *)

\* The changes of a block that are shown, together.
Shown(f, block, members) ==
  LET changes == FilterBlock(f, block, members)
  IN  SumSeq([i \in DOMAIN block.txs |-> IF i \in DOMAIN changes THEN changes[i] ELSE 0])

\* What is not shown changes nothing.
LEMMA ShownIs ==
  ASSUME NEW block \in ResolvedBlk, NEW f, NEW M, ~MatchesBlock(f, block),
         NEW each \in [ResolvedTx -> Int],
         \A tx \in ResolvedTx : each[tx] = StakeChange(f, tx, M),
         \A tx \in ToSet(block.txs) : ~MatchesTx(f, tx, M) => StakeChange(f, tx, M) = 0
  PROVE  Shown(f, block, M) = Worth(block.txs, each)
<1> DEFINE txs == block.txs
           changes == FilterBlock(f, block, M)
           J == {j \in DOMAIN txs : MatchesTx(f, txs[j], M)}
<1>1. changes = [i \in J |-> StakeChange(f, txs[i], M)]
  BY DEF FilterBlock
<1>2. txs \in Seq(ResolvedTx)
  BY DEF ResolvedBlk
<1>3. \A i \in DOMAIN txs : txs[i] \in ResolvedTx /\ txs[i] \in ToSet(txs)
  BY <1>2, ElementIn DEF ToSet
<1>4. Shown(f, block, M) = SumSeq([i \in DOMAIN txs |-> IF i \in DOMAIN changes THEN changes[i] ELSE 0])
  BY DEF Shown
<1> HIDE DEF changes, txs
<1>5. ASSUME NEW i \in DOMAIN txs
      PROVE  (IF i \in DOMAIN changes THEN changes[i] ELSE 0) = each[txs[i]]
  <2>1. each[txs[i]] = StakeChange(f, txs[i], M)
    BY <1>3
  <2>2. CASE i \in J
    BY <1>1, <2>1, <2>2
  <2>3. CASE i \notin J
    <3>1. StakeChange(f, txs[i], M) = 0
      BY <1>3, <2>3 DEF txs
    <3>2. i \notin DOMAIN changes
      BY <1>1, <2>3
    <3> QED BY <2>1, <3>1, <3>2
  <2> QED BY <2>2, <2>3
<1>6. [i \in DOMAIN txs |-> IF i \in DOMAIN changes THEN changes[i] ELSE 0]
        = [i \in DOMAIN txs |-> each[txs[i]]]
  BY <1>5
<1> QED BY <1>4, <1>6 DEF Worth, txs

\* The feed of an address.
LEMMA AddressAddsUp ==
  ASSUME NEW snap \in Snapshot, NEW block \in Block, NEW slot \in Nat, Valid(snap, block),
         NEW f, f.kind = "address", f.id \in Addr, NEW M
  PROVE  LiveStake(f, After(snap, block, slot))
           = LiveStake(f, snap) + Shown(f, ResolvedBlock(block, snap), M)
<1> DEFINE next == After(snap, block, slot)
           r == ResolvedBlock(block, snap)
           T == ResolvedTx
           own == {f.id}
           made == [tx \in T |-> Amounts(tx.outs, own)]
           spent == [tx \in T |-> Amounts(tx.ins, own)]
           each == [tx \in T |-> StakeChange(f, tx, M)]
<1>1. next \in Snapshot /\ AfterParts(snap, block, slot, next)
  BY AfterTyped, AfterIs
<1>2. LiveStake(f, snap) = snap.bal[f.id] /\ LiveStake(f, next) = next.bal[f.id]
  BY DEF LiveStake
<1>3. next.bal[f.id] = snap.bal[f.id] + Amounts(All(block, "outs"), own) - Amounts(All(block, "ins"), own)
  BY <1>1 DEF AfterParts
<1>4. All(r, "outs") = All(block, "outs") /\ All(r, "ins") = All(block, "ins")
  BY SameMoves
<1>5. r \in ResolvedBlk
  BY ResolvedBlockIs
<1>6. \A tx \in T : tx.outs \in Seq(Addr \X Nat) /\ tx.ins \in Seq(Addr \X Nat)
  BY DEF ResolvedTx
<1>7. \A tx \in T : Amounts(tx.outs, own) \in Nat
  BY <1>6, AmountsNat
<1>8. \A tx \in T : Amounts(tx.ins, own) \in Nat
  BY <1>6, AmountsNat
<1>9. ~MatchesBlock(f, r)
  BY DEF MatchesBlock
<1>10. \A tx \in T : StakeChange(f, tx, M) = Amounts(tx.outs, own) - Amounts(tx.ins, own)
  BY DEF StakeChange
<1>11. made \in [T -> Int] /\ spent \in [T -> Int] /\ each \in [T -> Int]
  <2>1. \A tx \in T : Amounts(tx.outs, own) - Amounts(tx.ins, own) \in Int
    BY <1>7, <1>8
  <2>2. \A tx \in T : StakeChange(f, tx, M) \in Int
    BY <1>10, <2>1
  <2>3. each \in [T -> Int]
    BY <2>2
  <2>4. made \in [T -> Int]
    BY <1>7
  <2>5. spent \in [T -> Int]
    BY <1>8
  <2> QED BY <2>3, <2>4, <2>5
<1>12. \A tx \in T : /\ made[tx] = Amounts(tx.outs, own) /\ spent[tx] = Amounts(tx.ins, own)
                     /\ each[tx] = StakeChange(f, tx, M)
  OBVIOUS
<1>13. r.txs \in Seq(T)
  BY <1>5 DEF ResolvedBlk
<1>14. ToSet(r.txs) \subseteq T
  BY <1>13, ElementIn DEF ToSet
<1> HIDE DEF next, r, T, made, spent, each
<1>15. ASSUME NEW tx \in ToSet(r.txs), ~MatchesTx(f, tx, M) PROVE StakeChange(f, tx, M) = 0
  <2>1. \A m \in ToSet(tx.ins) \cup ToSet(tx.outs) : m[1] # f.id
    BY <1>15 DEF MatchesTx
  <2>2. tx.outs \in Seq(Addr \X Nat) /\ tx.ins \in Seq(Addr \X Nat)
    BY <1>6, <1>14
  <2>3. Amounts(tx.outs, own) = 0
    <3>1. \A m \in ToSet(tx.outs) : m[1] \notin own
      BY <2>1
    <3> QED BY <2>2, <3>1, AmountsNone
  <2>4. Amounts(tx.ins, own) = 0
    <3>1. \A m \in ToSet(tx.ins) : m[1] \notin own
      BY <2>1
    <3> QED BY <2>2, <3>1, AmountsNone
  <2> QED BY <1>10, <1>14, <2>3, <2>4
<1>16. Shown(f, r, M) = Worth(r.txs, each)
  BY <1>5, <1>9, <1>11, <1>12, <1>15, ShownIs DEF T
<1>17. \A tx \in T : made[tx] = each[tx] + spent[tx]
  <2>1. ASSUME NEW tx \in T PROVE made[tx] = each[tx] + spent[tx]
    <3>1. each[tx] = made[tx] - spent[tx]
      BY <1>10, <1>12
    <3>2. made[tx] \in Int /\ spent[tx] \in Int
      BY <1>11
    <3> QED BY <3>1, <3>2
  <2> QED BY <2>1
<1>18. IsTogether(T, made, each, spent)
  BY <1>11, <1>17 DEF IsTogether
<1>19. Worth(r.txs, made) = Worth(r.txs, each) + Worth(r.txs, spent)
  BY <1>13, <1>18, WorthSplits
<1>20. Worth(r.txs, each) \in Int /\ Worth(r.txs, spent) \in Int
  <2>1. Worth(r.txs, each) \in Int
    BY <1>11, <1>13, WorthAppend
  <2>2. Worth(r.txs, spent) \in Int
    BY <1>11, <1>13, WorthAppend
  <2> QED BY <2>1, <2>2
<1>21. Amounts(All(r, "outs"), own) = Worth(r.txs, made)
  <2>1. PerTx(Addr, "outs", own, made)
    BY <1>6, <1>11, <1>12 DEF PerTx, T
  <2> QED BY <1>5, <2>1, AmountsPerTx
<1>22. Amounts(All(r, "ins"), own) = Worth(r.txs, spent)
  <2>1. PerTx(Addr, "ins", own, spent)
    BY <1>6, <1>11, <1>12 DEF PerTx, T
  <2> QED BY <1>5, <2>1, AmountsPerTx
<1>23. snap.bal[f.id] \in Int
  BY DEF Snapshot
<1>24. next.bal[f.id] = snap.bal[f.id] + Worth(r.txs, each)
  BY <1>3, <1>4, <1>19, <1>20, <1>21, <1>22, <1>23
<1> QED BY <1>2, <1>16, <1>24 DEF next, r

\* The feed of a credential, a pool or a DRep.
LEMMA CredsAddUp ==
  ASSUME NEW snap \in Snapshot, NEW block \in Block, NEW slot \in Nat, Valid(snap, block),
         block.epoch = snap.epoch,
         NEW f, f.kind \in {"pool", "drep", "stake"}, f.kind = "stake" => f.id \in Creds,
         ~MatchesBlock(f, ResolvedBlock(block, snap)),
         OncePer(All(ResolvedBlock(block, snap), "certs")),
         NEW N, N = Members(f, After(snap, block, slot)),
         \A tx \in ToSet(ResolvedBlock(block, snap).txs) : Joined(f, tx) # 0 => MatchesTx(f, tx, N)
  PROVE  LiveStake(f, After(snap, block, slot))
           = LiveStake(f, snap) + Shown(f, ResolvedBlock(block, snap), N)
<1> DEFINE next == After(snap, block, slot)
           r == ResolvedBlock(block, snap)
           T == ResolvedTx
           M == Members(f, snap)
           moving == Moving(N)
           each == [tx \in T |-> StakeChange(f, tx, N)]
<1>1. next \in Snapshot
  BY AfterTyped
<1>2. f.kind # "address"
  OBVIOUS
<1>3. LiveStake(f, snap) = LiveOf(snap, M) /\ LiveStake(f, next) = LiveOf(next, N)
  BY <1>2 DEF LiveStake
<1>4. M \in SUBSET Creds /\ N \in SUBSET Creds
  <2>1. CASE Delegates(f)
    BY <2>1, MembersIs
  <2>2. CASE f.kind = "stake"
    <3>1. ~Delegates(f)
      BY <2>2 DEF Delegates
    <3> QED BY <2>2, <3>1 DEF Members
  <2> QED BY <2>1, <2>2 DEF Delegates
<1>5. LiveOf(next, N) = LiveOf(snap, N) + Net(block, N) /\ Net(block, N) \in Int
  BY <1>4, StakeMoves
<1>6. LiveOf(snap, N) \in Int
  BY <1>4, LiveOfIs
<1>7. LiveOf(snap, M) \in Int
  BY <1>4, LiveOfIs
<1>8. Net(r, N) = Net(block, N)
  BY SameMoves
<1>9. r \in ResolvedBlk
  BY ResolvedBlockIs
<1>10. moving \in [T -> Int] /\ Worth(r.txs, moving) = Net(r, N)
  BY <1>9, BlockMoves
<1>11. \A tx \in T : moving[tx] = Moved(tx, N)
  BY DEF Moving
<1>12. \A tx \in T : StakeChange(f, tx, N) = Moved(tx, N) + Joined(f, tx)
  BY <1>2 DEF StakeChange
<1>13. \A tx \in T : Joined(f, tx) \in Int
  <2>1. CASE Delegates(f)
    BY <2>1, JoinedWorth
  <2>2. CASE ~Delegates(f)
    BY <2>2 DEF Joined
  <2> QED BY <2>1, <2>2
<1>14. \A tx \in T : Moved(tx, N) \in Int
  BY MovedInt
<1>15. each \in [T -> Int] /\ \A tx \in T : each[tx] = StakeChange(f, tx, N)
  BY <1>12, <1>13, <1>14
<1>16. r.txs \in Seq(T)
  BY <1>9 DEF ResolvedBlk
<1>17. ToSet(r.txs) \subseteq T
  BY <1>16, ElementIn DEF ToSet
<1>18. \A tx \in ToSet(r.txs) : Joined(f, tx) # 0 => MatchesTx(f, tx, N)
  OBVIOUS
<1>19. ~MatchesBlock(f, r)
  OBVIOUS
<1> HIDE DEF next, r, M, moving, each
<1>20. ASSUME NEW tx \in ToSet(r.txs), ~MatchesTx(f, tx, N) PROVE StakeChange(f, tx, N) = 0
  <2>1. StakeCredentials(tx) \cap N = {}
    BY <1>2, <1>20 DEF MatchesTx
  <2>2. Moved(tx, N) = 0
    BY <1>4, <1>17, <2>1, MovedNone
  <2>3. Joined(f, tx) = 0
    BY <1>18, <1>20
  <2> QED BY <1>12, <1>17, <2>2, <2>3
<1>21. Shown(f, r, N) = Worth(r.txs, each)
  BY <1>9, <1>15, <1>19, <1>20, ShownIs
<1> HIDE DEF T
<1>22. Worth(r.txs, each) = Net(r, N) + (LiveOf(snap, N) - LiveOf(snap, M))
  <2>1. CASE Delegates(f)
    <3> DEFINE joining == Joining(f)
    <3>1. joining \in [T -> Int] /\ Worth(r.txs, joining) = Worth(All(r, "certs"), Brought(f))
      BY <1>9, <2>1, BlockJoins DEF T
    <3>2. LiveOf(snap, N) = LiveOf(snap, M) + Worth(All(r, "certs"), Brought(f))
      BY <2>1, MembersJoin DEF r, M
    <3>3. \A tx \in T : joining[tx] = Joined(f, tx)
      BY DEF Joining, T
    <3> HIDE DEF joining
    <3>4. \A tx \in T : each[tx] = moving[tx] + joining[tx]
      BY <1>11, <1>12, <1>15, <3>3
    <3>5. IsTogether(T, each, moving, joining)
      BY <1>10, <1>15, <3>1, <3>4 DEF IsTogether
    <3>6. Worth(r.txs, each) = Worth(r.txs, moving) + Worth(r.txs, joining)
      BY <1>16, <3>5, WorthSplits
    <3>7. Worth(r.txs, joining) \in Int
      BY <1>16, <3>1, WorthAppend
    <3>8. Worth(r.txs, joining) = LiveOf(snap, N) - LiveOf(snap, M)
      BY <1>7, <3>1, <3>2, <3>7
    <3> QED BY <1>10, <3>6, <3>8
  <2>2. CASE ~Delegates(f)
    <3>1. f.kind = "stake"
      BY <2>2 DEF Delegates
    <3>2. M = {f.id} /\ N = {f.id}
      BY <2>2, <3>1 DEF Members, M
    <3>3. \A tx \in T : Joined(f, tx) = 0
      BY <2>2 DEF Joined
    <3>4. \A tx \in T : each[tx] = moving[tx]
      BY <1>11, <1>12, <1>14, <1>15, <3>3
    <3>5. each = moving
      BY <1>10, <1>15, <3>4
    <3>6. LiveOf(snap, N) = LiveOf(snap, M)
      BY <3>2
    <3> QED BY <1>5, <1>6, <1>8, <1>10, <3>5, <3>6
  <2> QED BY <2>1, <2>2
<1>23. LiveOf(next, N) = LiveOf(snap, M) + Shown(f, r, N)
  <2>1. Net(r, N) \in Int
    BY <1>5, <1>8
  <2> QED BY <1>5, <1>6, <1>7, <1>8, <1>21, <1>22, <2>1 DEF next
<1> QED BY <1>3, <1>23 DEF next, r

\* The feed of any subject: what a block adds to its live stake is shown.
LEMMA BlockAddsUp ==
  ASSUME NEW snap \in Snapshot, NEW block \in Block, NEW slot \in Nat, Valid(snap, block),
         block.epoch = snap.epoch, NEW p \in Views,
         ~MatchesBlock(p.f, ResolvedBlock(block, snap)),
         OncePer(All(ResolvedBlock(block, snap), "certs")),
         NEW N, N = Members(p.f, After(snap, block, slot)),
         \A tx \in ToSet(ResolvedBlock(block, snap).txs) : Joined(p.f, tx) # 0 => MatchesTx(p.f, tx, N)
  PROVE  LiveStake(p.f, After(snap, block, slot))
           = LiveStake(p.f, snap) + Shown(p.f, ResolvedBlock(block, snap), N)
<1> DEFINE f == p.f
<1>1. /\ f.kind \in {"pool", "drep", "stake", "address"}
      /\ f.kind = "stake" => f.id \in Creds
      /\ f.kind = "address" => f.id \in Addr
  BY ViewsAssumption
<1>2. CASE f.kind = "address"
  BY <1>1, <1>2, AddressAddsUp
<1>3. CASE f.kind # "address"
  <2>1. f.kind \in {"pool", "drep", "stake"}
    BY <1>1, <1>3
  <2> HIDE DEF f
  <2> QED BY <1>1, <2>1, CredsAddUp DEF f
<1> QED BY <1>2, <1>3

-----------------------------------------------------------------------------
(* The feed *)

\* The last event that the stream has not taken is of the state's last move.
IsLastBlock(e, ch) ==
  /\ Len(ch) > 1
  /\ \E block \in Block :
       LET was == ch[Len(ch) - 1]
       IN  /\ Valid(was, block) /\ ch[Len(ch)] = After(was, block, Len(ch) - 1)
           /\ Head(e.block) = ResolvedBlock(block, was) /\ e.was = was.epoch

IsLast(e, ch) == e.n = Len(ch) /\ (e.block # <<>> => IsLastBlock(e, ch))

LastInv == queue # <<>> => IsLast(queue[Len(queue)], chain)

\* With a block's event that is not the last, a mark will be set.
Doomed(q) == \E i \in 1..(Len(q) - 1) : q[i].block # <<>>

\* How far the chain is what it will be for the stream.
Even(q, ch) == IF q # <<>> /\ q[Len(q)].block # <<>> THEN Len(ch) - 1 ELSE Len(ch)

\* The tally is right so far, and rollbacks on their way go back no further, each
\* at least as far as the one before.
Tallied(tl, q, ch, f) ==
  /\ tl \in Seq(Int) /\ Even(q, ch) <= Len(tl)
  /\ \A i \in 1..Even(q, ch) : tl[i] = LiveStake(f, ch[i])
  /\ q = <<>> => Len(tl) = Len(ch)
  /\ \A i \in 1..Len(q) : q[i].block = <<>> => Even(q, ch) <= q[i].n /\ q[i].n <= Len(tl)
  /\ \A i, j \in 1..Len(q) :
       i <= j /\ q[i].block = <<>> /\ q[j].block = <<>> => q[j].n <= q[i].n

TallyInv ==
  (page.view = "feed" /\ up # "down" /\ marks = {} /\ ~Doomed(queue)) =>
    Tallied(tally, queue, chain, F)

LEMMA LiveStakeInt ==
  ASSUME NEW p \in Views, NEW snap \in Snapshot
  PROVE  LiveStake(p.f, snap) \in Int
<1> DEFINE f == p.f
<1>1. /\ f.kind \in {"pool", "drep", "stake", "address"}
      /\ f.kind = "stake" => f.id \in Creds
      /\ f.kind = "address" => f.id \in Addr
  BY ViewsAssumption
<1>2. CASE f.kind = "address"
  BY <1>1, <1>2 DEF LiveStake, Snapshot
<1>3. CASE f.kind # "address"
  <2>1. Members(f, snap) \in SUBSET Creds
    <3>1. CASE Delegates(f)
      BY <3>1, MembersIs
    <3>2. CASE ~Delegates(f)
      <4>1. f.kind = "stake"
        BY <1>1, <1>3, <3>2 DEF Delegates
      <4> QED BY <1>1, <3>2, <4>1 DEF Members
    <3> QED BY <3>1, <3>2
  <2>2. LiveOf(snap, Members(f, snap)) \in Int
    BY <2>1, LiveOfIs
  <2> QED BY <1>3, <2>2 DEF LiveStake
<1> QED BY <1>2, <1>3

\* One more event on the way.
LEMMA AppendTallied ==
  ASSUME NEW tl, NEW q \in Seq(Event), NEW ch \in Seq(Snapshot), Len(ch) >= 1, NEW f,
         ~Doomed(q) => Tallied(tl, q, ch, f), NEW e \in Event, ~Doomed(Append(q, e)),
         NEW c2 \in Seq(Snapshot), e.n = Len(c2),
         IF e.block = <<>> THEN Len(c2) < Len(ch) ELSE Len(c2) = Len(ch) + 1,
         \A i \in 1..Len(ch) : i <= Len(c2) => c2[i] = ch[i]
  PROVE  Tallied(tl, Append(q, e), c2, f)
<1> DEFINE r == Append(q, e)
           n == Len(q)
<1>1. /\ n \in Nat /\ Len(r) = n + 1 /\ r[n + 1] = e /\ \A i \in 1..n : r[i] = q[i]
  BY LenNat, AppendIs
<1>2. Len(ch) \in Nat /\ Len(c2) \in Nat
  BY LenNat
<1>3. r # <<>>
  <2>1. Len(r) # Len(<<>>)
    BY <1>1
  <2> QED BY <2>1
<1> HIDE DEF r, n
<1>4. \A i \in 1..n : q[i].block = <<>>
  <2>1. ASSUME NEW i \in 1..n PROVE r[i].block = <<>>
    <3>1. i \in 1..(Len(r) - 1)
      BY <1>1
    <3> QED BY <3>1 DEF Doomed, r
  <2> QED BY <1>1, <2>1
<1>5. ~Doomed(q)
  BY <1>1, <1>4 DEF Doomed, n
<1>6. Even(q, ch) = Len(ch)
  <2>1. CASE q = <<>>
    BY <2>1 DEF Even
  <2>2. CASE q # <<>>
    <3>1. n \in 1..n
      BY <1>1, <2>2, LenNat DEF n
    <3> QED BY <1>4, <3>1 DEF Even, n
  <2> QED BY <2>1, <2>2
<1>7. /\ tl \in Seq(Int) /\ Len(ch) <= Len(tl)
      /\ \A i \in 1..Len(ch) : tl[i] = LiveStake(f, ch[i])
      /\ \A i \in 1..n : q[i].block = <<>> => Len(ch) <= q[i].n /\ q[i].n <= Len(tl)
      /\ \A i, j \in 1..n :
           i <= j /\ q[i].block = <<>> /\ q[j].block = <<>> => q[j].n <= q[i].n
  BY <1>5, <1>6 DEF Tallied, n
<1>8. Len(tl) \in Nat
  BY <1>7, LenNat
<1>9. Even(r, c2) = IF e.block = <<>> THEN Len(c2) ELSE Len(c2) - 1
  BY <1>1, <1>3 DEF Even
<1>10. Even(r, c2) \in Nat /\ Even(r, c2) <= Len(ch) /\ Even(r, c2) <= Len(c2)
       /\ (e.block = <<>> => Even(r, c2) = e.n /\ e.n < Len(ch))
  BY <1>2, <1>9
<1>11. \A i \in 1..Even(r, c2) : tl[i] = LiveStake(f, c2[i])
  <2>1. ASSUME NEW i \in 1..Even(r, c2) PROVE tl[i] = LiveStake(f, c2[i])
    <3>1. i \in 1..Len(ch) /\ i <= Len(c2)
      BY <1>2, <1>10
    <3>2. c2[i] = ch[i]
      BY <3>1
    <3> QED BY <1>7, <3>1, <3>2
  <2> QED BY <2>1
<1>12. \A i \in 1..n : q[i].n \in Nat
  <2>1. ASSUME NEW i \in 1..n PROVE q[i].n \in Nat
    <3>1. i \in DOMAIN q
      BY <2>1, LenNat DEF n
    <3>2. q[i] \in Event
      BY <3>1, ElementIn
    <3> QED BY <3>2 DEF Event
  <2> QED BY <2>1
<1>13. ASSUME NEW i \in 1..Len(r), r[i].block = <<>>
       PROVE  Even(r, c2) <= r[i].n /\ r[i].n <= Len(tl)
  <2>1. CASE i \in 1..n
    <3>1. Len(ch) <= q[i].n /\ q[i].n <= Len(tl) /\ r[i] = q[i]
      BY <1>1, <1>4, <1>7, <2>1
    <3> QED BY <1>2, <1>8, <1>10, <1>12, <2>1, <3>1
  <2>2. CASE i = n + 1
    <3>1. e.block = <<>> /\ r[i] = e
      BY <1>1, <1>13, <2>2
    <3> QED BY <1>2, <1>7, <1>8, <1>10, <3>1
  <2> QED BY <1>1, <2>1, <2>2
<1>14. ASSUME NEW i \in 1..Len(r), NEW j \in 1..Len(r), i <= j, r[i].block = <<>>, r[j].block = <<>>
       PROVE  r[j].n <= r[i].n
  <2>1. CASE j \in 1..n
    <3>1. i \in 1..n
      BY <1>1, <1>14, <2>1
    <3> QED BY <1>1, <1>4, <1>7, <1>14, <2>1, <3>1
  <2>2. CASE j = n + 1 /\ i \in 1..n
    <3>1. e.block = <<>> /\ r[j] = e /\ r[i] = q[i]
      BY <1>1, <1>14, <2>2
    <3>2. Len(ch) <= q[i].n /\ e.n < Len(ch)
      BY <1>4, <1>7, <1>10, <2>2, <3>1
    <3> QED BY <1>2, <1>12, <2>2, <3>1, <3>2
  <2>3. CASE j = n + 1 /\ i = n + 1
    <3>1. r[j].n = r[i].n /\ r[i].n \in Nat
      BY <1>1, <2>3 DEF Event
    <3> QED BY <3>1
  <2> QED BY <1>1, <1>14, <2>1, <2>2, <2>3
<1> HIDE DEF Even
<1>15. Even(r, c2) <= Len(tl)
  BY <1>2, <1>7, <1>8, <1>10
<1> QED BY <1>3, <1>7, <1>11, <1>13, <1>14, <1>15 DEF Tallied, r

\* A rollback taken.
LEMMA RolledTallied ==
  ASSUME NEW tl, NEW q \in Seq(Event), q # <<>>, NEW ch \in Seq(Snapshot), NEW f,
         Head(q).block = <<>>, IsLast(q[Len(q)], ch), Tallied(tl, q, ch, f)
  PROVE  Tallied(SubSeq(tl, 1, Head(q).n), Tail(q), ch, f)
<1> DEFINE n == Len(q)
           r == Tail(q)
           k == Head(q).n
           t == SubSeq(tl, 1, k)
           E == Even(q, ch)
<1>1. /\ n \in Nat /\ n >= 1 /\ q[1] = Head(q) /\ Len(r) = n - 1
      /\ \A i \in 1..(n - 1) : r[i] = q[i + 1]
  OBVIOUS
<1>2. /\ tl \in Seq(Int) /\ E <= Len(tl)
      /\ \A i \in 1..E : tl[i] = LiveStake(f, ch[i])
      /\ \A i \in 1..n : q[i].block = <<>> => E <= q[i].n /\ q[i].n <= Len(tl)
      /\ \A i, j \in 1..n :
           i <= j /\ q[i].block = <<>> /\ q[j].block = <<>> => q[j].n <= q[i].n
  BY DEF Tallied
<1>3. k \in Nat /\ Len(tl) \in Nat /\ Len(ch) \in Nat
  <2>1. q[1] \in Event
    BY <1>1, ElementIn
  <2> QED BY <1>1, <1>2, <2>1, LenNat DEF Event
<1>4. E <= k /\ k <= Len(tl)
  <2>1. 1 \in 1..n
    BY <1>1
  <2> QED BY <1>1, <1>2, <2>1
<1>5. t \in Seq(Int) /\ Len(t) = k /\ \A i \in 1..k : t[i] = tl[i]
  BY <1>2, <1>3, <1>4
<1>6. E \in Int
  BY <1>3 DEF Even
<1>7. r # <<>> => r[Len(r)] = q[n] /\ n - 1 >= 1
  <2>1. ASSUME r # <<>> PROVE n - 1 >= 1
    BY <1>1, <2>1
  <2> QED BY <1>1, <2>1
<1> HIDE DEF n, r, k, t
<1>8. Even(r, ch) = E /\ (r = <<>> => k = Len(ch))
  <2>1. CASE r = <<>>
    <3>1. n = 1
      BY <1>1, <2>1
    <3>2. q[n].block = <<>> /\ q[n].n = Len(ch) /\ q[n].n = k
      BY <1>1, <3>1 DEF IsLast, n, k
    <3> QED BY <2>1, <3>2 DEF Even, n
  <2>2. CASE r # <<>>
    BY <1>7, <2>2 DEF Even, n
  <2> QED BY <2>1, <2>2
<1> HIDE DEF E
<1>9. \A i \in 1..Even(r, ch) : t[i] = LiveStake(f, ch[i])
  <2>1. ASSUME NEW i \in 1..E PROVE t[i] = LiveStake(f, ch[i])
    <3>1. i \in 1..k
      BY <1>3, <1>4, <1>6
    <3>2. t[i] = tl[i]
      BY <1>5, <3>1
    <3>3. tl[i] = LiveStake(f, ch[i])
      BY <1>2, <2>1
    <3> QED BY <3>2, <3>3
  <2> QED BY <1>8, <2>1
<1>10. ASSUME NEW i \in 1..Len(r), r[i].block = <<>>
       PROVE  Even(r, ch) <= r[i].n /\ r[i].n <= Len(t)
  <2>1. i + 1 \in 1..n /\ r[i] = q[i + 1] /\ 1 \in 1..n /\ 1 <= i + 1
    BY <1>1
  <2>2. q[i + 1].block = <<>> /\ q[1].block = <<>> /\ q[1].n = k
    BY <1>1, <1>10, <2>1 DEF k
  <2>3. E <= q[i + 1].n
    BY <1>2, <2>1, <2>2
  <2>4. q[i + 1].n <= k
    BY <1>2, <2>1, <2>2
  <2> QED BY <1>5, <1>8, <2>1, <2>3, <2>4
<1>11. ASSUME NEW i \in 1..Len(r), NEW j \in 1..Len(r), i <= j, r[i].block = <<>>, r[j].block = <<>>
       PROVE  r[j].n <= r[i].n
  <2>1. i + 1 \in 1..n /\ j + 1 \in 1..n /\ i + 1 <= j + 1 /\ r[i] = q[i + 1] /\ r[j] = q[j + 1]
    BY <1>1, <1>11
  <2> QED BY <1>2, <1>11, <2>1
<1>12. Even(r, ch) <= Len(t)
  BY <1>4, <1>5, <1>8
<1> QED BY <1>5, <1>8, <1>9, <1>10, <1>11, <1>12 DEF Tallied, r, t, k

\* What an event tells of a move of the state.
Tells(e, ch, c2) ==
  /\ e \in Event /\ c2 \in Seq(Snapshot) /\ IsLast(e, c2)
  /\ IF e.block = <<>> THEN Len(c2) < Len(ch) ELSE Len(c2) = Len(ch) + 1
  /\ \A i \in 1..Len(ch) : i <= Len(c2) => c2[i] = ch[i]

LEMMA Announced ==
  ASSUME TypeInv, Apply \/ Roll
  PROVE  /\ page' = page /\ up' = up /\ tally' = tally /\ (marks' = {} => marks = {})
         /\ \E e : Tells(e, chain, chain') /\ queue' = IF up = "down" THEN queue ELSE Append(queue, e)
<1>0. WorldInv
  BY DEF TypeInv
<1>1. page' = page /\ up' = up /\ tally' = tally /\ (marks' = {} => marks = {})
  BY DEF Apply, Roll, Move, stream
<1>2. chain \in Seq(Snapshot) /\ Len(chain) \in Nat /\ Len(chain) >= 1 /\ chain[Len(chain)] = Now
      /\ Now \in Snapshot /\ Now.epoch \in Nat
  BY <1>0, NowIs DEF WorldInv
<1>3. CASE Apply
  <2>1. PICK block \in Blocks[page.view] :
          /\ Valid(Now, block)
          /\ chain' = Append(chain, After(Now, block, Len(chain)))
          /\ Move([n |-> Len(chain) + 1, block |-> <<ResolvedBlock(block, Now)>>, was |-> Now.epoch])
    BY <1>3 DEF Apply
  <2> DEFINE r == ResolvedBlock(block, Now)
             e == [n |-> Len(chain) + 1, block |-> <<r>>, was |-> Now.epoch]
             next == After(Now, block, Len(chain))
             c2 == Append(chain, next)
  <2>2. block \in Block
    BY <1>0, ViewsAssumption DEF WorldInv
  <2>3. next \in Snapshot
    BY <1>2, <2>1, <2>2, AfterTyped
  <2>4. r \in ResolvedBlk
    BY <1>2, <2>2, ResolvedBlockIs
  <2>5. e \in Event
    <3>1. <<r>> \in Opt(ResolvedBlk)
      BY <2>4 DEF Opt
    <3> HIDE DEF r
    <3> QED BY <1>2, <3>1 DEF Event
  <2>6. queue' = IF up = "down" THEN queue ELSE Append(queue, e)
    BY <2>1 DEF Move
  <2>7. e.n = Len(chain) + 1 /\ e.block = <<r>> /\ e.block # <<>> /\ Head(e.block) = r /\ e.was = Now.epoch
    OBVIOUS
  <2> HIDE DEF e, r, next
  <2>8. /\ c2 \in Seq(Snapshot) /\ Len(c2) = Len(chain) + 1 /\ c2[Len(chain) + 1] = next
        /\ \A i \in 1..Len(chain) : c2[i] = chain[i]
    BY <1>2, <2>3, AppendIs
  <2> HIDE DEF c2
  <2>9. IsLastBlock(e, c2)
    <3>1. Len(c2) > 1 /\ Len(c2) - 1 = Len(chain) /\ c2[Len(c2) - 1] = Now /\ c2[Len(c2)] = next
      BY <1>2, <2>8
    <3>2. /\ Valid(Now, block) /\ next = After(Now, block, Len(chain))
          /\ Head(e.block) = ResolvedBlock(block, Now) /\ e.was = Now.epoch
      BY <2>1, <2>7 DEF next, r
    <3> QED BY <2>2, <3>1, <3>2 DEF IsLastBlock
  <2>10. Tells(e, chain, c2)
    BY <2>5, <2>7, <2>8, <2>9 DEF Tells, IsLast
  <2>11. chain' = c2
    BY <2>1 DEF c2, next
  <2> QED BY <1>1, <2>6, <2>10, <2>11
<1>4. CASE Roll
  <2>1. PICK n \in 1..(Len(chain) - 1) :
          chain' = SubSeq(chain, 1, n) /\ Move([n |-> n, block |-> <<>>, was |-> 0])
    BY <1>4 DEF Roll
  <2> DEFINE e == [n |-> n, block |-> <<>>, was |-> 0]
             c2 == SubSeq(chain, 1, n)
  <2>2. n \in Nat /\ n \in 0..Len(chain) /\ n < Len(chain)
    BY <1>2
  <2>3. e \in Event
    BY <2>2 DEF Event, Opt
  <2>4. queue' = IF up = "down" THEN queue ELSE Append(queue, e)
    BY <2>1 DEF Move
  <2>5. e.n = n /\ e.block = <<>>
    OBVIOUS
  <2> HIDE DEF e
  <2>6. c2 \in Seq(Snapshot) /\ Len(c2) = n
    BY <1>2, <2>2, PrefixStep
  <2>7. \A i \in 1..Len(chain) : i <= n => c2[i] = chain[i]
    BY <1>2, <2>2
  <2> HIDE DEF c2
  <2>8. Tells(e, chain, c2)
    BY <2>2, <2>3, <2>5, <2>6, <2>7 DEF Tells, IsLast
  <2>9. chain' = c2
    BY <2>1 DEF c2
  <2> QED BY <1>1, <2>4, <2>8, <2>9
<1> QED BY <1>3, <1>4

LEMMA LastStep ==
  ASSUME TypeInv, LastInv, [Next]_vars
  PROVE  LastInv'
<1>0. queue \in Seq(Event) /\ Len(queue) \in Nat /\ (up = "down" => queue = <<>>)
  <2>1. queue \in Seq(Event) /\ (up = "down" => queue = <<>>)
    BY DEF TypeInv, WorldInv, StreamInv
  <2> QED BY <2>1, LenNat
<1>1. CASE UNCHANGED <<chain, queue>>
  BY <1>1 DEF LastInv
<1>2. CASE queue' = <<>>
  BY <1>2 DEF LastInv
<1>3. CASE Apply \/ Roll
  <2>1. PICK e : Tells(e, chain, chain') /\ queue' = IF up = "down" THEN queue ELSE Append(queue, e)
    BY <1>3, Announced
  <2>2. CASE up = "down"
    BY <1>0, <1>2, <2>1, <2>2
  <2>3. CASE up # "down"
    <3>1. queue' = Append(queue, e) /\ e \in Event /\ IsLast(e, chain')
      BY <2>1, <2>3 DEF Tells
    <3>2. queue'[Len(queue')] = e
      <4>1. Len(Append(queue, e)) = Len(queue) + 1 /\ Append(queue, e)[Len(queue) + 1] = e
        BY <1>0, <3>1, AppendIs
      <4> QED BY <3>1, <4>1
    <3> QED BY <3>1, <3>2 DEF LastInv
  <2> QED BY <2>2, <2>3
<1>4. CASE Handle
  <2>1. queue' = Tail(queue) /\ queue # <<>> /\ chain' = chain
    BY <1>4 DEF Handle
  <2>2. ASSUME queue' # <<>> PROVE queue'[Len(queue')] = queue[Len(queue)]
    BY <1>0, <2>1, <2>2
  <2>3. IsLast(queue[Len(queue)], chain)
    BY <2>1 DEF LastInv
  <2> QED BY <2>1, <2>2, <2>3 DEF LastInv
<1>5. CASE Drop
  BY <1>2, <1>5 DEF Drop
<1>6. CASE Connect \/ Seed \/ Compare \/ Fetch \/ Serve \/ Receive \/ Fail \/ CycleSort
  BY <1>1, <1>6 DEF Connect, Seed, Compare, Fetch, Serve, Receive, Fail, CycleSort, world
<1>7. CASE UNCHANGED vars
  BY <1>1, <1>7 DEF vars, world
<1> QED BY <1>3, <1>4, <1>5, <1>6, <1>7 DEF Next

\* What a block's event marks.
LEMMA MarksNothing ==
  ASSUME NEW e, FeedMarks(e) = {}, e.block # <<>>
  PROVE  /\ ~(Len(queue) > 1) /\ ~MatchesBlock(F, Head(e.block))
         /\ OncePer(All(Head(e.block), "certs"))
         /\ \A tx \in ToSet(Head(e.block).txs) :
              Joined(F, tx) # 0 => MatchesTx(F, tx, Members(F, Now))
         /\ ~(Head(e.block).epoch > e.was)
<1> DEFINE block == Head(e.block)
           certs == All(block, "certs")
           Again == \E i, j \in DOMAIN certs : i # j /\ certs[i].cred = certs[j].cred
           Unmatched == \E tx \in ToSet(block.txs) : Joined(F, tx) # 0 /\ ~MatchesTx(F, tx, Members(F, Now))
           a == IF Len(queue) > 1 THEN {"ahead"} ELSE {}
           b == IF MatchesBlock(F, block) THEN {"whole"} ELSE {}
           c == IF Again THEN {"again"} ELSE {}
           d == IF Unmatched THEN {"unmatched"} ELSE {}
           g == IF block.epoch > e.was THEN {"credit"} ELSE {}
<1>1. FeedMarks(e) = a \cup b \cup c \cup d \cup g
  BY DEF FeedMarks
<1> HIDE DEF a, b, c, d, g
<1>2. a = {} /\ b = {} /\ c = {} /\ d = {} /\ g = {}
  BY <1>1
<1> HIDE DEF Again, Unmatched, block
<1>3. ~(Len(queue) > 1)
  BY <1>2, Zenon DEF a
<1>4. ~MatchesBlock(F, block)
  BY <1>2, Zenon DEF b
<1>5. ~Again
  BY <1>2, Zenon DEF c
<1>6. ~Unmatched
  BY <1>2, Zenon DEF d
<1>7. ~(block.epoch > e.was)
  BY <1>2, Zenon DEF g
<1>8. OncePer(certs)
  BY <1>5, Zenon DEF Again, OncePer
<1>9. \A tx \in ToSet(block.txs) : Joined(F, tx) # 0 => MatchesTx(F, tx, Members(F, Now))
  BY <1>6, Zenon DEF Unmatched
<1> QED BY <1>3, <1>4, <1>7, <1>8, <1>9 DEF block

LEMMA OnlyOne ==
  ASSUME NEW S, NEW q \in Seq(S), q # <<>>, ~(Len(q) > 1)
  PROVE  Len(q) = 1 /\ q[Len(q)] = Head(q) /\ Tail(q) = <<>>
<1> DEFINE n == Len(q)
<1>1. n \in Nat /\ DOMAIN q = 1..n
  BY LenNat
<1>2. n # 0
  BY <1>1
<1>3. ~(n > 1)
  OBVIOUS
<1>4. n = 1
  <2> HIDE DEF n
  <2> QED BY <1>1, <1>2, <1>3
<1>5. Tail(q) \in Seq(S) /\ Len(Tail(q)) = 0
  BY <1>4
<1>6. Tail(q) = <<>>
  BY <1>5
<1>7. q[1] = Head(q)
  BY <1>4
<1> QED BY <1>4, <1>6, <1>7

\* A block taken.
LEMMA TakenTallied ==
  ASSUME TypeInv, queue # <<>>, Head(queue).block # <<>>, FeedMarks(Head(queue)) = {},
         IsLast(queue[Len(queue)], chain), Tallied(tally, queue, chain, F)
  PROVE  Tallied(FeedTally(Head(queue)), Tail(queue), chain, F)
<1> DEFINE e == Head(queue)
           r == Head(e.block)
           N == Members(F, Now)
           n == Len(chain)
           add == Shown(F, r, N)
           t == Append(SubSeq(tally, 1, n - 1), tally[n - 1] + add)
<1>0. WorldInv /\ page \in Views
  BY DEF TypeInv, WorldInv
<1>1. /\ ~(Len(queue) > 1) /\ ~MatchesBlock(F, r) /\ OncePer(All(r, "certs"))
      /\ \A tx \in ToSet(r.txs) : Joined(F, tx) # 0 => MatchesTx(F, tx, N)
      /\ ~(r.epoch > e.was)
  BY MarksNothing
<1>2. queue \in Seq(Event) /\ Len(queue) = 1 /\ queue[Len(queue)] = e /\ Tail(queue) = <<>>
  <2>1. queue \in Seq(Event)
    BY <1>0 DEF WorldInv
  <2> QED BY <1>1, <2>1, OnlyOne
<1>3. chain \in Seq(Snapshot) /\ n \in Nat /\ chain[n] = Now /\ Now \in Snapshot
  BY <1>0, NowIs DEF WorldInv
<1>4. e.n = n /\ IsLastBlock(e, chain)
  BY <1>2 DEF IsLast
<1>5. FeedTally(e) = t
  BY <1>4 DEF FeedTally, Shown
<1> HIDE DEF e, r, N, n
<1>6. n > 1 /\ n - 1 \in Nat /\ n - 1 \in 1..n
  BY <1>3, <1>4 DEF IsLastBlock, n
<1> DEFINE was == chain[n - 1]
<1>7. was \in Snapshot
  BY <1>3, <1>6, ElementIn, LenNat DEF n
<1> HIDE DEF was
<1>8. PICK block \in Block : /\ Valid(was, block) /\ chain[n] = After(was, block, n - 1)
                             /\ r = ResolvedBlock(block, was) /\ e.was = was.epoch
  BY <1>4 DEF IsLastBlock, was, n, r
<1>9. block.epoch = was.epoch
  <2>1. block.epoch \in {was.epoch, was.epoch + 1} /\ was.epoch \in Nat
    BY <1>7, <1>8 DEF Valid, Snapshot
  <2>2. r.epoch = block.epoch
    BY <1>8 DEF ResolvedBlock, Block
  <2>3. ~(block.epoch > was.epoch)
    BY <1>1, <1>8, <2>2
  <2> QED BY <2>1, <2>3
<1>10. N = Members(F, After(was, block, n - 1))
  BY <1>3, <1>8 DEF N
<1>11. LiveStake(F, chain[n]) = LiveStake(F, was) + add
  <2>1. ~MatchesBlock(page.f, ResolvedBlock(block, was))
    BY <1>1, <1>8 DEF F
  <2>2. OncePer(All(ResolvedBlock(block, was), "certs"))
    BY <1>1, <1>8
  <2>3. \A tx \in ToSet(ResolvedBlock(block, was).txs) : Joined(page.f, tx) # 0 => MatchesTx(page.f, tx, N)
    BY <1>1, <1>8 DEF F
  <2>4. N = Members(page.f, After(was, block, n - 1))
    BY <1>10 DEF F
  <2>5. LiveStake(page.f, After(was, block, n - 1))
          = LiveStake(page.f, was) + Shown(page.f, ResolvedBlock(block, was), N)
    BY <1>0, <1>6, <1>7, <1>8, <1>9, <2>1, <2>2, <2>3, <2>4, BlockAddsUp
  <2> QED BY <1>8, <2>5 DEF F
<1>12. Even(queue, chain) = n - 1
  <2>1. queue[Len(queue)].block # <<>>
    BY <1>2 DEF e
  <2> QED BY <2>1 DEF Even, n
<1>13. /\ tally \in Seq(Int) /\ n - 1 <= Len(tally)
       /\ \A i \in 1..(n - 1) : tally[i] = LiveStake(F, chain[i])
  BY <1>12 DEF Tallied
<1>14. \A i \in 1..n : chain[i] \in Snapshot
  BY <1>3, ElementIn, LenNat DEF n
<1>15. \A i \in 1..n : LiveStake(F, chain[i]) \in Int
  <2>1. ASSUME NEW i \in 1..n PROVE LiveStake(F, chain[i]) \in Int
    <3>1. chain[i] \in Snapshot
      BY <1>14
    <3> QED BY <1>0, <3>1, LiveStakeInt DEF F
  <2> QED BY <2>1
<1>16. tally[n - 1] = LiveStake(F, was)
  <2>1. n - 1 \in 1..(n - 1)
    BY <1>6
  <2> QED BY <1>13, <2>1 DEF was
<1>17. tally[n - 1] + add = LiveStake(F, chain[n])
  BY <1>11, <1>16
<1>18. LiveStake(F, chain[n]) \in Int
  <2>1. n \in 1..n
    BY <1>3, <1>6
  <2> QED BY <1>15, <2>1
<1> DEFINE s == SubSeq(tally, 1, n - 1)
<1>19. s \in Seq(Int) /\ Len(s) = n - 1 /\ \A i \in 1..(n - 1) : s[i] = tally[i]
  BY <1>6, <1>13
<1>20. t = Append(s, LiveStake(F, chain[n]))
  BY <1>17
<1> HIDE DEF s, t, add
<1>21. t \in Seq(Int) /\ Len(t) = n /\ t[n] = LiveStake(F, chain[n]) /\ \A i \in 1..(n - 1) : t[i] = s[i]
  <2>1. /\ Append(s, LiveStake(F, chain[n])) \in Seq(Int)
        /\ Len(Append(s, LiveStake(F, chain[n]))) = Len(s) + 1
        /\ Append(s, LiveStake(F, chain[n]))[Len(s) + 1] = LiveStake(F, chain[n])
        /\ \A i \in 1..Len(s) : Append(s, LiveStake(F, chain[n]))[i] = s[i]
    BY <1>18, <1>19, AppendIs
  <2>2. Len(s) + 1 = n
    BY <1>3, <1>6, <1>19
  <2> QED BY <1>19, <1>20, <2>1, <2>2
<1>22. \A i \in 1..n : t[i] = LiveStake(F, chain[i])
  <2>1. ASSUME NEW i \in 1..n PROVE t[i] = LiveStake(F, chain[i])
    <3>1. CASE i = n
      BY <1>21, <3>1
    <3>2. CASE i # n
      <4>1. i \in 1..(n - 1)
        BY <1>3, <3>2
      <4> QED BY <1>13, <1>19, <1>21, <4>1
    <3> QED BY <3>1, <3>2
  <2> QED BY <2>1
<1>23. Even(<<>>, chain) = n
  BY DEF Even, n
<1>24. Tallied(t, <<>>, chain, F)
  <2>1. Len(<<>>) = 0
    OBVIOUS
  <2>2. \A i \in 1..Len(<<>>) : FALSE
    BY <2>1
  <2>3. n <= Len(t) /\ Len(t) = Len(chain)
    BY <1>3, <1>21 DEF n
  <2> QED BY <1>21, <1>22, <1>23, <2>2, <2>3 DEF Tallied
<1> QED BY <1>2, <1>5, <1>24 DEF e

LEMMA TallyStep ==
  ASSUME TypeInv, LastInv, TallyInv, [Next]_vars
  PROVE  TallyInv'
<1>0. /\ queue \in Seq(Event) /\ Len(queue) \in Nat /\ (up = "down" => queue = <<>>)
      /\ chain \in Seq(Snapshot) /\ Len(chain) \in Nat /\ Len(chain) >= 1 /\ page \in Views
      /\ (request # <<>> => IsGrid)
  <2>1. WorldInv /\ StreamInv /\ GridInv
    BY DEF TypeInv
  <2>2. Len(chain) \in Nat /\ Len(chain) >= 1
    BY <2>1, NowIs
  <2>3. queue \in Seq(Event) /\ chain \in Seq(Snapshot) /\ page \in Views
    BY <2>1 DEF WorldInv
  <2>4. (up = "down" => queue = <<>>) /\ (request # <<>> => IsGrid)
    BY <2>1 DEF StreamInv, GridInv
  <2> QED BY <2>2, <2>3, <2>4, LenNat
<1>1. page' = page => F' = F
  BY DEF F
<1>2. CASE UNCHANGED <<page, chain, queue, up, tally, marks>>
  BY <1>1, <1>2 DEF TallyInv
<1>3. CASE page' = page /\ page.view # "feed"
  BY <1>3 DEF TallyInv
<1>4. CASE Apply \/ Roll
  <2>1. page' = page /\ up' = up /\ tally' = tally /\ (marks' = {} => marks = {})
    BY <1>4, Announced
  <2>2. PICK e : Tells(e, chain, chain') /\ queue' = IF up = "down" THEN queue ELSE Append(queue, e)
    BY <1>4, Announced
  <2>3. CASE up = "down"
    BY <2>1, <2>3 DEF TallyInv
  <2>4. CASE up # "down"
    <3> SUFFICES ASSUME page.view = "feed", marks = {}, ~Doomed(queue')
                 PROVE  Tallied(tally, queue', chain', F)
      BY <1>1, <2>1 DEF TallyInv
    <3>1. queue' = Append(queue, e) /\ ~Doomed(Append(queue, e))
      BY <2>2, <2>4
    <3>2. /\ e \in Event /\ chain' \in Seq(Snapshot) /\ e.n = Len(chain')
          /\ IF e.block = <<>> THEN Len(chain') < Len(chain) ELSE Len(chain') = Len(chain) + 1
          /\ \A i \in 1..Len(chain) : i <= Len(chain') => chain'[i] = chain[i]
      BY <2>2 DEF Tells, IsLast
    <3>3. ~Doomed(queue) => Tallied(tally, queue, chain, F)
      BY <2>4 DEF TallyInv
    <3>4. Tallied(tally, Append(queue, e), chain', F)
      BY <1>0, <3>1, <3>2, <3>3, AppendTallied
    <3> QED BY <3>1, <3>4
  <2> QED BY <2>3, <2>4
<1>5. CASE Connect
  <2>1. page' = page /\ chain' = chain /\ queue' = queue /\ up = "down"
    BY <1>5 DEF Connect, world
  <2>2. CASE page.view = "feed"
    <3> DEFINE t == [i \in DOMAIN chain |-> LiveStake(F, chain[i])]
    <3>1. tally' = t
      BY <1>5, <2>2 DEF Connect
    <3>2. DOMAIN chain = 1..Len(chain) /\ \A i \in DOMAIN chain : LiveStake(F, chain[i]) \in Int
      <4>1. ASSUME NEW i \in DOMAIN chain PROVE LiveStake(F, chain[i]) \in Int
        <5>1. chain[i] \in Snapshot
          BY <1>0, ElementIn
        <5> QED BY <1>0, <5>1, LiveStakeInt DEF F
      <4> QED BY <1>0, <4>1, LenNat
    <3>3. t \in Seq(Int) /\ Len(t) = Len(chain) /\ \A i \in 1..Len(chain) : t[i] = LiveStake(F, chain[i])
      BY <1>0, <3>2
    <3> HIDE DEF t
    <3>4. queue = <<>> /\ Even(queue, chain) = Len(chain) /\ \A i \in 1..Len(queue) : FALSE
      <4>1. queue = <<>>
        BY <1>0, <2>1
      <4>2. \A i \in 1..Len(<<>>) : FALSE
        OBVIOUS
      <4> QED BY <4>1, <4>2 DEF Even
    <3>5. Tallied(t, queue, chain, F)
      BY <1>0, <3>3, <3>4 DEF Tallied
    <3> QED BY <1>1, <2>1, <3>1, <3>5 DEF TallyInv
  <2> QED BY <1>3, <2>1, <2>2
<1>6. CASE Seed
  <2>1. UNCHANGED <<page, chain, queue, tally, marks>> /\ up # "down"
    BY <1>6 DEF Seed, world
  <2> QED BY <1>1, <2>1 DEF TallyInv
<1>7. CASE Drop
  BY <1>7 DEF Drop, TallyInv
<1>8. CASE Handle
  <2> DEFINE e == Head(queue)
  <2>1. queue # <<>> /\ queue' = Tail(queue) /\ page' = page /\ chain' = chain /\ up = "live" /\ up' = up
    BY <1>8 DEF Handle
  <2>2. CASE page.view = "feed"
    <3>1. tally' = FeedTally(e) /\ marks' = marks \cup FeedMarks(e)
      BY <1>8, <2>2 DEF Handle
    <3>2. IsLast(queue[Len(queue)], chain)
      BY <2>1 DEF LastInv
    <3> SUFFICES ASSUME marks = {}, FeedMarks(e) = {}, ~Doomed(Tail(queue))
                 PROVE  Tallied(FeedTally(e), Tail(queue), chain, F)
      BY <1>1, <2>1, <2>2, <3>1 DEF TallyInv
    <3>3. e.block # <<>> => ~(Len(queue) > 1)
      BY MarksNothing
    <3>4. ~Doomed(queue)
      <4>1. ASSUME NEW i \in 1..(Len(queue) - 1), queue[i].block # <<>> PROVE FALSE
        <5>1. CASE i = 1
          <6>1. queue[i] = e
            BY <2>1, <5>1
          <6>2. Len(queue) > 1
            BY <1>0
          <6> QED BY <3>3, <4>1, <6>1, <6>2
        <5>2. CASE i # 1
          <6>1. i - 1 \in 1..(Len(Tail(queue)) - 1) /\ Tail(queue)[i - 1] = queue[i]
            BY <1>0, <2>1, <5>2
          <6> QED BY <4>1, <6>1 DEF Doomed
        <5> QED BY <5>1, <5>2
      <4> QED BY <4>1 DEF Doomed
    <3>5. Tallied(tally, queue, chain, F)
      BY <2>1, <2>2, <3>4 DEF TallyInv
    <3>6. CASE e.block = <<>>
      <4>1. FeedTally(e) = SubSeq(tally, 1, e.n)
        BY <3>6 DEF FeedTally
      <4>2. Tallied(SubSeq(tally, 1, e.n), Tail(queue), chain, F)
        BY <1>0, <2>1, <3>2, <3>5, <3>6, RolledTallied
      <4> QED BY <4>1, <4>2
    <3>7. CASE e.block # <<>>
      BY <2>1, <3>2, <3>5, <3>7, TakenTallied
    <3> QED BY <3>6, <3>7
  <2> QED BY <1>3, <2>1, <2>2
<1>9. CASE Fetch \/ Serve \/ Receive \/ Fail \/ CycleSort
  <2>1. page' = page /\ IsGrid
    BY <1>0, <1>9 DEF Fetch, Serve, Receive, Fail, CycleSort, world
  <2>2. page.view # "feed"
    BY <2>1 DEF IsGrid
  <2> QED BY <1>3, <2>1, <2>2
<1>10. CASE Compare
  BY <1>2, <1>10 DEF Compare, world
<1>11. CASE UNCHANGED vars
  BY <1>2, <1>11 DEF vars, world, stream
<1> QED BY <1>4, <1>5, <1>6, <1>7, <1>8, <1>9, <1>10, <1>11 DEF Next

\* The changes that an open feed shows add up to the subject's live stake, where
\* none of what the code leaves out of them has happened (filter_event,
\* apply_stake_change).
THEOREM ChangesAreSums == Spec => []ChangesAddUp
<1>1. Init => TypeInv /\ LastInv /\ TallyInv
  BY InitTyped DEF Init, LastInv, TallyInv
<1>2. (TypeInv /\ LastInv /\ TallyInv) /\ [Next]_vars => (TypeInv /\ LastInv /\ TallyInv)'
  BY TypeOfWorld, TypeOfStream, TypeOfGrid, LastStep, TallyStep DEF TypeInv
<1>3. TypeInv /\ TallyInv => ChangesAddUp
  <2> SUFFICES ASSUME TypeInv, TallyInv PROVE ChangesAddUp
    OBVIOUS
  <2>1. TypeOK
    BY TypeMeans
  <2>2. ASSUME page.view = "feed", InStep, marks = {} PROVE Last(tally) = LiveStake(F, Now)
    <3>1. up # "down" /\ queue = <<>>
      BY <2>2 DEF InStep
    <3>2. ~Doomed(queue)
      <4>1. \A i : i \notin 1..(Len(<<>>) - 1)
        OBVIOUS
      <4> QED BY <3>1, <4>1 DEF Doomed
    <3>3. Tallied(tally, queue, chain, F)
      BY <2>2, <3>1, <3>2 DEF TallyInv
    <3>4. Even(queue, chain) = Len(chain)
      BY <3>1 DEF Even
    <3>5. Len(tally) = Len(chain) /\ \A i \in 1..Len(chain) : tally[i] = LiveStake(F, chain[i])
      BY <3>1, <3>3, <3>4 DEF Tallied
    <3>6. Len(chain) \in 1..Len(chain) /\ chain[Len(chain)] = Now
      <4>1. Len(chain) \in Nat /\ Len(chain) >= 1 /\ chain[Len(chain)] = Now
        BY NowIs DEF TypeInv
      <4> QED BY <4>1
    <3> QED BY <3>5, <3>6 DEF Last
  <2> QED BY <2>1, <2>2 DEF ChangesAddUp
<1> QED BY <1>1, <1>2, <1>3, PTL DEF Spec
=============================================================================
