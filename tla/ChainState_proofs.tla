-------------------------- MODULE ChainState_proofs -------------------------
(***************************************************************************)
(* The sink's history, for every chain, every set of names and every       *)
(* MaxHistory: it has its type, it is the tail of the chain followed, its  *)
(* reverse indexes agree with the maps they invert, and every snapshot in  *)
(* it is what db-sync would answer for the chain that ends in its block.   *)
(* First, what a block and a reset make of one snapshot.                   *)
(***************************************************************************)
EXTENDS ChainState, SequenceLemmas

-----------------------------------------------------------------------------
(* What a transaction, a block and a db-sync query return, for every value *)
(* of the constants, and what one more block changes of each query.        *)

\* An output reference names an output of its transaction.
LEMMA OutputAtType ==
  /\ OutputAt \in [Refs -> Output]
  /\ CredOf \in [Addrs -> Creds \cup {NoCred}]
<1>1. ASSUME NEW r \in Refs
      PROVE  (IF r[2] <= Len(Body[r[1]].outs) THEN Body[r[1]].outs[r[2]]
              ELSE Body[r[1]].coll_ret[r[2] - Len(Body[r[1]].outs)]) \in Output
  <2>1. PICK t \in Txs : r \in {t} \X (1..(Len(Body[t].outs) + Len(Body[t].coll_ret)))
    BY DEF Refs
  <2> DEFINE n == Len(Body[t].outs)
             m == Len(Body[t].coll_ret)
  <2>2. r[1] = t /\ r[2] \in 1..(n + m)
    BY <2>1
  <2>3. Body[t].outs \in Seq(Output) /\ Body[t].coll_ret \in Seq(Output)
    BY TxsAssumption
  <2>4. n \in Nat /\ m \in Nat
    BY <2>3, LenNat
  <2>5. CASE r[2] <= n
    BY <2>2, <2>3, <2>4, <2>5
  <2>6. CASE ~(r[2] <= n)
    <3> HIDE DEF n, m
    <3>1. r[2] - n \in 1..m
      BY <2>2, <2>4, <2>6
    <3> QED BY <2>2, <2>3, <2>6, <3>1 DEF n, m
  <2> QED BY <2>5, <2>6
<1>2. OutputAt \in [Refs -> Output]
  BY <1>1 DEF OutputAt
<1> QED BY <1>2, NamesAssumption

\* What one transaction spends, creates and certifies.
LEMMA TxType ==
  ASSUME NEW t \in Txs
  PROVE  /\ Inputs[t] \in Seq(Refs)
         /\ Outputs[t] \in Seq(Refs)
         /\ \A r \in Roles : TxChanges[t][r] \in Seq(Change)
         /\ TxPoolCerts[t] \in Seq(PoolCert)
         /\ TxWithdrawals[t] \in [Creds -> Nat]
<1>1. /\ Body[t].valid \in BOOLEAN
      /\ Body[t].ins \in Seq(Refs) /\ Body[t].coll \in Seq(Refs)
      /\ Body[t].outs \in Seq(Output) /\ Body[t].coll_ret \in Seq(Output)
      /\ Body[t].certs \in Seq(Cert) /\ Body[t].pool_certs \in Seq(PoolCert)
      /\ Body[t].withdrawals \in [Creds -> Nat]
  BY TxsAssumption DEF TxBody
<1>2. Inputs[t] \in Seq(Refs)
  BY <1>1 DEF Inputs
<1>3. Outputs[t] \in Seq(Refs)
  <2> DEFINE n == Len(Body[t].outs)
             m == Len(Body[t].coll_ret)
  <2>1. n \in Nat /\ m \in Nat
    BY <1>1, LenNat
  <2>2. ASSUME NEW i \in 1..(n + m) PROVE <<t, i>> \in Refs
    <3>1. <<t, i>> \in {t} \X (1..(n + m))
      OBVIOUS
    <3> QED BY <3>1 DEF Refs
  <2> HIDE DEF n, m
  <2>3. [i \in 1..n |-> <<t, i>>] \in Seq(Refs)
    <3>1. \A i \in 1..n : i \in 1..(n + m)
      BY <2>1
    <3>2. \A i \in 1..n : <<t, i>> \in Refs
      BY <2>2, <3>1
    <3> QED BY <2>1, <3>2
  <2>4. [i \in 1..m |-> <<t, n + i>>] \in Seq(Refs)
    <3>1. \A i \in 1..m : n + i \in 1..(n + m)
      BY <2>1
    <3>2. \A i \in 1..m : <<t, n + i>> \in Refs
      BY <2>2, <3>1
    <3> QED BY <2>1, <3>2
  <2> QED BY <1>1, <2>3, <2>4 DEF Outputs, n, m
<1>4. ASSUME NEW r \in Roles PROVE TxChanges[t][r] \in Seq(Change)
  <2> DEFINE certs == Body[t].certs
             keep == {c \in ToSet(certs) : c.to[r] # Unchanged}
             own == Sift(certs, keep)
  <2>1. own \in Seq(Cert \cap keep)
    BY <1>1, SiftIn
  <2> HIDE DEF own
  <2>2. ASSUME NEW i \in DOMAIN own
        PROVE  [cred |-> own[i].cred, target |-> own[i].to[r]] \in Change
    <3>1. own[i] \in Cert /\ own[i].to[r] # Unchanged
      BY <2>1
    <3> QED BY <3>1 DEF Cert, Change
  <2>3. [i \in DOMAIN own |-> [cred |-> own[i].cred, target |-> own[i].to[r]]]
          \in Seq(Change)
    BY <2>1, <2>2
  <2>4. <<>> \in Seq(Change)
    OBVIOUS
  <2> QED BY <2>3, <2>4 DEF TxChanges, own
<1>5. TxPoolCerts[t] \in Seq(PoolCert)
  BY <1>1 DEF TxPoolCerts
<1>6. TxWithdrawals[t] \in [Creds -> Nat]
  BY <1>1 DEF TxWithdrawals
<1> QED BY <1>2, <1>3, <1>4, <1>5, <1>6

\* The same of a list of transactions.
LEMMA ListType ==
  ASSUME NEW txs \in Seq(Txs)
  PROVE  /\ AllInputs(txs) \in Seq(Refs)
         /\ AllOutputs(txs) \in Seq(Refs)
         /\ \A r \in Roles : Changes(txs, r) \in Seq(Change)
         /\ PoolCertsOf(txs) \in Seq(PoolCert)
         /\ \A k \in Creds : Withdrawn(txs, k) \in Nat
         /\ Unspent(txs) \in Seq(Refs)
<1>1. Len(txs) \in Nat /\ DOMAIN txs = 1..Len(txs) /\ \A i \in DOMAIN txs : txs[i] \in Txs
  BY LenNat
<1>2. AllInputs(txs) \in Seq(Refs)
  <2>1. [i \in DOMAIN txs |-> Inputs[txs[i]]] \in Seq(Seq(Refs))
    BY <1>1, TxType
  <2> QED BY <2>1, FlattenIn DEF AllInputs
<1>3. AllOutputs(txs) \in Seq(Refs)
  <2>1. [i \in DOMAIN txs |-> Outputs[txs[i]]] \in Seq(Seq(Refs))
    BY <1>1, TxType
  <2> QED BY <2>1, FlattenIn DEF AllOutputs
<1>4. ASSUME NEW r \in Roles PROVE Changes(txs, r) \in Seq(Change)
  <2>1. [i \in DOMAIN txs |-> TxChanges[txs[i]][r]] \in Seq(Seq(Change))
    BY <1>1, TxType
  <2> QED BY <2>1, FlattenIn DEF Changes
<1>5. PoolCertsOf(txs) \in Seq(PoolCert)
  <2>1. [i \in DOMAIN txs |-> TxPoolCerts[txs[i]]] \in Seq(Seq(PoolCert))
    BY <1>1, TxType
  <2> QED BY <2>1, FlattenIn DEF PoolCertsOf
<1>6. ASSUME NEW k \in Creds PROVE Withdrawn(txs, k) \in Nat
  <2>1. \A i \in DOMAIN txs : TxWithdrawals[txs[i]][k] \in Nat
    BY <1>1, TxType
  <2>2. [i \in DOMAIN txs |-> TxWithdrawals[txs[i]][k]] \in Seq(Nat)
    BY <1>1, <2>1
  <2> QED BY <2>2, SumIn DEF Withdrawn
<1>7. Unspent(txs) \in Seq(Refs)
  <2> DEFINE keep == ToSet(AllOutputs(txs)) \ ToSet(AllInputs(txs))
  <2>1. Sift(AllOutputs(txs), keep) \in Seq(Refs \cap keep)
    BY <1>3, SiftIn
  <2>2. Unspent(txs) \in Seq(Refs \cap keep)
    BY <2>1 DEF Unspent
  <2> HIDE DEF keep
  <2> QED BY <2>2
<1> QED BY <1>2, <1>3, <1>4, <1>5, <1>6, <1>7

\* The transactions of a chain, and what its unspent outputs hold.
LEMMA ChainTxsType ==
  ASSUME NEW c \in Seq(Block)
  PROVE  /\ \A i \in DOMAIN c : c[i].txs \in Seq(Txs) /\ c[i].slot \in Nat
         /\ TxsOf(c) \in Seq(Txs)
         /\ DbUnspent(c) \in Seq(Refs)
<1>1. ASSUME NEW i \in DOMAIN c PROVE c[i].txs \in Seq(Txs) /\ c[i].slot \in Nat
  <2>1. c[i] \in Block
    BY ElementIn
  <2> QED BY <2>1 DEF Block
<1>2. [i \in DOMAIN c |-> c[i].txs] \in Seq(Seq(Txs))
  BY <1>1, LenNat
<1>3. TxsOf(c) \in Seq(Txs)
  BY <1>2, FlattenIn DEF TxsOf
<1> QED BY <1>1, <1>3, ListType DEF DbUnspent

\* Naturals can be summed.
LEMMA NatIsClosed == 0 \in Nat /\ \A a, b \in Nat : a + b \in Nat
OBVIOUS

\* Amounts held by a list of outputs are naturals.
LEMMA AmountType ==
  ASSUME NEW refs \in Seq(Refs)
  PROVE  /\ \A a \in Addrs : AdaAt(refs, a) \in Nat
         /\ \A k \in Creds : AdaOf(refs, k) \in Nat
         /\ \A a \in Addrs, x \in Assets : UnitsAt(refs, a, x) \in Nat
<1>1. Len(refs) \in Nat /\ DOMAIN refs = 1..Len(refs)
  BY LenNat
<1>2. \A i \in DOMAIN refs : OutputAt[refs[i]] \in Output
  BY <1>1, OutputAtType
<1>3. ASSUME NEW a \in Addrs PROVE AdaAt(refs, a) \in Nat
  <2>1. [i \in DOMAIN refs |-> IF OutputAt[refs[i]].addr = a
                               THEN OutputAt[refs[i]].ada ELSE 0] \in Seq(Nat)
    BY <1>1, <1>2 DEF Output
  <2> QED BY <2>1, NatIsClosed, SumIn DEF AdaAt
<1>4. ASSUME NEW k \in Creds PROVE AdaOf(refs, k) \in Nat
  <2>1. [i \in DOMAIN refs |-> IF CredOf[OutputAt[refs[i]].addr] = k
                               THEN OutputAt[refs[i]].ada ELSE 0] \in Seq(Nat)
    BY <1>1, <1>2 DEF Output
  <2> QED BY <2>1, NatIsClosed, SumIn DEF AdaOf
<1>5. ASSUME NEW a \in Addrs, NEW x \in Assets PROVE UnitsAt(refs, a, x) \in Nat
  <2>1. [i \in DOMAIN refs |-> IF OutputAt[refs[i]].addr = a
                               THEN OutputAt[refs[i]].assets[x] ELSE 0] \in Seq(Nat)
    BY <1>1, <1>2 DEF Output
  <2> QED BY <2>1, NatIsClosed, SumIn DEF UnitsAt
<1> QED BY <1>3, <1>4, <1>5

\* Epochs, and the rewards of a credential.
LEMMA RewardType ==
  /\ \A slot \in Nat : Epoch(slot) \in Nat
  /\ \A k \in Creds, e \in Nat : EarnedIn(k, e) \in Nat
  /\ \A c \in Seq(Block), k \in Creds, e \in Nat : DbRewards(c, e, k) \in Int
<1>1. ASSUME NEW slot \in Nat PROVE Epoch(slot) \in Nat
  BY EpochAssumption DEF Epoch
<1>2. ASSUME NEW k \in Creds, NEW e \in Nat PROVE EarnedIn(k, e) \in Nat
  <2>1. Earned[k] \in Seq(Nat)
    BY EpochAssumption
  <2> QED BY <2>1 DEF EarnedIn
<1>3. ASSUME NEW c \in Seq(Block), NEW k \in Creds, NEW e \in Nat
      PROVE  DbRewards(c, e, k) \in Int
  <2>1. [i \in 1..e |-> EarnedIn(k, i)] \in Seq(Nat)
    BY <1>2
  <2>2. EarnedBy(k, e) \in Nat
    BY <2>1, NatIsClosed, SumIn DEF EarnedBy
  <2>3. Withdrawn(TxsOf(c), k) \in Nat
    BY ChainTxsType, ListType
  <2> QED BY <2>2, <2>3 DEF DbRewards
<1> QED BY <1>1, <1>2, <1>3

\* The run of a credential is that of one of its certificates, or none.
LEMMA DbRunType ==
  ASSUME NEW c \in Seq(Block), NEW r \in Roles, NEW k \in Creds
  PROVE  /\ DbRun(c, r, k).target \in Targets \cup {Nobody}
         /\ DbRun(c, r, k) \in [target : Targets \cup {Nobody}, since_slot : Nat]
<1> DEFINE Event == [target : Targets \cup {Nobody}, slot : Nat]
           ev == DelegationEvents(c, r, k)
           island == {i \in DOMAIN ev : \A j \in i..Len(ev) : ev[j].target = Last(ev).target}
<1>1. ev \in Seq(Event)
  <2> DEFINE of(i) == LET changes == Changes(c[i].txs, r)
                          own == Sift(changes, {e \in ToSet(changes) : e.cred = k})
                      IN  [j \in DOMAIN own |->
                             [target |-> own[j].target, slot |-> c[i].slot]]
  <2>1. ASSUME NEW i \in DOMAIN c PROVE of(i) \in Seq(Event)
    <3> DEFINE changes == Changes(c[i].txs, r)
               keep == {e \in ToSet(changes) : e.cred = k}
               own == Sift(changes, keep)
    <3>1. c[i].slot \in Nat /\ changes \in Seq(Change)
      BY ChainTxsType, ListType
    <3> HIDE DEF changes
    <3>2. own \in Seq(Change \cap keep)
      BY <3>1, SiftIn
    <3> HIDE DEF own
    <3>3. ASSUME NEW j \in DOMAIN own
          PROVE  [target |-> own[j].target, slot |-> c[i].slot] \in Event
      <4>1. own[j] \in Change
        BY <3>2, ElementIn
      <4> QED BY <3>1, <4>1 DEF Change
    <3> HIDE DEF Event
    <3>4. [j \in DOMAIN own |-> [target |-> own[j].target, slot |-> c[i].slot]] \in Seq(Event)
      BY <3>2, <3>3, LenNat
    <3> QED BY <3>4 DEF own, changes
  <2> HIDE DEF of, Event
  <2>2. [i \in DOMAIN c |-> of(i)] \in Seq(Seq(Event))
    BY <2>1, LenNat
  <2>3. FlattenSeq([i \in DOMAIN c |-> of(i)]) \in Seq(Event)
    BY <2>2, FlattenIn
  <2> QED BY <2>3 DEF DelegationEvents, of
<1>2. NoRun \in [target : Targets \cup {Nobody}, since_slot : Nat]
  BY DEF NoRun
<1>3. CASE ev # <<>>
  <2> HIDE DEF ev
  <2>1. Len(ev) \in Nat /\ Len(ev) # 0 /\ DOMAIN ev = 1..Len(ev)
    BY <1>1, <1>3, LenNat
  <2>2. Last(ev) = ev[Len(ev)] /\ Last(ev) \in Event
    <3>1. Len(ev) \in DOMAIN ev
      BY <2>1
    <3>2. ev[Len(ev)] \in Event
      BY <1>1, <3>1, ElementIn
    <3> QED BY <3>2 DEF Last
  <2>3. Len(ev) \in island
    BY <2>1, <2>2
  <2>4. island \subseteq Nat
    BY <2>1
  <2> HIDE DEF island
  <2>5. Min(island) \in island
    BY <2>3, <2>4, MinIndex
  <2>6. ev[Min(island)] \in Event
    <3>1. Min(island) \in DOMAIN ev
      BY <2>5 DEF island
    <3> QED BY <1>1, <3>1, ElementIn
  <2>7. [target |-> Last(ev).target, since_slot |-> ev[Min(island)].slot]
          \in [target : Targets \cup {Nobody}, since_slot : Nat]
    BY <2>2, <2>6
  <2> QED BY <1>2, <2>7 DEF DbRun, RunOf, ev, island
<1>4. CASE ev = <<>>
  BY <1>2, <1>4 DEF DbRun, RunOf
<1> QED BY <1>3, <1>4

\* The scans of the unspent outputs.
LEMMA ScanType ==
  ASSUME NEW c \in Seq(Block)
  PROVE  /\ DbBalances(c) \in [Addrs -> Nat]
         /\ DbStakes(c) \in [Creds -> Nat]
         /\ DbUnits(c) \in [Addrs -> [Assets -> Nat]]
<1>1. DbUnspent(c) \in Seq(Refs)
  BY ChainTxsType
<1>2. DbBalances(c) \in [Addrs -> Nat] /\ DbStakes(c) \in [Creds -> Nat]
  BY <1>1, AmountType DEF DbBalances, DbStakes
<1>3. DbUnits(c) \in [Addrs -> [Assets -> Nat]]
  BY <1>1, AmountType DEF DbUnits
<1> QED BY <1>2, <1>3

\* The slot of the first block that mints an asset.
LEMMA FirstMintType ==
  ASSUME NEW c \in Seq(Block), NEW x \in Assets
  PROVE  DbFirstMint(c, x) \in Nat
<1> DEFINE minting == MintBlocks(c, x)
<1>1. minting \subseteq DOMAIN c /\ DOMAIN c \subseteq Nat
  BY LenNat DEF MintBlocks
<1>2. CASE minting = {}
  BY <1>2 DEF DbFirstMint
<1>3. CASE minting # {}
  <2> HIDE DEF minting
  <2>1. Min(minting) \in DOMAIN c
    BY <1>1, <1>3, MinIndex
  <2>2. c[Min(minting)].slot \in Nat
    BY <2>1, ChainTxsType
  <2> QED BY <1>3, <2>2 DEF DbFirstMint, minting
<1> QED BY <1>2, <1>3

\* The retirement that counts, of a list that has one.
LEMMA LastRetirementType ==
  ASSUME NEW certs \in Seq(PoolCert), NEW p, Retirements(certs, p) # {}
  PROVE  LastRetirement(certs, p) \in Nat
<1> DEFINE T == Retirements(certs, p)
<1>1. Len(certs) \in Nat /\ T \subseteq 0..Len(certs) /\ T \subseteq DOMAIN certs
  BY LenNat DEF Retirements
<1> HIDE DEF T
<1>2. Max(T) \in DOMAIN certs
  BY <1>1, MaxIndex DEF T
<1>3. certs[Max(T)] \in PoolCert
  BY <1>2, ElementIn
<1> QED BY <1>3 DEF LastRetirement, PoolCert, T

\* What db-sync says of a pool.
LEMMA DbPoolType ==
  ASSUME NEW c \in Seq(Block), NEW p \in Pools
  PROVE  DbPool(c, p) \in [known : BOOLEAN, retiring : Nat, blocks : Nat]
<1> DEFINE txs == TxsOf(c)
           announced(reg) ==
             {i \in DOMAIN txs : \E q \in ToSet(TxPoolCerts[txs[i]]) :
                                   q.pool = p /\ (q.retiring = 0) = reg}
           pending == {i \in announced(FALSE) : i > Max(announced(TRUE))}
           last == LastRetirement(TxPoolCerts[txs[Max(pending)]], p)
<1>1. txs \in Seq(Txs) /\ Len(txs) \in Nat /\ DOMAIN txs = 1..Len(txs)
  BY ChainTxsType, LenNat
<1>2. Cardinality({i \in DOMAIN c : c[i].issuer = p}) \in Nat
  <2>1. IsFiniteSet(1..Len(c)) /\ DOMAIN c = 1..Len(c)
    BY LenNat, FS_Interval
  <2>2. {i \in DOMAIN c : c[i].issuer = p} \subseteq 1..Len(c)
    BY <2>1
  <2>3. IsFiniteSet({i \in DOMAIN c : c[i].issuer = p})
    BY <2>1, <2>2, FS_Subset
  <2> QED BY <2>3, FS_CardinalityType
<1>3. ASSUME pending # {} PROVE last \in Nat
  <2> HIDE DEF txs
  <2>1. pending \subseteq 0..Len(txs)
    BY <1>1
  <2> DEFINE m == Max(pending)
  <2>2. m \in pending
    <3> HIDE DEF pending
    <3> QED BY <1>1, <1>3, <2>1, MaxIndex
  <2> HIDE DEF m
  <2>3. PICK q \in ToSet(TxPoolCerts[txs[m]]) : q.pool = p /\ (q.retiring = 0) = FALSE
    BY <2>2
  <2>4. txs[m] \in Txs
    BY <1>1, <2>2, ElementIn
  <2> DEFINE certs == TxPoolCerts[txs[m]]
  <2>5. certs \in Seq(PoolCert)
    BY <2>4, TxType
  <2> HIDE DEF certs
  <2>6. \E j \in DOMAIN certs : certs[j] = q
    BY <2>3 DEF ToSet, certs
  <2>7. Retirements(certs, p) # {}
    BY <2>3, <2>6 DEF Retirements
  <2>8. LastRetirement(certs, p) \in Nat
    BY <2>5, <2>7, LastRetirementType
  <2> QED BY <2>8 DEF certs, m
<1> HIDE DEF last, pending
<1>4. CASE announced(TRUE) = {}
  BY <1>4 DEF DbPool
<1>5. CASE announced(TRUE) # {}
  <2>1. DbPool(c, p) = [known |-> TRUE,
                        retiring |-> IF pending = {} THEN 0 ELSE last,
                        blocks |-> Cardinality({i \in DOMAIN c : c[i].issuer = p})]
    BY <1>5 DEF DbPool, pending, last
  <2> QED BY <1>2, <1>3, <2>1
<1> QED BY <1>4, <1>5

\* The owner of a handle is an address or nobody.
LEMMA HandleOwnerType ==
  ASSUME NEW c \in Seq(Block), NEW h \in Handles
  PROVE  DbHandleOwner(c, h) \in Addrs \cup {Nobody}
<1> DEFINE there == DbUnspent(c)
           held == {i \in DOMAIN there : OutputAt[there[i]].assets[h] > 0}
<1>1. there \in Seq(Refs) /\ Len(there) \in Nat /\ DOMAIN there = 1..Len(there)
  BY ChainTxsType, LenNat
<1>2. CASE held = {}
  BY <1>2 DEF DbHandleOwner
<1>3. CASE held # {}
  <2> HIDE DEF there
  <2>1. held \subseteq 0..Len(there) /\ held \subseteq DOMAIN there
    BY <1>1
  <2> HIDE DEF held
  <2>2. Max(held) \in DOMAIN there
    BY <1>1, <1>3, <2>1, MaxIndex
  <2>3. OutputAt[there[Max(held)]] \in Output
    BY <1>1, <2>2, ElementIn, OutputAtType
  <2>4. DbOwner(there[Max(held)], h) \in Addrs \cup {Nobody}
    BY <2>3 DEF DbOwner, Output
  <2> QED BY <1>3, <2>4 DEF DbHandleOwner, there, held
<1> QED BY <1>2, <1>3

-----------------------------------------------------------------------------
(* Lists of transactions, and chains *)

\* The lists of a list of transactions are joined from those of its parts.
LEMMA ListConcat ==
  ASSUME NEW u \in Seq(Txs), NEW v \in Seq(Txs)
  PROVE  /\ AllInputs(u \o v) = AllInputs(u) \o AllInputs(v)
         /\ AllOutputs(u \o v) = AllOutputs(u) \o AllOutputs(v)
         /\ \A r \in Roles : Changes(u \o v, r) = Changes(u, r) \o Changes(v, r)
         /\ PoolCertsOf(u \o v) = PoolCertsOf(u) \o PoolCertsOf(v)
         /\ \A k \in Creds : Withdrawn(u \o v, k) = Withdrawn(u, k) + Withdrawn(v, k)
<1>0. u \o v \in Seq(Txs)
  OBVIOUS
<1>1. Inputs \in [Txs -> Seq(Refs)] /\ Outputs \in [Txs -> Seq(Refs)]
  <2>1. Inputs = [t \in Txs |-> Inputs[t]] /\ Outputs = [t \in Txs |-> Outputs[t]]
    BY DEF Inputs, Outputs
  <2> QED BY <2>1, TxType
<1>2. AllInputs(u \o v) = AllInputs(u) \o AllInputs(v)
  <2>1. \A s : AllInputs(s) = FlatMap(s, Inputs)
    BY DEF AllInputs, FlatMap
  <2> QED BY <1>1, <2>1, FlatMapConcat, ZenonT(40)
<1>3. AllOutputs(u \o v) = AllOutputs(u) \o AllOutputs(v)
  <2>1. \A s : AllOutputs(s) = FlatMap(s, Outputs)
    BY DEF AllOutputs, FlatMap
  <2> QED BY <1>1, <2>1, FlatMapConcat, ZenonT(40)
<1>4. ASSUME NEW r \in Roles PROVE Changes(u \o v, r) = Changes(u, r) \o Changes(v, r)
  <2> DEFINE f == [t \in Txs |-> TxChanges[t][r]]
  <2>1. f \in [Txs -> Seq(Change)]
    BY TxType
  <2>2. \A s \in Seq(Txs) : Changes(s, r) = FlatMap(s, f)
    <3> SUFFICES ASSUME NEW s \in Seq(Txs) PROVE Changes(s, r) = FlatMap(s, f)
      OBVIOUS
    <3>1. \A i \in DOMAIN s : f[s[i]] = TxChanges[s[i]][r]
      BY ElementIn
    <3> HIDE DEF f
    <3>2. [i \in DOMAIN s |-> TxChanges[s[i]][r]] = [i \in DOMAIN s |-> f[s[i]]]
      BY <3>1
    <3> QED BY <3>2 DEF Changes, FlatMap
  <2> HIDE DEF f
  <2>3. FlatMap(u \o v, f) = FlatMap(u, f) \o FlatMap(v, f)
    BY <2>1, FlatMapConcat, ZenonT(40)
  <2> QED BY <1>0, <2>2, <2>3
<1>5. PoolCertsOf(u \o v) = PoolCertsOf(u) \o PoolCertsOf(v)
  <2>1. TxPoolCerts \in [Txs -> Seq(PoolCert)]
    <3>1. TxPoolCerts = [t \in Txs |-> TxPoolCerts[t]]
      BY DEF TxPoolCerts
    <3> QED BY <3>1, TxType
  <2>2. \A s : PoolCertsOf(s) = FlatMap(s, TxPoolCerts)
    BY DEF PoolCertsOf, FlatMap
  <2> QED BY <2>1, <2>2, FlatMapConcat
<1>6. ASSUME NEW k \in Creds
      PROVE  Withdrawn(u \o v, k) = Withdrawn(u, k) + Withdrawn(v, k)
  <2> DEFINE f == [t \in Txs |-> TxWithdrawals[t][k]]
  <2>1. f \in [Txs -> Int]
    BY TxType
  <2>2. \A s \in Seq(Txs) : Withdrawn(s, k) = Worth(s, f)
    <3> SUFFICES ASSUME NEW s \in Seq(Txs) PROVE Withdrawn(s, k) = Worth(s, f)
      OBVIOUS
    <3>1. \A i \in DOMAIN s : f[s[i]] = TxWithdrawals[s[i]][k]
      BY ElementIn
    <3> HIDE DEF f
    <3>2. [i \in DOMAIN s |-> TxWithdrawals[s[i]][k]] = [i \in DOMAIN s |-> f[s[i]]]
      BY <3>1
    <3> QED BY <3>2 DEF Withdrawn, Worth
  <2> HIDE DEF f
  <2>3. Worth(u \o v, f) = Worth(u, f) + Worth(v, f)
    BY <2>1, WorthConcat
  <2> QED BY <1>0, <2>2, <2>3
<1> QED BY <1>2, <1>3, <1>4, <1>5, <1>6

\* So are the transactions of a chain.
LEMMA ChainAppend ==
  ASSUME NEW c \in Seq(Block), NEW b \in Block
  PROVE  TxsOf(Append(c, b)) = TxsOf(c) \o b.txs
<1> DEFINE f == [x \in Block |-> x.txs]
<1>1. f \in [Block -> Seq(Txs)] /\ f[b] = b.txs
  BY DEF Block
<1>2. \A s \in Seq(Block) : TxsOf(s) = FlatMap(s, f)
  <2> SUFFICES ASSUME NEW s \in Seq(Block) PROVE TxsOf(s) = FlatMap(s, f)
    OBVIOUS
  <2>1. \A i \in DOMAIN s : f[s[i]] = s[i].txs
    BY ElementIn
  <2> HIDE DEF f
  <2>2. [i \in DOMAIN s |-> s[i].txs] = [i \in DOMAIN s |-> f[s[i]]]
    BY <2>1
  <2> QED BY <2>2 DEF TxsOf, FlatMap
<1> HIDE DEF f
<1>3. FlatMap(Append(c, b), f) = FlatMap(c, f) \o f[b]
  <2>1. f \in [Block -> Seq(Txs)]
    BY <1>1
  <2>2. \A s \in Seq(Block), x \in Block : FlatMap(Append(s, x), f) = FlatMap(s, f) \o f[x]
    BY <2>1, FlatMapAppend, ZenonT(40)
  <2> QED BY <2>2
<1>4. Append(c, b) \in Seq(Block)
  OBVIOUS
<1> QED BY <1>1, <1>2, <1>3, <1>4

\* The lists of one transaction, and of none.
LEMMA ListSingle ==
  /\ AllInputs(<<>>) = <<>> /\ AllOutputs(<<>>) = <<>>
  /\ \A t \in Txs : AllInputs(<<t>>) = Inputs[t] /\ AllOutputs(<<t>>) = Outputs[t]
<1>1. Inputs \in [Txs -> Seq(Refs)] /\ Outputs \in [Txs -> Seq(Refs)]
  <2>1. Inputs = [t \in Txs |-> Inputs[t]] /\ Outputs = [t \in Txs |-> Outputs[t]]
    BY DEF Inputs, Outputs
  <2> QED BY <2>1, TxType
<1>2. \A s : AllInputs(s) = FlatMap(s, Inputs) /\ AllOutputs(s) = FlatMap(s, Outputs)
  BY DEF AllInputs, AllOutputs, FlatMap
<1>3. /\ FlatMap(<<>>, Inputs) = <<>> /\ FlatMap(<<>>, Outputs) = <<>>
  BY <1>1, FlatMapAppend
<1>4. ASSUME NEW t \in Txs
      PROVE  FlatMap(<<t>>, Inputs) = Inputs[t] /\ FlatMap(<<t>>, Outputs) = Outputs[t]
  <2>1. <<>> \in Seq(Txs) /\ Append(<<>>, t) = <<t>>
    OBVIOUS
  <2>2. FlatMap(Append(<<>>, t), Inputs) = FlatMap(<<>>, Inputs) \o Inputs[t]
    <3>1. \A s \in Seq(Txs), x \in Txs :
             FlatMap(Append(s, x), Inputs) = FlatMap(s, Inputs) \o Inputs[x]
      BY <1>1, FlatMapAppend, ZenonT(40)
    <3> QED BY <2>1, <3>1, Zenon
  <2>3. FlatMap(Append(<<>>, t), Outputs) = FlatMap(<<>>, Outputs) \o Outputs[t]
    <3>1. \A s \in Seq(Txs), x \in Txs :
             FlatMap(Append(s, x), Outputs) = FlatMap(s, Outputs) \o Outputs[x]
      BY <1>1, FlatMapAppend, ZenonT(40)
    <3> QED BY <2>1, <3>1, Zenon
  <2>4. Inputs[t] \in Seq(Refs) /\ Outputs[t] \in Seq(Refs)
    BY TxType
  <2>5. <<>> \o Inputs[t] = Inputs[t] /\ <<>> \o Outputs[t] = Outputs[t]
    BY <2>4
  <2> QED BY <1>3, <2>1, <2>2, <2>3, <2>5
<1> QED BY <1>2, <1>3, <1>4

\* The transactions of a chain are those of its blocks.
LEMMA ChainTxs ==
  ASSUME NEW c \in Seq(Block)
  PROVE  ToSet(TxsOf(c)) = UNION {ToSet(c[i].txs) : i \in DOMAIN c}
<1> DEFINE f == [x \in Block |-> x.txs]
<1>1. f \in [Block -> Seq(Txs)]
  BY DEF Block
<1>2. \A i \in DOMAIN c : f[c[i]] = c[i].txs
  BY ElementIn
<1> HIDE DEF f
<1>3. [i \in DOMAIN c |-> c[i].txs] = [i \in DOMAIN c |-> f[c[i]]]
  BY <1>2
<1>4. TxsOf(c) = FlatMap(c, f)
  BY <1>3 DEF TxsOf, FlatMap
<1>5. ToSet(FlatMap(c, f)) = UNION {ToSet(f[x]) : x \in ToSet(c)}
  BY <1>1, FlatMapElements, ZenonT(40)
<1>6. ToSet(c) = {c[i] : i \in DOMAIN c}
  BY DEF ToSet
<1> QED BY <1>2, <1>4, <1>5, <1>6

-----------------------------------------------------------------------------
(* What the node delivers *)

\* The outputs of a transaction are its own, and neither they nor its inputs
\* stand twice in their lists.
LEMMA TxOnce ==
  ASSUME NEW t \in Txs
  PROVE  /\ Once(Inputs[t]) /\ Once(Outputs[t])
         /\ \A r \in ToSet(Outputs[t]) : r[1] = t
<1> DEFINE n == Len(Body[t].outs)
<1>1. /\ Body[t].outs \in Seq(Output) /\ Body[t].coll_ret \in Seq(Output)
      /\ Body[t].ins \in Seq(Refs) /\ Body[t].coll \in Seq(Refs)
      /\ IsInjective(Body[t].ins) /\ IsInjective(Body[t].coll)
  BY TxsAssumption DEF TxBody
<1>2. n \in Nat
  BY <1>1, LenNat
<1>3. Once(Inputs[t])
  <2>1. \A s \in Seq(Refs) : IsInjective(s) => Once(s)
    BY LenNat DEF IsInjective, Once
  <2> QED BY <1>1, <2>1 DEF Inputs
<1>4. CASE Body[t].valid
  <2>1. Outputs[t] = [i \in 1..n |-> <<t, i>>]
    BY <1>4 DEF Outputs
  <2> HIDE DEF n
  <2>2. DOMAIN Outputs[t] = 1..n /\ \A i \in 1..n : Outputs[t][i] = <<t, i>>
    BY <2>1
  <2>3. Len(Outputs[t]) = n
    BY <1>2, <2>1
  <2>4. Once(Outputs[t])
    BY <2>2, <2>3 DEF Once
  <2>5. \A r \in ToSet(Outputs[t]) : r[1] = t
    BY <2>2 DEF ToSet
  <2> QED BY <1>3, <2>4, <2>5
<1>5. CASE ~Body[t].valid
  <2> DEFINE m == Len(Body[t].coll_ret)
  <2>0. m \in Nat
    BY <1>1, LenNat
  <2>1. Outputs[t] = [i \in 1..m |-> <<t, n + i>>]
    BY <1>5 DEF Outputs
  <2> HIDE DEF n, m
  <2>2. DOMAIN Outputs[t] = 1..m /\ \A i \in 1..m : Outputs[t][i] = <<t, n + i>>
    BY <2>1
  <2>3. Len(Outputs[t]) = m
    BY <2>0, <2>1
  <2>4. Once(Outputs[t])
    <3>1. \A i, j \in 1..m : <<t, n + i>> = <<t, n + j>> => i = j
      BY <1>2, <2>0
    <3> QED BY <2>2, <2>3, <3>1 DEF Once
  <2>5. \A r \in ToSet(Outputs[t]) : r[1] = t
    BY <2>2 DEF ToSet
  <2> QED BY <1>3, <2>4, <2>5
<1> QED BY <1>4, <1>5

\* The unspent outputs are those no transaction of the list spends.
LEMMA UnspentSet ==
  ASSUME NEW txs \in Seq(Txs)
  PROVE  ToSet(Unspent(txs)) = ToSet(AllOutputs(txs)) \ ToSet(AllInputs(txs))
<1> DEFINE made == AllOutputs(txs)
           kept == ToSet(made) \ ToSet(AllInputs(txs))
<1>1. made \in Seq(Refs)
  BY ListType
<1>2. Unspent(txs) = Sift(made, kept)
  BY DEF Unspent
<1> HIDE DEF made, kept
<1>3. {Sift(made, kept)[j] : j \in DOMAIN Sift(made, kept)}
        = {made[j] : j \in DOMAIN made} \cap kept
  BY <1>1, SiftElements
<1>4. ToSet(Unspent(txs)) = ToSet(made) \cap kept
  BY <1>2, <1>3 DEF ToSet
<1> QED BY <1>4 DEF kept, made

\* A legal order, one transaction longer.
LEMMA LegalOrderAppend ==
  ASSUME NEW w \in Seq(Txs), NEW t \in Txs
  PROVE  LegalOrder(Append(w, t))
           <=> /\ LegalOrder(w) /\ t \notin ToSet(w)
               /\ ToSet(Inputs[t]) \subseteq ToSet(Unspent(w))
<1> DEFINE r == Append(w, t)
           n == Len(w)
           Legal(s, x) == x \notin ToSet(s) /\ ToSet(Inputs[x]) \subseteq ToSet(Unspent(s))
<1>1. /\ r \in Seq(Txs) /\ DOMAIN r = 1..(n + 1) /\ r[n + 1] = t
      /\ (\A i \in 1..n : r[i] = w[i]) /\ DOMAIN w = 1..n /\ n \in Nat
      /\ SubSeq(r, 1, n) = w
  BY AppendIs, LenNat
<1>2. ASSUME NEW i \in 1..n PROVE SubSeq(r, 1, i - 1) = SubSeq(w, 1, i - 1)
  BY <1>1
<1>3. LegalOrder(r) <=> \A i \in 1..(n + 1) : Legal(SubSeq(r, 1, i - 1), r[i])
  BY <1>1 DEF LegalOrder
<1>4. LegalOrder(w) <=> \A i \in 1..n : Legal(SubSeq(w, 1, i - 1), w[i])
  BY <1>1 DEF LegalOrder
<1>5. (n + 1) - 1 = n /\ \A i \in 1..(n + 1) : i \in 1..n \/ i = n + 1
  BY <1>1
<1>6. n + 1 \in 1..(n + 1) /\ \A i \in 1..n : i \in 1..(n + 1)
  BY <1>1
<1> HIDE DEF r, n, Legal
<1>7. LegalOrder(r) <=> LegalOrder(w) /\ Legal(w, t)
  <2>1. ASSUME LegalOrder(r) PROVE LegalOrder(w) /\ Legal(w, t)
    <3>1. \A i \in 1..(n + 1) : Legal(SubSeq(r, 1, i - 1), r[i])
      BY <1>3, <2>1
    <3>2. Legal(SubSeq(r, 1, (n + 1) - 1), r[n + 1])
      BY <1>6, <3>1, Zenon
    <3>3. Legal(w, t)
      BY <1>1, <1>5, <3>2
    <3>4. \A i \in 1..n : Legal(SubSeq(w, 1, i - 1), w[i])
      BY <1>1, <1>2, <1>6, <3>1
    <3> QED BY <1>4, <3>3, <3>4
  <2>2. ASSUME LegalOrder(w), Legal(w, t) PROVE LegalOrder(r)
    <3>1. \A i \in 1..n : Legal(SubSeq(w, 1, i - 1), w[i])
      BY <1>4, <2>2
    <3>2. ASSUME NEW i \in 1..(n + 1) PROVE Legal(SubSeq(r, 1, i - 1), r[i])
      <4>1. CASE i \in 1..n
        BY <1>1, <1>2, <3>1, <4>1
      <4>2. CASE i = n + 1
        BY <1>1, <1>5, <2>2, <4>2
      <4> QED BY <1>5, <4>1, <4>2
    <3> QED BY <1>3, <3>2
  <2> QED BY <2>1, <2>2
<1> QED BY <1>7 DEF r, Legal

\* No output is made twice or spent twice, and only outputs made are spent.
Sound(txs) ==
  /\ Once(AllOutputs(txs)) /\ Once(AllInputs(txs))
  /\ ToSet(AllInputs(txs)) \subseteq ToSet(AllOutputs(txs))

\* What has been made names a transaction of the list.
LEMMA MadeBy ==
  ASSUME NEW txs \in Seq(Txs)
  PROVE  \A r \in ToSet(AllOutputs(txs)) : r[1] \in ToSet(txs)
<1>1. Outputs \in [Txs -> Seq(Refs)]
  <2>1. Outputs = [t \in Txs |-> Outputs[t]]
    BY DEF Outputs
  <2> QED BY <2>1, TxType
<1>2. AllOutputs(txs) = FlatMap(txs, Outputs)
  BY DEF AllOutputs, FlatMap
<1>3. ToSet(FlatMap(txs, Outputs)) = UNION {ToSet(Outputs[x]) : x \in ToSet(txs)}
  BY <1>1, FlatMapElements
<1>4. ToSet(txs) \subseteq Txs
  BY ElementIn DEF ToSet
<1> QED BY <1>2, <1>3, <1>4, TxOnce

\* Transactions in a legal order make a sound ledger.
LEMMA LegalIsSound ==
  ASSUME NEW txs \in Seq(Txs), LegalOrder(txs)
  PROVE  Sound(txs)
<1> DEFINE W == {w \in Seq(Txs) : LegalOrder(w) => Sound(w)}
<1>1. <<>> \in W
  <2>1. <<>> \in Seq(Txs) /\ ToSet(<<>>) = {} /\ Once(<<>>)
    BY DEF ToSet, Once
  <2> QED BY <2>1, ListSingle DEF Sound
<1>2. ASSUME NEW w \in Seq(Txs), NEW t \in Txs, w \in W PROVE Append(w, t) \in W
  <2> DEFINE r == Append(w, t)
  <2>0. r \in Seq(Txs) /\ r = w \o <<t>> /\ <<t>> \in Seq(Txs)
    OBVIOUS
  <2>1. /\ AllInputs(r) = AllInputs(w) \o Inputs[t]
        /\ AllOutputs(r) = AllOutputs(w) \o Outputs[t]
    BY <2>0, ListConcat, ListSingle
  <2>2. /\ AllInputs(w) \in Seq(Refs) /\ Inputs[t] \in Seq(Refs)
        /\ AllOutputs(w) \in Seq(Refs) /\ Outputs[t] \in Seq(Refs)
    BY ListType, TxType
  <2>3. /\ ToSet(AllInputs(r)) = ToSet(AllInputs(w)) \cup ToSet(Inputs[t])
        /\ ToSet(AllOutputs(r)) = ToSet(AllOutputs(w)) \cup ToSet(Outputs[t])
    BY <2>1, <2>2, ConcatSet
  <2>4. ASSUME LegalOrder(r) PROVE Sound(r)
    <3>1. LegalOrder(w) /\ t \notin ToSet(w) /\ ToSet(Inputs[t]) \subseteq ToSet(Unspent(w))
      BY <2>4, LegalOrderAppend
    <3>2. /\ Once(AllOutputs(w)) /\ Once(AllInputs(w))
          /\ ToSet(AllInputs(w)) \subseteq ToSet(AllOutputs(w))
      BY <1>2, <3>1 DEF Sound
    <3>3. ToSet(Unspent(w)) = ToSet(AllOutputs(w)) \ ToSet(AllInputs(w))
      BY UnspentSet
    <3>4. ToSet(AllInputs(w)) \cap ToSet(Inputs[t]) = {}
      BY <3>1, <3>3
    <3>5. ToSet(AllOutputs(w)) \cap ToSet(Outputs[t]) = {}
      BY <3>1, MadeBy, TxOnce
    <3>6. Once(AllInputs(r))
      BY <2>1, <2>2, <3>2, <3>4, ConcatSet, TxOnce
    <3>7. Once(AllOutputs(r))
      BY <2>1, <2>2, <3>2, <3>5, ConcatSet, TxOnce
    <3>8. ToSet(AllInputs(r)) \subseteq ToSet(AllOutputs(r))
      BY <2>3, <3>1, <3>2, <3>3
    <3> QED BY <3>6, <3>7, <3>8 DEF Sound
  <2> QED BY <2>0, <2>4
<1> HIDE DEF W
<1>3. \A w \in Seq(Txs) : w \in W
  BY <1>1, <1>2, BuiltUp
<1> QED BY <1>3 DEF W

\* The first transactions of a legal list are one.
LEMMA LegalStart ==
  ASSUME NEW u \in Seq(Txs)
  PROVE  \A v \in Seq(Txs) : LegalOrder(u \o v) => LegalOrder(u)
<1> DEFINE W == {v \in Seq(Txs) : LegalOrder(u \o v) => LegalOrder(u)}
<1>1. <<>> \in W
  <2>1. u \o <<>> = u
    OBVIOUS
  <2> QED BY <2>1
<1>2. ASSUME NEW v \in Seq(Txs), NEW x \in Txs, v \in W PROVE Append(v, x) \in W
  <2>1. u \o Append(v, x) = Append(u \o v, x)
    BY ConcatAppend
  <2>2. u \o v \in Seq(Txs) /\ Append(v, x) \in Seq(Txs)
    OBVIOUS
  <2> DEFINE w == u \o v
  <2> HIDE DEF w
  <2>3. LegalOrder(Append(w, x)) => LegalOrder(w)
    BY <2>2, LegalOrderAppend DEF w
  <2>4. LegalOrder(w) => LegalOrder(u)
    BY <1>2 DEF w
  <2> QED BY <2>1, <2>2, <2>3, <2>4 DEF w
<1> HIDE DEF W
<1>3. \A v \in Seq(Txs) : v \in W
  BY <1>1, <1>2, BuiltUp
<1> QED BY <1>3 DEF W

\* So is a legal chain up to any of its blocks.
LEMMA LegalChainStart ==
  \A c \in Seq(Block) : LegalOrder(TxsOf(c)) =>
    \A n \in 0..Len(c) : LegalOrder(TxsOf(SubSeq(c, 1, n)))
<1> DEFINE Right(c) == LegalOrder(TxsOf(c)) =>
                         \A n \in 0..Len(c) : LegalOrder(TxsOf(SubSeq(c, 1, n)))
           W == {c \in Seq(Block) : Right(c)}
<1>1. <<>> \in W
  <2>1. SubSeq(<<>>, 1, 0) = <<>> /\ <<>> \in Seq(Block)
    OBVIOUS
  <2>2. \A n \in 0..Len(<<>>) : n = 0
    OBVIOUS
  <2>3. \A n \in 0..Len(<<>>) : SubSeq(<<>>, 1, n) = <<>>
    BY <2>1, <2>2
  <2> QED BY <2>1, <2>3
<1>2. ASSUME NEW c \in Seq(Block), NEW b \in Block, c \in W PROVE Append(c, b) \in W
  <2> DEFINE d == Append(c, b)
             m == Len(c)
  <2>1. d \in Seq(Block) /\ Len(d) = m + 1 /\ m \in Nat
    BY LenNat, AppendIs
  <2>2. SubSeq(d, 1, m + 1) = d /\ \A n \in 0..m : SubSeq(d, 1, n) = SubSeq(c, 1, n)
    <3>1. SubSeq(d, 1, m + 1) = d
      OBVIOUS
    <3>2. \A n \in 0..m : SubSeq(d, 1, n) = SubSeq(c, 1, n)
      <4> SUFFICES ASSUME NEW n \in 0..m PROVE SubSeq(d, 1, n) = SubSeq(c, 1, n)
        OBVIOUS
      <4>1. n \in Nat /\ n <= m /\ m \in Nat
        BY <2>1
      <4> QED BY <4>1
    <3> QED BY <3>1, <3>2
  <2>3. TxsOf(d) = TxsOf(c) \o b.txs /\ TxsOf(c) \in Seq(Txs)
    BY ChainAppend, ChainTxsType
  <2>4. b.txs \in Seq(Txs)
    BY DEF Block
  <2> DEFINE u == TxsOf(c)
             v == b.txs
  <2> HIDE DEF d, u, v, m
  <2>5. LegalOrder(TxsOf(d)) => LegalOrder(u)
    BY <2>3, <2>4, LegalStart DEF u, v
  <2>6. Right(c)
    BY <1>2
  <2>7. ASSUME LegalOrder(TxsOf(d)), NEW n \in 0..(m + 1)
        PROVE  LegalOrder(TxsOf(SubSeq(d, 1, n)))
    <3>1. CASE n = m + 1
      BY <2>2, <2>7, <3>1
    <3>2. CASE n \in 0..m
      BY <2>2, <2>5, <2>6, <2>7, <3>2 DEF u, m
    <3> QED BY <2>1, <3>1, <3>2
  <2> QED BY <2>1, <2>7 DEF d
<1> HIDE DEF W
<1>3. \A c \in Seq(Block) : c \in W
  BY <1>1, <1>2, BuiltUp
<1> QED BY <1>3 DEF W

\* A legal block continues a legal order.
LEMMA LegalBlockOrder ==
  ASSUME NEW c \in Seq(Block), NEW b \in Block, LegalOrder(TxsOf(c)), LegalBlock(c, b)
  PROVE  LegalOrder(TxsOf(c) \o b.txs)
<1> DEFINE u == TxsOf(c)
           v == b.txs
           n == Len(v)
           start(i) == SubSeq(v, 1, i)
           T == {i \in 0..n : LegalOrder(u \o start(i))}
<1>1. u \in Seq(Txs)
  BY ChainTxsType
<1>2. v \in Seq(Txs) /\ n \in Nat /\ DOMAIN v = 1..n
  BY LenNat DEF Block
<1>3. \A i \in DOMAIN v : LegalTx(u \o start(i - 1), v[i], Epoch(b.slot))
  BY DEF LegalBlock
<1>10. LegalOrder(u)
  OBVIOUS
<1> HIDE DEF u, v
<1>4. start(0) = <<>> /\ start(n) = v
  BY <1>2, PrefixStep
<1>5. \A i \in 0..n : start(i) \in Seq(Txs)
  BY <1>2, PrefixStep
<1>6. \A i \in 1..n : start(i) = Append(start(i - 1), v[i])
  BY <1>2, PrefixStep
<1> HIDE DEF n, start
<1>7. 0 \in T
  <2>1. u \o <<>> = u /\ 0 \in 0..n
    BY <1>1, <1>2
  <2> QED BY <1>4, <1>10, <2>1
<1>8. ASSUME NEW i \in 1..n, i - 1 \in T PROVE i \in T
  <2> DEFINE p == start(i - 1)
             t == v[i]
             w == u \o p
  <2>1. i - 1 \in 0..n /\ i \in 0..n
    BY <1>2
  <2>2. p \in Seq(Txs) /\ t \in Txs
    BY <1>2, <1>5, <2>1
  <2>3. LegalTx(w, t, Epoch(b.slot))
    BY <1>2, <1>3
  <2>4. LegalOrder(w)
    BY <1>8
  <2>9. start(i) = Append(p, t)
    BY <1>6
  <2> HIDE DEF p, t
  <2>5. w \in Seq(Txs) /\ u \o start(i) = Append(w, t)
    BY <1>1, <2>2, <2>9, ConcatAppend
  <2> HIDE DEF w
  <2>6. ToSet(Inputs[t]) \subseteq ToSet(Body[t].ins) \cup ToSet(Body[t].coll)
    BY <2>2 DEF Inputs
  <2>7. t \notin ToSet(w) /\ ToSet(Inputs[t]) \subseteq ToSet(Unspent(w))
    BY <2>3, <2>6 DEF LegalTx
  <2>8. LegalOrder(Append(w, t))
    BY <2>2, <2>4, <2>5, <2>7, LegalOrderAppend
  <2> QED BY <2>1, <2>5, <2>8
<1> HIDE DEF T
<1>9. \A i \in 0..n : i \in T
  BY <1>2, <1>7, <1>8, CountUp
<1> QED BY <1>2, <1>4, <1>9 DEF T, u, v

-----------------------------------------------------------------------------
(* Amounts *)

\* What is unspent is worth what was made less what was spent.
LEMMA UnspentWorth ==
  ASSUME NEW txs \in Seq(Txs), Sound(txs), NEW val \in [Refs -> Int]
  PROVE  Worth(Unspent(txs), val) = Worth(AllOutputs(txs), val) - Worth(AllInputs(txs), val)
<1> DEFINE made == AllOutputs(txs)
           spent == AllInputs(txs)
           kept == ToSet(made) \ ToSet(spent)
           all == Within(Refs, val, ToSet(made))
           gone == Within(Refs, val, ToSet(spent))
           left == Within(Refs, val, kept)
<1>1. /\ made \in Seq(Refs) /\ spent \in Seq(Refs) /\ Once(made) /\ Once(spent)
      /\ ToSet(spent) \subseteq ToSet(made)
  BY ListType DEF Sound
<1>2. Unspent(txs) = Sift(made, kept)
  BY DEF Unspent
<1> HIDE DEF made, spent
<1>3. IsTogether(Refs, all, left, gone)
  <2>1. all \in [Refs -> Int] /\ gone \in [Refs -> Int] /\ left \in [Refs -> Int]
    BY DEF Within
  <2>2. ASSUME NEW x \in Refs PROVE all[x] = left[x] + gone[x]
    <3>1. /\ all[x] = IF x \in ToSet(made) THEN val[x] ELSE 0
          /\ gone[x] = IF x \in ToSet(spent) THEN val[x] ELSE 0
          /\ left[x] = IF x \in kept THEN val[x] ELSE 0
          /\ val[x] \in Int
      BY DEF Within
    <3> HIDE DEF all, gone, left
    <3> QED BY <1>1, <3>1
  <2> HIDE DEF all, gone, left
  <2> QED BY <2>1, <2>2 DEF IsTogether
<1>4. all \in [Refs -> Int] /\ left \in [Refs -> Int]
  BY <1>3 DEF IsTogether
<1>5. Worth(made, gone) = Worth(spent, val)
  BY <1>1, WorthExchange
<1>6. Worth(Unspent(txs), val) = Worth(made, left)
  <2> HIDE DEF kept
  <2>1. Worth(Sift(made, kept), val) = Worth(made, Within(Refs, val, kept))
    BY <1>1, WorthSift, ZenonT(30)
  <2> QED BY <1>2, <2>1
<1>7. Worth(made, all) = Worth(made, val)
  <2>1. \A i \in 1..Len(made) : made[i] \in Refs /\ made[i] \in ToSet(made)
    BY <1>1, LenNat DEF ToSet
  <2>2. \A i \in 1..Len(made) : all[made[i]] = val[made[i]]
    BY <2>1 DEF Within
  <2> HIDE DEF all
  <2>3. ASSUME NEW s \in Seq(Refs), \A i \in 1..Len(s) : all[s[i]] = val[s[i]]
        PROVE  Worth(s, all) = Worth(s, val)
    BY <1>4, <2>3, WorthAgrees
  <2> QED BY <1>1, <2>2, <2>3
<1> HIDE DEF all, gone, left
<1>8. Worth(made, all) = Worth(made, left) + Worth(made, gone)
  BY <1>1, <1>3, WorthSplits
<1>9. Worth(made, left) \in Int /\ Worth(spent, val) \in Int
  BY <1>1, <1>4, WorthAppend
<1> QED BY <1>5, <1>6, <1>7, <1>8, <1>9 DEF made, spent

\* What an output is worth to an address, a credential, an address's units.
AdaValue(a) == [r \in Refs |-> IF OutputAt[r].addr = a THEN OutputAt[r].ada ELSE 0]

\* What it adds to the stake of a credential.
BackedValue(k) ==
  [r \in Refs |-> IF CredOf[OutputAt[r].addr] = k THEN OutputAt[r].ada ELSE 0]

\* What it adds to the units of an asset at an address.
UnitValue(a, x) ==
  [r \in Refs |-> IF OutputAt[r].addr = a THEN OutputAt[r].assets[x] ELSE 0]

\* The amounts a list of outputs holds are what it is worth in those terms.
LEMMA AmountWorth ==
  /\ \A a \in Addrs : AdaValue(a) \in [Refs -> Nat]
  /\ \A k \in Creds : BackedValue(k) \in [Refs -> Nat]
  /\ \A a \in Addrs, x \in Assets : UnitValue(a, x) \in [Refs -> Nat]
  /\ \A refs \in Seq(Refs) :
       /\ \A a \in Addrs : AdaAt(refs, a) = Worth(refs, AdaValue(a))
       /\ \A k \in Creds : AdaOf(refs, k) = Worth(refs, BackedValue(k))
       /\ \A a \in Addrs, x \in Assets : UnitsAt(refs, a, x) = Worth(refs, UnitValue(a, x))
<1>1. \A r \in Refs : OutputAt[r] \in Output
  BY OutputAtType
<1>2. \A a \in Addrs : AdaValue(a) \in [Refs -> Nat]
  BY <1>1 DEF AdaValue, Output
<1>3. \A k \in Creds : BackedValue(k) \in [Refs -> Nat]
  BY <1>1 DEF BackedValue, Output
<1>4. \A a \in Addrs, x \in Assets : UnitValue(a, x) \in [Refs -> Nat]
  BY <1>1 DEF UnitValue, Output
<1>5. ASSUME NEW refs \in Seq(Refs)
      PROVE  /\ \A a \in Addrs : AdaAt(refs, a) = Worth(refs, AdaValue(a))
             /\ \A k \in Creds : AdaOf(refs, k) = Worth(refs, BackedValue(k))
             /\ \A a \in Addrs, x \in Assets :
                  UnitsAt(refs, a, x) = Worth(refs, UnitValue(a, x))
  <2>1. \A i \in DOMAIN refs : refs[i] \in Refs
    BY ElementIn
  <2>2. ASSUME NEW a \in Addrs PROVE AdaAt(refs, a) = Worth(refs, AdaValue(a))
    <3>1. [i \in DOMAIN refs |-> AdaValue(a)[refs[i]]]
            = [i \in DOMAIN refs |->
                 IF OutputAt[refs[i]].addr = a THEN OutputAt[refs[i]].ada ELSE 0]
      BY <2>1 DEF AdaValue
    <3> QED BY <3>1 DEF AdaAt, Worth
  <2>3. ASSUME NEW k \in Creds PROVE AdaOf(refs, k) = Worth(refs, BackedValue(k))
    <3>1. [i \in DOMAIN refs |-> BackedValue(k)[refs[i]]]
            = [i \in DOMAIN refs |->
                 IF CredOf[OutputAt[refs[i]].addr] = k THEN OutputAt[refs[i]].ada ELSE 0]
      BY <2>1 DEF BackedValue
    <3> QED BY <3>1 DEF AdaOf, Worth
  <2>4. ASSUME NEW a \in Addrs, NEW x \in Assets
        PROVE  UnitsAt(refs, a, x) = Worth(refs, UnitValue(a, x))
    <3>1. [i \in DOMAIN refs |-> UnitValue(a, x)[refs[i]]]
            = [i \in DOMAIN refs |->
                 IF OutputAt[refs[i]].addr = a THEN OutputAt[refs[i]].assets[x] ELSE 0]
      BY <2>1 DEF UnitValue
    <3> QED BY <3>1 DEF UnitsAt, Worth
  <2> QED BY <2>2, <2>3, <2>4
<1> QED BY <1>2, <1>3, <1>4, <1>5

\* What db-sync's scans hold is what the unspent outputs are worth.
LEMMA ScanWorth ==
  ASSUME NEW c \in Seq(Block)
  PROVE  LET there == Unspent(TxsOf(c))
         IN  /\ \A a \in Addrs : DbBalances(c)[a] = Worth(there, AdaValue(a))
             /\ \A k \in Creds : DbStakes(c)[k] = Worth(there, BackedValue(k))
             /\ \A a \in Addrs, x \in Assets :
                  DbUnits(c)[a][x] = Worth(there, UnitValue(a, x))
<1> DEFINE there == DbUnspent(c)
<1>1. there \in Seq(Refs) /\ there = Unspent(TxsOf(c))
  BY ChainTxsType DEF DbUnspent
<1>2. /\ \A a \in Addrs : DbBalances(c)[a] = AdaAt(there, a)
      /\ \A k \in Creds : DbStakes(c)[k] = AdaOf(there, k)
      /\ \A a \in Addrs, x \in Assets : DbUnits(c)[a][x] = UnitsAt(there, a, x)
  BY DEF DbBalances, DbStakes, DbUnits
<1> HIDE DEF there
<1>3. /\ \A a \in Addrs : AdaAt(there, a) = Worth(there, AdaValue(a))
      /\ \A k \in Creds : AdaOf(there, k) = Worth(there, BackedValue(k))
      /\ \A a \in Addrs, x \in Assets : UnitsAt(there, a, x) = Worth(there, UnitValue(a, x))
  BY <1>1, AmountWorth
<1> QED BY <1>1, <1>2, <1>3

\* kept is real, or no less when something was lost.
Covers(exact, kept, real) == kept >= real /\ (exact => kept = real)

\* After a block what is unspent is worth what it was before, more what the
\* block produced, less what it consumed.  An amount that covered it before,
\* credited with the former and debited with what is known of the latter,
\* covers it after.
LEMMA BlockWorth ==
  ASSUME NEW u \in Seq(Txs), NEW v \in Seq(Txs), LegalOrder(u), LegalOrder(u \o v),
         NEW val \in [Refs -> Nat], NEW lost,
         NEW exact \in BOOLEAN, exact => lost = {},
         NEW kept \in Int, Covers(exact, kept, Worth(Unspent(u), val))
  PROVE  LET inputs == AllInputs(v)
             credit == Worth(AllOutputs(v), val)
             debit == Worth(Sift(inputs, ToSet(inputs) \ lost), val)
             after == Worth(Unspent(u \o v), val)
         IN  /\ credit \in Nat /\ debit \in Nat /\ after \in Nat
             /\ Covers(exact, kept + credit - debit, after)
<1> DEFINE inputs == AllInputs(v)
           outputs == AllOutputs(v)
           known == ToSet(inputs) \ lost
           made == AllOutputs(u)
           spent == AllInputs(u)
<1>0. u \o v \in Seq(Txs) /\ val \in [Refs -> Int]
  OBVIOUS
<1>1. /\ inputs \in Seq(Refs) /\ outputs \in Seq(Refs) /\ made \in Seq(Refs)
      /\ spent \in Seq(Refs) /\ Unspent(u) \in Seq(Refs) /\ Unspent(u \o v) \in Seq(Refs)
  BY <1>0, ListType
<1>2. AllInputs(u \o v) = spent \o inputs /\ AllOutputs(u \o v) = made \o outputs
  BY ListConcat
<1>3. Sound(u) /\ Sound(u \o v)
  BY <1>0, LegalIsSound
<1>4. Worth(Unspent(u), val) = Worth(made, val) - Worth(spent, val)
  BY <1>0, <1>3, UnspentWorth
<1>5. Worth(Unspent(u \o v), val) = Worth(made \o outputs, val) - Worth(spent \o inputs, val)
  BY <1>0, <1>2, <1>3, UnspentWorth
<1>6. /\ exact => \A i \in 1..Len(inputs) : inputs[i] \in known
  BY <1>1, LenNat DEF ToSet
<1> HIDE DEF inputs, outputs, known, made, spent
<1>7. Worth(made \o outputs, val) = Worth(made, val) + Worth(outputs, val)
  BY <1>0, <1>1, WorthConcat
<1>8. Worth(spent \o inputs, val) = Worth(spent, val) + Worth(inputs, val)
  BY <1>0, <1>1, WorthConcat
<1>9. /\ Worth(made, val) \in Nat /\ Worth(spent, val) \in Nat
      /\ Worth(inputs, val) \in Nat /\ Worth(outputs, val) \in Nat
      /\ Worth(Unspent(u), val) \in Nat /\ Worth(Unspent(u \o v), val) \in Nat
  BY <1>1, WorthNat
<1> DEFINE debit == Worth(Sift(inputs, known), val)
<1>10. debit \in Nat /\ debit <= Worth(inputs, val)
  BY <1>1, SiftLess
<1>11. exact => debit = Worth(inputs, val)
  <2>1. ASSUME exact PROVE Sift(inputs, known) = inputs
    BY <1>1, <1>6, <2>1, SiftAll
  <2> QED BY <2>1
<1>12. debit = Worth(Sift(AllInputs(v), ToSet(AllInputs(v)) \ lost), val)
  BY DEF inputs, known
<1> HIDE DEF debit
<1>13. Covers(exact, kept + Worth(outputs, val) - debit, Worth(Unspent(u \o v), val))
  BY <1>4, <1>5, <1>7, <1>8, <1>9, <1>10, <1>11 DEF Covers
<1> QED BY <1>9, <1>10, <1>12, <1>13 DEF outputs

-----------------------------------------------------------------------------
(* Rewards *)

\* A later slot is not in an earlier epoch.
LEMMA EpochMonotone ==
  ASSUME NEW m \in Nat, NEW n \in Nat, m <= n
  PROVE  Epoch(m) <= Epoch(n)
<1>1. EpochLength \in Nat /\ EpochLength > 0
  BY EpochAssumption
<1> DEFINE p == m \div EpochLength
           q == n \div EpochLength
<1>2. p \in Nat /\ q \in Nat
  BY <1>1
<1>3. EpochLength * p <= m /\ n < EpochLength * (q + 1)
  BY <1>1
<1> HIDE DEF p, q
<1>4. EpochLength * p < EpochLength * (q + 1)
  <2>1. EpochLength * p \in Nat /\ EpochLength * (q + 1) \in Nat
    BY <1>1, <1>2
  <2> QED BY <1>3, <2>1
<1>5. p < q + 1
  BY <1>1, <1>2, <1>4
<1>6. p <= q
  BY <1>2, <1>5
<1> QED BY <1>6 DEF Epoch, p, q

\* What was earned by an epoch is what was earned by the one before, and in it.
LEMMA EarnedStep ==
  ASSUME NEW k \in Creds, NEW e \in Nat
  PROVE  /\ EarnedBy(k, e) \in Nat /\ EarnedIn(k, e + 1) \in Nat
         /\ EarnedBy(k, e + 1) = EarnedBy(k, e) + EarnedIn(k, e + 1)
<1> DEFINE f == [i \in 1..e |-> EarnedIn(k, i)]
           g == [i \in 1..(e + 1) |-> EarnedIn(k, i)]
           x == EarnedIn(k, e + 1)
<1>1. \A i \in Nat : EarnedIn(k, i) \in Nat
  BY RewardType
<1>2. x \in Nat /\ \A i \in 1..(e + 1) : EarnedIn(k, i) \in Nat
  BY <1>1
<1>3. f \in Seq(Nat) /\ f \in Seq(Int) /\ Len(f) = e
  BY <1>1
<1>4. /\ g \in [1..(e + 1) -> Nat]
      /\ \A i \in 1..(e + 1) : g[i] = IF i = e + 1 THEN x ELSE f[i]
  BY <1>2
<1>5. /\ Append(f, x) \in [1..(e + 1) -> Nat]
      /\ \A i \in 1..(e + 1) : Append(f, x)[i] = IF i = e + 1 THEN x ELSE f[i]
  <2>1. /\ Append(f, x) \in Seq(Nat) /\ Len(Append(f, x)) = e + 1
        /\ Append(f, x)[e + 1] = x /\ \A i \in 1..e : Append(f, x)[i] = f[i]
        /\ DOMAIN Append(f, x) = 1..(e + 1)
    <3> HIDE DEF f, x
    <3> QED BY <1>2, <1>3, AppendIs
  <2>2. \A i \in 1..e : Append(f, x)[i] = f[i] /\ i # e + 1
    BY <2>1
  <2>3. \A i \in 1..(e + 1) : i \in 1..e \/ i = e + 1
    OBVIOUS
  <2> HIDE DEF f, x
  <2>4. Append(f, x) \in [1..(e + 1) -> Nat]
    <3> DEFINE t == Append(f, x)
    <3>1. t \in Seq(Nat) /\ Len(t) = e + 1
      BY <2>1
    <3> HIDE DEF t
    <3>2. t \in [1..(e + 1) -> Nat]
      BY <3>1
    <3> QED BY <3>2 DEF t
  <2> QED BY <2>1, <2>2, <2>3, <2>4
<1> HIDE DEF f, g, x
<1>6. g = Append(f, x)
  <2> DEFINE D == 1..(e + 1)
  <2>1. /\ g \in [D -> Nat] /\ Append(f, x) \in [D -> Nat]
        /\ \A i \in D : g[i] = Append(f, x)[i]
    BY <1>4, <1>5
  <2> HIDE DEF D
  <2> QED BY <2>1
<1>7. SumSeq(Append(f, x)) = SumSeq(f) + x
  <2>1. x \in Int
    BY <1>2
  <2> QED BY <1>3, <2>1, SumAppend
<1>8. SumSeq(f) \in Nat
  BY <1>3, NatIsClosed, SumIn
<1>9. EarnedBy(k, e) = SumSeq(f) /\ EarnedBy(k, e + 1) = SumSeq(g)
  BY DEF EarnedBy, f, g
<1> QED BY <1>2, <1>6, <1>7, <1>8, <1>9 DEF x

-----------------------------------------------------------------------------
(* Delegation runs *)

\* A delegation certificate in the history of a credential.
Event == [target : Targets \cup {Nobody}, slot : Nat]

\* One more event: a new run, or the old one when it names the same target.
LEMMA RunOfAppend ==
  ASSUME NEW ev \in Seq(Event), NEW e \in Event
  PROVE  RunOf(Append(ev, e)) =
           IF e.target = Nobody THEN NoRun
           ELSE [target |-> e.target,
                 since_slot |-> IF RunOf(ev).target = e.target THEN RunOf(ev).since_slot
                                ELSE e.slot]
<1> DEFINE r == Append(ev, e)
           n == Len(ev)
           old == {i \in DOMAIN ev : \A j \in i..Len(ev) : ev[j].target = Last(ev).target}
           new == {i \in DOMAIN r : \A j \in i..Len(r) : r[j].target = Last(r).target}
<1>1. /\ n \in Nat /\ DOMAIN ev = 1..n /\ r \in Seq(Event) /\ Len(r) = n + 1
      /\ DOMAIN r = 1..(n + 1) /\ r[n + 1] = e /\ \A i \in 1..n : r[i] = ev[i]
  BY LenNat, AppendIs
<1>2. Last(r) = e /\ r # <<>>
  BY <1>1 DEF Last
<1>3. RunOf(r) = IF e.target = Nobody THEN NoRun
                 ELSE [target |-> e.target, since_slot |-> r[Min(new)].slot]
  BY <1>2 DEF RunOf
<1>4. RunOf(ev) = IF ev = <<>> \/ Last(ev).target = Nobody THEN NoRun
                  ELSE [target |-> Last(ev).target, since_slot |-> ev[Min(old)].slot]
  BY DEF RunOf
<1>5. new = {i \in 1..(n + 1) : \A j \in i..(n + 1) : r[j].target = e.target}
  BY <1>1, <1>2
<1>6. old = {i \in 1..n : \A j \in i..n : ev[j].target = Last(ev).target}
  BY <1>1
<1>7. ev = <<>> <=> n = 0
  BY <1>1
<1>8. Last(ev) = ev[n]
  BY DEF Last
<1> HIDE DEF r, n, new, old
<1>9. n + 1 \in new
  <2>1. \A j \in (n + 1)..(n + 1) : j = n + 1
    BY <1>1
  <2>2. n + 1 \in 1..(n + 1)
    BY <1>1
  <2> QED BY <1>1, <1>5, <2>1, <2>2
<1>10. new \subseteq Nat /\ new # {}
  BY <1>5, <1>9
<1>11. Min(new) \in new /\ \A y \in new : Min(new) <= y
  BY <1>10, MinIndex
<1>12. CASE e.target = Nobody
  BY <1>3, <1>12 DEF r
<1>13. CASE e.target # Nobody /\ n # 0 /\ Last(ev).target = e.target
  <2>1. n \in old
    <3>1. \A j \in n..n : j = n
      BY <1>1
    <3>2. n \in 1..n
      BY <1>1, <1>13
    <3> QED BY <1>6, <1>8, <3>1, <3>2
  <2>2. old \subseteq Nat /\ old # {}
    <3>1. old \subseteq 1..n
      BY <1>6
    <3>2. 1..n \subseteq Nat
      BY <1>1
    <3> QED BY <2>1, <3>1, <3>2
  <2>3. Min(old) \in old /\ \A y \in old : Min(old) <= y
    BY <2>2, MinIndex
  <2>4. \A i \in 1..n : i \in new <=> i \in old
    <3> SUFFICES ASSUME NEW i \in 1..n PROVE i \in new <=> i \in old
      OBVIOUS
    <3>1. i \in 1..(n + 1) /\ (\A j \in i..(n + 1) : j \in i..n \/ j = n + 1)
          /\ \A j \in i..n : j \in i..(n + 1) /\ j \in 1..n
      BY <1>1
    <3>2. (\A j \in i..(n + 1) : r[j].target = e.target)
            <=> \A j \in i..n : r[j].target = e.target
      BY <1>1, <3>1
    <3>3. (\A j \in i..n : r[j].target = e.target)
            <=> \A j \in i..n : ev[j].target = Last(ev).target
      BY <1>1, <1>13, <3>1
    <3> QED BY <1>5, <1>6, <3>1, <3>2, <3>3
  <2>5. n \in new
    BY <1>1, <1>6, <2>1, <2>4
  <2>6. Min(new) = Min(old) /\ Min(new) \in 1..n
    <3>1. Min(new) <= n /\ Min(new) \in 1..(n + 1)
      BY <1>5, <1>11, <2>5
    <3>2. Min(new) \in 1..n
      BY <1>1, <3>1
    <3>3. Min(new) \in old
      BY <1>11, <2>4, <3>2
    <3>4. Min(old) \in 1..n
      BY <1>6, <2>3
    <3>5. Min(old) \in new
      BY <2>3, <2>4, <3>4
    <3>6. Min(new) <= Min(old) /\ Min(old) <= Min(new)
      BY <1>11, <2>3, <3>3, <3>5
    <3> QED BY <3>2, <3>4, <3>6
  <2>7. r[Min(new)] = ev[Min(old)]
    BY <1>1, <2>6
  <2>8. RunOf(ev) = [target |-> e.target, since_slot |-> ev[Min(old)].slot]
    BY <1>4, <1>7, <1>13
  <2> QED BY <1>3, <1>13, <2>7, <2>8 DEF r
<1>14. CASE e.target # Nobody /\ ~(n # 0 /\ Last(ev).target = e.target)
  <2>1. RunOf(ev).target # e.target
    BY <1>4, <1>7, <1>14 DEF NoRun
  <2>2. \A i \in new : i = n + 1
    <3> SUFFICES ASSUME NEW i \in new, i # n + 1 PROVE FALSE
      OBVIOUS
    <3>1. i \in 1..n /\ n # 0 /\ n \in i..(n + 1) /\ n \in 1..n
      BY <1>1, <1>5
    <3>2. r[n].target = e.target
      BY <1>5, <3>1
    <3> QED BY <1>1, <1>8, <1>14, <3>1, <3>2
  <2>3. r[Min(new)] = e
    BY <1>1, <1>11, <2>2
  <2> QED BY <1>3, <1>14, <2>1, <2>3 DEF r
<1> QED BY <1>12, <1>13, <1>14

\* The events the changes of one block are for a credential.
Of(k) == {e \in Change : e.cred = k}

\* A change, at the slot of its block.
AsEvent(slot) == [e \in Change |-> [target |-> e.target, slot |-> slot]]

\* The events of one credential in the changes of a block.
OwnEvents(changes, k, slot) == Mapped(Sift(changes, Of(k)), AsEvent(slot))

\* One more change is one more event of its own credential.
LEMMA OwnEventsAppend ==
  ASSUME NEW k, NEW slot \in Nat
  PROVE  /\ OwnEvents(<<>>, k, slot) = <<>>
         /\ \A s \in Seq(Change) : OwnEvents(s, k, slot) \in Seq(Event)
         /\ \A s \in Seq(Change), x \in Change :
              OwnEvents(Append(s, x), k, slot) =
                IF x.cred = k
                THEN Append(OwnEvents(s, k, slot), [target |-> x.target, slot |-> slot])
                ELSE OwnEvents(s, k, slot)
<1> DEFINE f == AsEvent(slot)
           keep == Of(k)
<1>1. f \in [Change -> Event] /\ \A x \in Change : f[x] = [target |-> x.target, slot |-> slot]
  BY DEF AsEvent, Event, Change
<1>2. \A x \in Change : x \in keep <=> x.cred = k
  BY DEF Of
<1> HIDE DEF f, keep
<1>3. \A s : OwnEvents(s, k, slot) = Mapped(Sift(s, keep), f)
  BY DEF OwnEvents, f, keep
<1>4. ASSUME NEW s \in Seq(Change) PROVE Sift(s, keep) \in Seq(Change)
  <2>1. Sift(s, keep) \in Seq(Change \cap keep)
    BY SiftIn
  <2> QED BY <2>1
<1>5. OwnEvents(<<>>, k, slot) = <<>>
  BY <1>1, <1>3, SiftEmpty, MapType
<1>6. ASSUME NEW s \in Seq(Change) PROVE OwnEvents(s, k, slot) \in Seq(Event)
  <2>1. Mapped(Sift(s, keep), f) \in Seq(Event)
    BY <1>1, <1>4, MapType
  <2> QED BY <1>3, <2>1
<1>7. ASSUME NEW s \in Seq(Change), NEW x \in Change
      PROVE  OwnEvents(Append(s, x), k, slot) =
               IF x.cred = k
               THEN Append(OwnEvents(s, k, slot), [target |-> x.target, slot |-> slot])
               ELSE OwnEvents(s, k, slot)
  <2>1. Sift(Append(s, x), keep) = IF x \in keep THEN Append(Sift(s, keep), x)
                                   ELSE Sift(s, keep)
    BY SiftAppend
  <2>2. Mapped(Append(Sift(s, keep), x), f) = Append(Mapped(Sift(s, keep), f), f[x])
    <3> DEFINE own == Sift(s, keep)
    <3>1. own \in Seq(Change) /\ f \in [Change -> Event]
      BY <1>1, <1>4
    <3> HIDE DEF own
    <3>2. Mapped(Append(own, x), f) = Append(Mapped(own, f), f[x])
      BY <3>1, MapAppend
    <3> QED BY <3>2 DEF own
  <2>3. OwnEvents(Append(s, x), k, slot) = Mapped(Sift(Append(s, x), keep), f)
    BY <1>3
  <2>4. CASE x \in keep
    BY <1>1, <1>2, <1>3, <2>1, <2>2, <2>3, <2>4, Zenon
  <2>5. CASE x \notin keep
    BY <1>2, <1>3, <2>1, <2>3, <2>5, Zenon
  <2> QED BY <2>4, <2>5
<1> QED BY <1>5, <1>6, <1>7

\* The events of a longer chain.
LEMMA ChainEvents ==
  ASSUME NEW r \in Roles, NEW k
  PROVE  /\ \A c \in Seq(Block) : DelegationEvents(c, r, k) \in Seq(Event)
         /\ \A c \in Seq(Block), b \in Block :
              DelegationEvents(Append(c, b), r, k) =
                DelegationEvents(c, r, k) \o OwnEvents(Changes(b.txs, r), k, b.slot)
<1> DEFINE f == [b \in Block |-> OwnEvents(Changes(b.txs, r), k, b.slot)]
<1>1. ASSUME NEW b \in Block
      PROVE  Changes(b.txs, r) \in Seq(Change) /\ b.slot \in Nat
  <2>1. b.txs \in Seq(Txs) /\ b.slot \in Nat
    BY DEF Block
  <2> QED BY <2>1, ListType
<1>2. f \in [Block -> Seq(Event)]
  <2>1. \A b \in Block : OwnEvents(Changes(b.txs, r), k, b.slot) \in Seq(Event)
    BY <1>1, OwnEventsAppend
  <2> QED BY <2>1
<1>3. ASSUME NEW c \in Seq(Block) PROVE DelegationEvents(c, r, k) = FlatMap(c, f)
  <2> DEFINE of(i) == LET changes == Changes(c[i].txs, r)
                          own == Sift(changes, {e \in ToSet(changes) : e.cred = k})
                      IN  [j \in DOMAIN own |->
                             [target |-> own[j].target, slot |-> c[i].slot]]
  <2>1. ASSUME NEW i \in DOMAIN c PROVE of(i) = f[c[i]]
    <3> DEFINE changes == Changes(c[i].txs, r)
               keep == {e \in ToSet(changes) : e.cred = k}
               own == Sift(changes, keep)
               slot == c[i].slot
    <3>1. c[i] \in Block
      BY ElementIn
    <3>2. changes \in Seq(Change) /\ slot \in Nat
      BY <1>1, <3>1
    <3>3. f[c[i]] = OwnEvents(changes, k, slot)
      BY <3>1
    <3>4. of(i) = [j \in DOMAIN own |-> [target |-> own[j].target, slot |-> slot]]
      OBVIOUS
    <3> HIDE DEF changes, of, slot, f
    <3>5. own = Sift(changes, Of(k))
      <4>1. \A j \in 1..Len(changes) : changes[j] \in keep <=> changes[j] \in Of(k)
        BY <3>2, LenNat DEF ToSet, Of
      <4> HIDE DEF keep
      <4> QED BY <3>2, <4>1, SiftAgrees
    <3>6. own \in Seq(Change)
      <4>1. own \in Seq(Change \cap keep)
        BY <3>2, SiftIn
      <4> HIDE DEF own
      <4> QED BY <4>1
    <3>7. OwnEvents(changes, k, slot) = Mapped(own, AsEvent(slot))
      BY <3>5 DEF OwnEvents
    <3> HIDE DEF own
    <3>8. \A j \in DOMAIN own :
             AsEvent(slot)[own[j]] = [target |-> own[j].target, slot |-> slot]
      BY <3>6, ElementIn DEF AsEvent
    <3>9. Mapped(own, AsEvent(slot))
            = [j \in DOMAIN own |-> [target |-> own[j].target, slot |-> slot]]
      BY <3>8 DEF Mapped
    <3> QED BY <3>3, <3>4, <3>7, <3>9
  <2> HIDE DEF of, f
  <2>2. [i \in DOMAIN c |-> of(i)] = [i \in DOMAIN c |-> f[c[i]]]
    BY <2>1
  <2>3. DelegationEvents(c, r, k) = FlattenSeq([i \in DOMAIN c |-> of(i)])
    BY DEF DelegationEvents, of
  <2> QED BY <2>2, <2>3 DEF FlatMap
<1>4. \A b \in Block : f[b] = OwnEvents(Changes(b.txs, r), k, b.slot)
  OBVIOUS
<1> HIDE DEF f
<1>5. ASSUME NEW c \in Seq(Block) PROVE DelegationEvents(c, r, k) \in Seq(Event)
  <2>1. FlatMap(c, f) \in Seq(Event)
    BY <1>2, FlatMapAppend, ZenonT(30)
  <2> QED BY <1>3, <2>1
<1>6. ASSUME NEW c \in Seq(Block), NEW b \in Block
      PROVE  DelegationEvents(Append(c, b), r, k) =
               DelegationEvents(c, r, k) \o OwnEvents(Changes(b.txs, r), k, b.slot)
  <2>1. \A s \in Seq(Block), x \in Block : FlatMap(Append(s, x), f) = FlatMap(s, f) \o f[x]
    BY <1>2, FlatMapAppend, ZenonT(40)
  <2>2. FlatMap(Append(c, b), f) = FlatMap(c, f) \o f[b]
    BY <2>1
  <2>3. Append(c, b) \in Seq(Block)
    OBVIOUS
  <2> QED BY <1>3, <1>4, <2>2, <2>3
<1> QED BY <1>5, <1>6

-----------------------------------------------------------------------------
(* Pools *)

\* The last retirement of two lists of certificates.
LEMMA LastRetirementConcat ==
  ASSUME NEW u \in Seq(PoolCert), NEW v \in Seq(PoolCert), NEW p
  PROVE  /\ Retirements(u \o v, p) = {} <=> Retirements(u, p) = {} /\ Retirements(v, p) = {}
         /\ Retirements(v, p) # {} => LastRetirement(u \o v, p) = LastRetirement(v, p)
         /\ Retirements(v, p) = {} /\ Retirements(u, p) # {}
              => LastRetirement(u \o v, p) = LastRetirement(u, p)
<1> DEFINE m == Len(u)
           n == Len(v)
           w == u \o v
           R == Retirements(u, p)
           S == Retirements(v, p)
           T == Retirements(w, p)
<1>1. /\ m \in Nat /\ n \in Nat /\ DOMAIN u = 1..m /\ DOMAIN v = 1..n
      /\ DOMAIN w = 1..(m + n)
      /\ (\A i \in 1..m : w[i] = u[i]) /\ \A i \in 1..n : w[m + i] = v[i]
  BY LenNat
<1>2. /\ R = {i \in 1..m : u[i].pool = p /\ u[i].retiring # 0}
      /\ S = {i \in 1..n : v[i].pool = p /\ v[i].retiring # 0}
      /\ T = {i \in 1..(m + n) : w[i].pool = p /\ w[i].retiring # 0}
  BY <1>1 DEF Retirements
<1> HIDE DEF m, n, w, R, S, T
<1>3. \A i \in 1..(m + n) : i \in 1..m \/ (i - m \in 1..n /\ m + (i - m) = i)
  BY <1>1
<1>4. /\ \A i \in 1..m : i \in 1..(m + n) /\ i < m + 1
      /\ \A i \in 1..n : m + i \in 1..(m + n) /\ m + i > m
  BY <1>1
<1>5. /\ \A i \in 1..m : i \in T <=> i \in R
      /\ \A i \in 1..n : m + i \in T <=> i \in S
  BY <1>1, <1>2, <1>4
<1>6. R \subseteq 1..m /\ S \subseteq 1..n /\ T \subseteq 1..(m + n)
  BY <1>2
<1>7. R \subseteq 0..m /\ S \subseteq 0..n /\ T \subseteq 0..(m + n) /\ m + n \in Nat
  BY <1>1, <1>6
<1>8. T = {} <=> R = {} /\ S = {}
  <2>1. \A i \in T : i \in R \/ i - m \in S
    BY <1>3, <1>5, <1>6
  <2>2. (\A i \in R : i \in T) /\ \A i \in S : m + i \in T
    BY <1>5, <1>6
  <2> QED BY <2>1, <2>2
<1>9. ASSUME S # {} PROVE LastRetirement(w, p) = LastRetirement(v, p)
  <2> DEFINE s == Max(S)
  <2>1. s \in S /\ \A y \in S : s >= y
    BY <1>1, <1>7, <1>9, MaxIndex
  <2> HIDE DEF s
  <2>2. m + s \in T /\ s \in 1..n
    BY <1>5, <1>6, <2>1
  <2>3. ASSUME NEW y \in T PROVE m + s >= y
    <3>1. CASE y \in 1..m
      BY <1>1, <2>2, <3>1
    <3>2. CASE y - m \in 1..n /\ m + (y - m) = y
      <4> DEFINE z == y - m
      <4>0. z \in 1..n /\ y = m + z
        BY <3>2
      <4> HIDE DEF z
      <4>1. z \in S
        BY <1>5, <4>0
      <4> QED BY <1>1, <2>1, <2>2, <4>0, <4>1
    <3> QED BY <1>3, <1>6, <3>1, <3>2
  <2>4. Max(T) = m + s
    BY <1>7, <2>2, <2>3, MaxIs
  <2>5. w[m + s] = v[s]
    BY <1>1, <2>2
  <2> QED BY <2>4, <2>5 DEF LastRetirement, T, S, s
<1>10. ASSUME S = {}, R # {} PROVE LastRetirement(w, p) = LastRetirement(u, p)
  <2> DEFINE s == Max(R)
  <2>1. s \in R /\ \A y \in R : s >= y
    BY <1>1, <1>7, <1>10, MaxIndex
  <2> HIDE DEF s
  <2>2. s \in T /\ s \in 1..m
    BY <1>5, <1>6, <2>1
  <2>3. \A y \in T : y \in R
    BY <1>3, <1>5, <1>6, <1>10
  <2>4. Max(T) = s
    BY <1>7, <2>1, <2>2, <2>3, MaxIs
  <2> QED BY <1>1, <2>2, <2>4 DEF LastRetirement, T, R, s
<1> QED BY <1>8, <1>9, <1>10 DEF R, S, T, w

\* The transactions of a list that register (reg) or retire a pool.
Announced(txs, p, reg) ==
  {i \in DOMAIN txs : \E q \in ToSet(TxPoolCerts[txs[i]]) :
                        q.pool = p /\ (q.retiring = 0) = reg}

\* Those of two lists together.
LEMMA AnnouncedConcat ==
  ASSUME NEW u \in Seq(Txs), NEW v \in Seq(Txs), NEW p, NEW reg
  PROVE  /\ Announced(u, p, reg) \subseteq 1..Len(u)
         /\ Announced(v, p, reg) \subseteq 1..Len(v)
         /\ Announced(u \o v, p, reg) \subseteq 1..(Len(u) + Len(v))
         /\ \A i \in 1..Len(u) : i \in Announced(u \o v, p, reg) <=> i \in Announced(u, p, reg)
         /\ \A i \in 1..Len(v) :
              Len(u) + i \in Announced(u \o v, p, reg) <=> i \in Announced(v, p, reg)
         /\ \A i \in 1..(Len(u) + Len(v)) :
              i \in 1..Len(u) \/ (i - Len(u) \in 1..Len(v) /\ Len(u) + (i - Len(u)) = i)
<1> DEFINE m == Len(u)
           n == Len(v)
           w == u \o v
           Names(t) == \E q \in ToSet(TxPoolCerts[t]) : q.pool = p /\ (q.retiring = 0) = reg
<1>1. /\ m \in Nat /\ n \in Nat /\ DOMAIN u = 1..m /\ DOMAIN v = 1..n
      /\ DOMAIN w = 1..(m + n)
      /\ (\A i \in 1..m : w[i] = u[i]) /\ \A i \in 1..n : w[m + i] = v[i]
  BY LenNat
<1>2. \A s : Announced(s, p, reg) = {i \in DOMAIN s : Names(s[i])}
  BY DEF Announced
<1>3. /\ \A i \in 1..m : i \in 1..(m + n)
      /\ \A i \in 1..n : m + i \in 1..(m + n)
      /\ \A i \in 1..(m + n) : i \in 1..m \/ (i - m \in 1..n /\ m + (i - m) = i)
  BY <1>1
<1> HIDE DEF m, n, w, Names
<1>4. /\ \A i \in 1..m : i \in Announced(w, p, reg) <=> i \in Announced(u, p, reg)
      /\ \A i \in 1..n : m + i \in Announced(w, p, reg) <=> i \in Announced(v, p, reg)
  BY <1>1, <1>2, <1>3
<1>5. /\ Announced(u, p, reg) \subseteq 1..m /\ Announced(v, p, reg) \subseteq 1..n
      /\ Announced(w, p, reg) \subseteq 1..(m + n)
  BY <1>1, <1>2
<1> QED BY <1>3, <1>4, <1>5 DEF m, n, w

\* Some certificate of the list registers (reg) or retires p.
Names(certs, p, reg) == \E q \in ToSet(certs) : q.pool = p /\ (q.retiring = 0) = reg

\* The certificates of a list of transactions, gathered.
LEMMA CertsFlat ==
  /\ TxPoolCerts \in [Txs -> Seq(PoolCert)]
  /\ \A txs : PoolCertsOf(txs) = FlatMap(txs, TxPoolCerts)
  /\ \A t \in Txs : PoolCertsOf(<<t>>) = TxPoolCerts[t]
<1>1. TxPoolCerts \in [Txs -> Seq(PoolCert)]
  <2>1. \A t \in Txs : TxPoolCerts[t] \in Seq(PoolCert)
    BY TxType
  <2>2. TxPoolCerts = [t \in Txs |-> IF Body[t].valid THEN Body[t].pool_certs ELSE <<>>]
    BY DEF TxPoolCerts
  <2> QED BY <2>1, <2>2
<1>2. \A txs : PoolCertsOf(txs) = FlatMap(txs, TxPoolCerts)
  BY DEF PoolCertsOf, FlatMap
<1>3. ASSUME NEW t \in Txs PROVE PoolCertsOf(<<t>>) = TxPoolCerts[t]
  <2>1. /\ FlatMap(<<>>, TxPoolCerts) = <<>>
        /\ \A s \in Seq(Txs), x \in Txs :
             FlatMap(Append(s, x), TxPoolCerts) = FlatMap(s, TxPoolCerts) \o TxPoolCerts[x]
    BY <1>1, FlatMapAppend, ZenonT(40)
  <2>2. <<>> \in Seq(Txs) /\ Append(<<>>, t) = <<t>>
    OBVIOUS
  <2>3. FlatMap(<<t>>, TxPoolCerts) = <<>> \o TxPoolCerts[t]
    BY <2>1, <2>2
  <2>4. TxPoolCerts[t] \in Seq(PoolCert)
    BY <1>1
  <2> DEFINE certs == TxPoolCerts[t]
  <2> HIDE DEF certs
  <2>5. <<>> \o certs = certs
    BY <2>4 DEF certs
  <2> QED BY <1>2, <2>3, <2>5 DEF certs
<1> QED BY <1>1, <1>2, <1>3

\* A list names a pool when one of its transactions does.
LEMMA AnnouncedSome ==
  ASSUME NEW txs \in Seq(Txs), NEW p, NEW reg
  PROVE  Names(PoolCertsOf(txs), p, reg) <=> Announced(txs, p, reg) # {}
<1>1. ToSet(FlatMap(txs, TxPoolCerts)) = UNION {ToSet(TxPoolCerts[x]) : x \in ToSet(txs)}
  BY CertsFlat, FlatMapElements, ZenonT(40)
<1>2. ToSet(PoolCertsOf(txs)) = UNION {ToSet(TxPoolCerts[x]) : x \in ToSet(txs)}
  BY <1>1, CertsFlat
<1>3. Announced(txs, p, reg) = {i \in DOMAIN txs : Names(TxPoolCerts[txs[i]], p, reg)}
  BY DEF Announced, Names
<1>4. ToSet(txs) = {txs[i] : i \in DOMAIN txs}
  BY DEF ToSet
<1> QED BY <1>2, <1>3, <1>4 DEF Names

\* A list of certificates that retires a pool has a last retirement of it.
LEMMA NamesIs ==
  ASSUME NEW certs, NEW p
  PROVE  /\ Names(certs, p, FALSE) <=> Retirements(certs, p) # {}
         /\ Names(certs, p, TRUE)
              <=> \E i \in DOMAIN certs : certs[i].pool = p /\ certs[i].retiring = 0
<1>1. ToSet(certs) = {certs[i] : i \in DOMAIN certs}
  BY DEF ToSet
<1> QED BY <1>1 DEF Names, Retirements

\* The last retirement a list of transactions holds is that of the last of
\* them that retires the pool.
LEMMA LastAnnounced ==
  ASSUME NEW p
  PROVE  \A v \in Seq(Txs) : Announced(v, p, FALSE) # {} =>
           LastRetirement(PoolCertsOf(v), p)
             = LastRetirement(TxPoolCerts[v[Max(Announced(v, p, FALSE))]], p)
<1> DEFINE Right(v) == Announced(v, p, FALSE) # {} =>
             LastRetirement(PoolCertsOf(v), p)
               = LastRetirement(TxPoolCerts[v[Max(Announced(v, p, FALSE))]], p)
           W == {v \in Seq(Txs) : Right(v)}
<1>1. <<>> \in W
  BY DEF Announced
<1>2. ASSUME NEW v \in Seq(Txs), NEW x \in Txs, v \in W PROVE Append(v, x) \in W
  <2> DEFINE w == Append(v, x)
             A == Announced(v, p, FALSE)
             B == Announced(w, p, FALSE)
             n == Len(v)
             e == TxPoolCerts[x]
             cv == PoolCertsOf(v)
  <2>1. /\ w \in Seq(Txs) /\ n \in Nat /\ DOMAIN v = 1..n /\ DOMAIN w = 1..(n + 1)
        /\ w[n + 1] = x /\ \A i \in 1..n : w[i] = v[i]
    BY LenNat, AppendIs
  <2>2. cv \in Seq(PoolCert) /\ e \in Seq(PoolCert)
    BY ListType, TxType
  <2>3. PoolCertsOf(w) = cv \o e
    <3>1. <<x>> \in Seq(Txs) /\ w = v \o <<x>>
      OBVIOUS
    <3>2. PoolCertsOf(v \o <<x>>) = cv \o PoolCertsOf(<<x>>)
      BY <3>1, ListConcat
    <3> QED BY <3>1, <3>2, CertsFlat
  <2>4. /\ A = {i \in 1..n : Names(TxPoolCerts[v[i]], p, FALSE)}
        /\ B = {i \in 1..(n + 1) : Names(TxPoolCerts[w[i]], p, FALSE)}
    BY <2>1 DEF Announced, Names
  <2>5. A # {} <=> Retirements(cv, p) # {}
    BY AnnouncedSome, NamesIs
  <2>6. Names(e, p, FALSE) <=> Retirements(e, p) # {}
    BY NamesIs
  <2>7. Right(v)
    BY <1>2
  <2> SUFFICES ASSUME B # {}
               PROVE  LastRetirement(cv \o e, p) = LastRetirement(TxPoolCerts[w[Max(B)]], p)
    BY <2>1, <2>3
  <2> HIDE DEF w, B, n, e, cv
  <2>8. CASE Names(e, p, FALSE)
    <3>0. n + 1 \in 1..(n + 1) /\ n + 1 \in Nat
      BY <2>1
    <3>1. n + 1 \in B
      BY <2>1, <2>4, <2>8, <3>0 DEF e
    <3>4. B \subseteq 1..(n + 1)
      BY <2>4
    <3>5. B \subseteq 0..(n + 1) /\ \A y \in B : n + 1 >= y
      BY <2>1, <3>4
    <3>2. Max(B) = n + 1
      BY <3>0, <3>1, <3>5, MaxIs
    <3>3. LastRetirement(cv \o e, p) = LastRetirement(e, p)
      BY <2>2, <2>6, <2>8, LastRetirementConcat
    <3> QED BY <2>1, <3>2, <3>3 DEF e
  <2>9. CASE ~Names(e, p, FALSE)
    <3>1. B = A
      <4>1. \A i \in B : i \in A
        <5> SUFFICES ASSUME NEW i \in B PROVE i \in A
          OBVIOUS
        <5>1. i \in 1..(n + 1) /\ i # n + 1
          BY <2>1, <2>4, <2>9 DEF e
        <5>2. i \in 1..n
          BY <2>1, <5>1
        <5> QED BY <2>1, <2>4, <5>2
      <4>2. \A i \in A : i \in B
        <5> SUFFICES ASSUME NEW i \in A PROVE i \in B
          OBVIOUS
        <5>1. i \in 1..n
          BY <2>4
        <5>2. i \in 1..(n + 1)
          BY <2>1, <5>1
        <5> QED BY <2>1, <2>4, <5>1, <5>2
      <4> QED BY <4>1, <4>2
    <3> DEFINE k == Max(A)
    <3>7. A \subseteq 1..n /\ A # {}
      BY <2>4, <3>1
    <3> HIDE DEF A
    <3>2. A \subseteq 0..n /\ A # {}
      BY <2>1, <3>7
    <3>3. k \in A
      BY <2>1, <3>2, MaxIndex
    <3>4. w[k] = v[k]
      BY <2>1, <2>4, <3>3
    <3>5. LastRetirement(cv \o e, p) = LastRetirement(cv, p)
      BY <2>2, <2>5, <2>6, <2>9, <3>2, LastRetirementConcat
    <3> HIDE DEF k
    <3>6. LastRetirement(cv, p) = LastRetirement(TxPoolCerts[v[k]], p)
      BY <2>7, <3>2 DEF A, k, cv
    <3> QED BY <3>1, <3>4, <3>5, <3>6 DEF k
  <2> QED BY <2>8, <2>9
<1> HIDE DEF W
<1>3. \A v \in Seq(Txs) : v \in W
  BY <1>1, <1>2, BuiltUp
<1> QED BY <1>3 DEF W

\* db-sync knows a pool as soon as a block registers it.
LEMMA KnownIs ==
  ASSUME NEW c \in Seq(Block), NEW p
  PROVE  DbPool(c, p).known <=> \E i \in DOMAIN c : Names(PoolCertsOf(c[i].txs), p, TRUE)
<1> DEFINE txs == TxsOf(c)
<1>1. txs \in Seq(Txs) /\ \A i \in DOMAIN c : c[i].txs \in Seq(Txs)
  BY ChainTxsType
<1>2. ToSet(txs) = UNION {ToSet(c[i].txs) : i \in DOMAIN c}
  BY ChainTxs
<1>3. \A s \in Seq(Txs) : Announced(s, p, TRUE) # {}
                            <=> \E t \in ToSet(s) : Names(TxPoolCerts[t], p, TRUE)
  <2>1. \A s : Announced(s, p, TRUE) = {i \in DOMAIN s : Names(TxPoolCerts[s[i]], p, TRUE)}
    BY DEF Announced, Names
  <2>2. \A s : ToSet(s) = {s[i] : i \in DOMAIN s}
    BY DEF ToSet
  <2> QED BY <2>1, <2>2
<1>4. DbPool(c, p).known <=> Announced(txs, p, TRUE) # {}
  BY DEF DbPool, Announced
<1> HIDE DEF txs
<1>5. ASSUME NEW i \in DOMAIN c
      PROVE  Names(PoolCertsOf(c[i].txs), p, TRUE)
               <=> \E t \in ToSet(c[i].txs) : Names(TxPoolCerts[t], p, TRUE)
  BY <1>1, <1>3, AnnouncedSome
<1> QED BY <1>1, <1>2, <1>3, <1>4, <1>5

\* A pool stays known.
LEMMA KnownGrows ==
  ASSUME NEW c \in Seq(Block), NEW p, NEW n \in DOMAIN c, DbPool(SubSeq(c, 1, n), p).known
  PROVE  DbPool(c, p).known
<1>1. n \in 1..Len(c) /\ Len(c) \in Nat /\ DOMAIN c = 1..Len(c)
  BY LenNat
<1> DEFINE d == SubSeq(c, 1, n)
<1>2. d \in Seq(Block) /\ Len(d) = n /\ \A i \in 1..n : d[i] = c[i] /\ i \in 1..Len(c)
  BY <1>1
<1>3. DOMAIN d = 1..n
  BY <1>2, LenNat
<1> HIDE DEF d
<1>4. \E i \in DOMAIN d : Names(PoolCertsOf(d[i].txs), p, TRUE)
  BY <1>2, KnownIs DEF d
<1>5. \E i \in DOMAIN c : Names(PoolCertsOf(c[i].txs), p, TRUE)
  BY <1>1, <1>2, <1>3, <1>4
<1> QED BY <1>5, KnownIs

\* Where every issuer is known, an unknown pool has no block.
LEMMA UnknownMintsNothing ==
  ASSUME NEW c \in Seq(Block), IssuersKnown(c), NEW p, ~DbPool(c, p).known
  PROVE  {i \in DOMAIN c : c[i].issuer = p} = {}
BY KnownGrows DEF IssuersKnown

\* The blocks of a pool, one more at a time.
LEMMA MintedAppend ==
  ASSUME NEW c \in Seq(Block), NEW b \in Block, NEW p
  PROVE  Cardinality({i \in DOMAIN Append(c, b) : Append(c, b)[i].issuer = p})
           = Cardinality({i \in DOMAIN c : c[i].issuer = p}) + (IF b.issuer = p THEN 1 ELSE 0)
<1> DEFINE d == Append(c, b)
           n == Len(c)
           A == {i \in 1..n : c[i].issuer = p}
           B == {i \in 1..(n + 1) : d[i].issuer = p}
<1>1. /\ n \in Nat /\ DOMAIN c = 1..n /\ DOMAIN d = 1..(n + 1)
      /\ d[n + 1] = b /\ \A i \in 1..n : d[i] = c[i]
  BY LenNat, AppendIs
<1> HIDE DEF n, d
<1>2. 1..(n + 1) = (1..n) \cup {n + 1} /\ n + 1 \notin 1..n
  BY <1>1
<1>3. IsFiniteSet(1..n)
  BY <1>1, FS_Interval
<1>8. /\ {i \in DOMAIN d : d[i].issuer = p} = B
      /\ {i \in DOMAIN c : c[i].issuer = p} = A
  BY <1>1
<1> SUFFICES Cardinality(B) = Cardinality(A) + (IF b.issuer = p THEN 1 ELSE 0)
  BY <1>8 DEF d
<1>4. A \subseteq 1..n /\ IsFiniteSet(A)
  BY <1>3, FS_Subset
<1>5. Cardinality(A) \in Nat
  BY <1>4, FS_CardinalityType
<1>6. CASE b.issuer = p
  <2>1. B = A \cup {n + 1}
    BY <1>1, <1>2, <1>6
  <2>2. n + 1 \notin A
    BY <1>2
  <2> HIDE DEF A, B
  <2>3. Cardinality(A \cup {n + 1}) = Cardinality(A) + 1
    BY <1>4, <2>2, FS_AddElement
  <2> QED BY <1>6, <2>1, <2>3
<1>7. CASE b.issuer # p
  <2>1. B = A
    BY <1>1, <1>2, <1>7
  <2> HIDE DEF A, B
  <2> QED BY <1>5, <1>7, <2>1
<1> QED BY <1>6, <1>7

\* DbPool, in the terms of the lemmas.
LEMMA DbPoolIs ==
  ASSUME NEW c \in Seq(Block), NEW p
  PROVE  LET txs == TxsOf(c)
             gone == Announced(txs, p, FALSE)
             came == Announced(txs, p, TRUE)
             pending == {i \in gone : i > Max(came)}
         IN  DbPool(c, p) =
               IF came = {} THEN [known |-> FALSE, retiring |-> 0, blocks |-> 0]
               ELSE [known |-> TRUE,
                     retiring |-> IF pending = {} THEN 0
                                  ELSE LastRetirement(TxPoolCerts[txs[Max(pending)]], p),
                     blocks |-> Cardinality({i \in DOMAIN c : c[i].issuer = p})]
BY DEF DbPool, Announced

\* The pending retirement a list of transactions leaves, 0 for none.
Pending(txs, p) ==
  LET pending == {i \in Announced(txs, p, FALSE) : i > Max(Announced(txs, p, TRUE))}
  IN  IF pending = {} THEN 0 ELSE LastRetirement(TxPoolCerts[txs[Max(pending)]], p)

\* More transactions: those that register the pool clear a retirement, those
\* that retire it set one, unless they do both.
LEMMA PendingConcat ==
  ASSUME NEW u \in Seq(Txs), NEW v \in Seq(Txs), NEW p,
         Announced(v, p, TRUE) = {} \/ Announced(v, p, FALSE) = {}
  PROVE  /\ Announced(u \o v, p, TRUE) = {}
              <=> Announced(u, p, TRUE) = {} /\ Announced(v, p, TRUE) = {}
         /\ Announced(v, p, TRUE) # {} => Pending(u \o v, p) = 0
         /\ Announced(u, p, TRUE) # {} /\ Announced(v, p, TRUE) = {} =>
              Pending(u \o v, p) = IF Announced(v, p, FALSE) = {} THEN Pending(u, p)
                                   ELSE LastRetirement(PoolCertsOf(v), p)
<1> DEFINE m == Len(u)
           n == Len(v)
           w == u \o v
           UT == Announced(u, p, TRUE)
           UF == Announced(u, p, FALSE)
           VT == Announced(v, p, TRUE)
           VF == Announced(v, p, FALSE)
           WT == Announced(w, p, TRUE)
           WF == Announced(w, p, FALSE)
<1>1. /\ m \in Nat /\ n \in Nat
      /\ (\A i \in 1..m : w[i] = u[i]) /\ \A i \in 1..n : w[m + i] = v[i]
  BY LenNat
<1>2. /\ UT \subseteq 1..m /\ VT \subseteq 1..n /\ WT \subseteq 1..(m + n)
      /\ (\A i \in 1..m : i \in WT <=> i \in UT)
      /\ (\A i \in 1..n : m + i \in WT <=> i \in VT)
      /\ \A i \in 1..(m + n) : i \in 1..m \/ (i - m \in 1..n /\ m + (i - m) = i)
  BY AnnouncedConcat
<1>3. /\ UF \subseteq 1..m /\ VF \subseteq 1..n /\ WF \subseteq 1..(m + n)
      /\ (\A i \in 1..m : i \in WF <=> i \in UF)
      /\ (\A i \in 1..n : m + i \in WF <=> i \in VF)
  BY AnnouncedConcat
<1>4. VF # {} => LastRetirement(PoolCertsOf(v), p) = LastRetirement(TxPoolCerts[v[Max(VF)]], p)
  BY LastAnnounced
<1> HIDE DEF m, n, w, UT, UF, VT, VF, WT, WF
<1>5. /\ \A i \in WT : i \in UT \/ i - m \in VT
      /\ \A i \in WF : i \in UF \/ (i - m \in VF /\ m + (i - m) = i)
  BY <1>2, <1>3
<1>6. /\ UT \subseteq WT /\ UF \subseteq WF
      /\ (\A i \in VT : m + i \in WT) /\ \A i \in VF : m + i \in WF
  BY <1>2, <1>3
<1>7. WT = {} <=> UT = {} /\ VT = {}
  BY <1>5, <1>6
<1>8. m + n \in Nat /\ WT \subseteq 0..(m + n) /\ WF \subseteq 0..(m + n)
  BY <1>1, <1>2, <1>3
<1>9. ASSUME VT # {} PROVE Pending(w, p) = 0
  <2>1. PICK j \in VT : m + j \in WT
    BY <1>6, <1>9
  <2>2. VF = {} /\ WT # {}
    BY <1>9, <2>1 DEF VT, VF
  <2> DEFINE k == Max(WT)
  <2>3. k \in WT /\ \A y \in WT : k >= y
    BY <1>8, <2>2, MaxIndex
  <2> HIDE DEF k
  <2>4. j \in 1..n /\ k \in 1..(m + n) /\ k >= m + j
    BY <1>2, <2>1, <2>3
  <2>5. ASSUME NEW i \in WF PROVE ~(i > k)
    <3>1. i \in 1..m
      BY <1>3, <1>5, <2>2
    <3> QED BY <1>1, <2>4, <3>1
  <2>6. {i \in WF : i > k} = {}
    BY <2>5
  <2> QED BY <2>6 DEF Pending, WF, WT, k
<1>10. ASSUME UT # {}, VT = {}
       PROVE  Pending(w, p) = IF VF = {} THEN Pending(u, p)
                              ELSE LastRetirement(PoolCertsOf(v), p)
  <2>1. WT = UT
    BY <1>5, <1>6, <1>10
  <2> DEFINE k == Max(UT)
             P == {i \in WF : i > k}
             O == {i \in UF : i > k}
  <2>2. UT \subseteq 0..m
    BY <1>1, <1>2
  <2>3. k \in UT
    BY <1>1, <1>10, <2>2, MaxIndex
  <2>4. Pending(w, p) = IF P = {} THEN 0 ELSE LastRetirement(TxPoolCerts[w[Max(P)]], p)
    BY <2>1 DEF Pending, WF, WT
  <2>5. Pending(u, p) = IF O = {} THEN 0 ELSE LastRetirement(TxPoolCerts[u[Max(O)]], p)
    BY DEF Pending, UF, UT
  <2> HIDE DEF k
  <2>6. k \in 1..m
    BY <1>2, <2>3
  <2>7. CASE VF = {}
    <3>1. WF = UF
      BY <1>5, <1>6, <2>7
    <3>2. P = O
      BY <3>1
    <3> DEFINE l == Max(O)
    <3>3. O \subseteq 1..m
      BY <1>3
    <3> HIDE DEF P, O
    <3>4. O \subseteq 0..m
      BY <1>1, <3>3
    <3>5. O # {} => l \in 1..m
      BY <1>1, <3>3, <3>4, MaxIndex
    <3>6. O # {} => w[l] = u[l]
      BY <1>1, <3>5
    <3> QED BY <2>4, <2>5, <2>7, <3>2, <3>6 DEF l
  <2>8. CASE VF # {}
    <3> DEFINE l == Max(VF)
    <3>1. VF \subseteq 0..n
      BY <1>1, <1>3
    <3>2. l \in VF /\ \A y \in VF : l >= y
      BY <1>1, <2>8, <3>1, MaxIndex
    <3> HIDE DEF l
    <3>3. l \in 1..n
      BY <1>3, <3>2
    <3>4. m + l \in WF /\ m + l > k
      BY <1>1, <1>6, <2>6, <3>2, <3>3
    <3>5. ASSUME NEW y \in P PROVE m + l >= y
      <4>1. CASE y \in UF
        <5>1. y \in 1..m
          BY <1>3, <4>1
        <5> QED BY <1>1, <3>3, <5>1
      <4>2. CASE y - m \in VF /\ m + (y - m) = y
        <5> DEFINE z == y - m
        <5>1. z \in VF /\ m + z = y
          BY <4>2
        <5> HIDE DEF z
        <5>2. z \in 1..n /\ l >= z
          BY <1>3, <3>2, <5>1
        <5> QED BY <1>1, <3>3, <5>1, <5>2
      <4> QED BY <1>5, <4>1, <4>2
    <3>6. m + l \in P /\ P \subseteq 0..(m + n)
      BY <1>8, <3>4
    <3> HIDE DEF P
    <3>7. Max(P) = m + l
      BY <1>8, <3>5, <3>6, MaxIs
    <3>8. w[m + l] = v[l] /\ P # {}
      BY <1>1, <3>3, <3>6
    <3> QED BY <1>4, <2>4, <2>8, <3>7, <3>8 DEF l
  <2> QED BY <2>7, <2>8
<1> QED BY <1>7, <1>9, <1>10 DEF w, UT, VT, VF, WT

\* The issuers of a longer chain, and of a shorter one, are known.
LEMMA IssuersAppend ==
  ASSUME NEW c \in Seq(Block), NEW b \in Block, IssuersKnown(c), LegalBlock(c, b)
  PROVE  IssuersKnown(Append(c, b))
<1> DEFINE d == Append(c, b)
           m == Len(c)
<1>1. /\ d \in Seq(Block) /\ Len(d) = m + 1 /\ m \in Nat /\ DOMAIN d = 1..(m + 1)
      /\ d[m + 1] = b /\ (\A i \in 1..m : d[i] = c[i]) /\ DOMAIN c = 1..m
  BY LenNat, AppendIs
<1>2. /\ SubSeq(d, 1, m + 1) = d /\ SubSeq(d, 1, m) = c
      /\ \A n \in 1..m : SubSeq(d, 1, n) = SubSeq(c, 1, n)
  OBVIOUS
<1>3. DbPool(c, b.issuer).known
  BY DEF LegalBlock
<1> HIDE DEF d, m
<1>4. DbPool(d, b.issuer).known
  <2>1. CASE m = 0
    <3>1. c = <<>>
      BY <2>1 DEF m
    <3>2. DOMAIN c = {}
      BY <3>1
    <3>3. ~DbPool(c, b.issuer).known
      BY <3>2, KnownIs
    <3> QED BY <1>3, <3>3
  <2>2. CASE m # 0
    <3>1. m \in DOMAIN d
      BY <1>1, <2>2
    <3> QED BY <1>1, <1>2, <1>3, <3>1, KnownGrows
  <2> QED BY <2>1, <2>2
<1>5. ASSUME NEW n \in DOMAIN d PROVE DbPool(SubSeq(d, 1, n), d[n].issuer).known
  <2>1. CASE n = m + 1
    BY <1>1, <1>2, <1>4, <2>1
  <2>2. CASE n \in 1..m
    BY <1>1, <1>2, <2>2 DEF IssuersKnown
  <2> QED BY <1>1, <2>1, <2>2
<1> QED BY <1>5 DEF IssuersKnown, d

\* So are those of a chain up to any of its blocks.
LEMMA IssuersStart ==
  ASSUME NEW c \in Seq(Block), IssuersKnown(c), NEW n \in DOMAIN c
  PROVE  IssuersKnown(SubSeq(c, 1, n))
<1> DEFINE d == SubSeq(c, 1, n)
<1>1. n \in 1..Len(c) /\ Len(c) \in Nat /\ DOMAIN c = 1..Len(c)
  BY LenNat
<1>2. d \in Seq(Block) /\ Len(d) = n /\ \A i \in 1..n : d[i] = c[i] /\ i \in 1..Len(c)
  BY <1>1
<1>3. DOMAIN d = 1..n
  BY <1>2, LenNat
<1>4. \A i \in 1..n : SubSeq(d, 1, i) = SubSeq(c, 1, i)
  BY <1>1
<1> HIDE DEF d
<1> QED BY <1>1, <1>2, <1>3, <1>4 DEF IssuersKnown, d

-----------------------------------------------------------------------------
(* Unspent outputs *)

\* What a snapshot's cache of outputs is held against.
There(c) == ToSet(Unspent(TxsOf(c)))

\* What a transaction leaves unspent: what was, without its inputs, and its
\* outputs.
LEMMA UnspentAppend ==
  ASSUME NEW w \in Seq(Txs), NEW t \in Txs, LegalOrder(Append(w, t))
  PROVE  ToSet(Unspent(Append(w, t))) = (ToSet(Unspent(w)) \ ToSet(Inputs[t])) \cup ToSet(Outputs[t])
<1> DEFINE z == Append(w, t)
<1>1. z \in Seq(Txs) /\ z = w \o <<t>> /\ <<t>> \in Seq(Txs)
  OBVIOUS
<1>2. /\ AllInputs(z) = AllInputs(w) \o Inputs[t]
      /\ AllOutputs(z) = AllOutputs(w) \o Outputs[t]
  BY <1>1, ListConcat, ListSingle
<1>3. /\ AllInputs(w) \in Seq(Refs) /\ Inputs[t] \in Seq(Refs)
      /\ AllOutputs(w) \in Seq(Refs) /\ Outputs[t] \in Seq(Refs)
  BY ListType, TxType
<1>4. /\ ToSet(AllInputs(z)) = ToSet(AllInputs(w)) \cup ToSet(Inputs[t])
      /\ ToSet(AllOutputs(z)) = ToSet(AllOutputs(w)) \cup ToSet(Outputs[t])
  BY <1>2, <1>3, ConcatSet
<1>5. LegalOrder(w) /\ t \notin ToSet(w) /\ ToSet(Inputs[t]) \subseteq ToSet(Unspent(w))
  BY LegalOrderAppend
<1>6. ToSet(Unspent(w)) = ToSet(AllOutputs(w)) \ ToSet(AllInputs(w))
  BY UnspentSet
<1>7. ToSet(Unspent(z)) = ToSet(AllOutputs(z)) \ ToSet(AllInputs(z))
  BY <1>1, UnspentSet
<1>8. ToSet(AllInputs(w)) \subseteq ToSet(AllOutputs(w))
  BY <1>5, LegalIsSound DEF Sound
<1>9. ToSet(AllOutputs(w)) \cap ToSet(Outputs[t]) = {}
  BY <1>5, MadeBy, TxOnce
<1> HIDE DEF z
<1>10. ToSet(Unspent(z)) = (ToSet(Unspent(w)) \ ToSet(Inputs[t])) \cup ToSet(Outputs[t])
  BY <1>4, <1>5, <1>6, <1>7, <1>8, <1>9
<1> QED BY <1>10 DEF z

\* What is unspent after more transactions: what was and what they made, without
\* what they spent, which was there or is theirs.
LEMMA UnspentConcat ==
  ASSUME NEW u \in Seq(Txs), NEW v \in Seq(Txs), LegalOrder(u), LegalOrder(u \o v)
  PROVE  LET there == ToSet(Unspent(u))
             made == ToSet(AllOutputs(v))
             spent == ToSet(AllInputs(v))
         IN  /\ ToSet(Unspent(u \o v)) = (there \cup made) \ spent
             /\ spent \subseteq there \cup made
<1> DEFINE made == ToSet(AllOutputs(v))
           spent == ToSet(AllInputs(v))
           madeThen == ToSet(AllOutputs(u))
           spentThen == ToSet(AllInputs(u))
<1>1. u \o v \in Seq(Txs)
  OBVIOUS
<1>2. Sound(u) /\ Sound(u \o v)
  BY <1>1, LegalIsSound
<1>3. ToSet(Unspent(u)) = madeThen \ spentThen
  BY UnspentSet
<1>4. ToSet(Unspent(u \o v)) = ToSet(AllOutputs(u \o v)) \ ToSet(AllInputs(u \o v))
  BY <1>1, UnspentSet
<1>5. /\ AllInputs(u \o v) = AllInputs(u) \o AllInputs(v)
      /\ AllOutputs(u \o v) = AllOutputs(u) \o AllOutputs(v)
  BY ListConcat
<1>6. /\ AllInputs(u) \in Seq(Refs) /\ AllInputs(v) \in Seq(Refs)
      /\ AllOutputs(u) \in Seq(Refs) /\ AllOutputs(v) \in Seq(Refs)
  BY ListType
<1>7. /\ ToSet(AllInputs(u \o v)) = spentThen \cup spent
      /\ spentThen \cap spent = {}
  BY <1>2, <1>5, <1>6, ConcatSet DEF Sound
<1>8. /\ ToSet(AllOutputs(u \o v)) = madeThen \cup made
      /\ madeThen \cap made = {}
  BY <1>2, <1>5, <1>6, ConcatSet DEF Sound
<1>9. spentThen \subseteq madeThen /\ spentThen \cup spent \subseteq madeThen \cup made
  BY <1>2, <1>7, <1>8 DEF Sound
<1> HIDE DEF made, spent, madeThen, spentThen
<1>10. /\ ToSet(Unspent(u \o v)) = (ToSet(Unspent(u)) \cup made) \ spent
       /\ spent \subseteq ToSet(Unspent(u)) \cup made
  BY <1>3, <1>4, <1>7, <1>8, <1>9
<1> QED BY <1>10 DEF made, spent

-----------------------------------------------------------------------------
(* Tokens and their mints *)

\* How much of an asset there is in an output.
UnitsOf(x) == [o \in Output |-> o.assets[x]]
UnitsIn(x) == [r \in Refs |-> OutputAt[r].assets[x]]

\* The tokens a transaction moves without minting come from an input.
LEMMA TokensComeFrom ==
  ASSUME NEW t \in Txs, NEW x \in Assets, x \notin Minted[t],
         NEW r \in ToSet(Outputs[t]), OutputAt[r].assets[x] > 0
  PROVE  \E q \in ToSet(Inputs[t]) : OutputAt[q].assets[x] > 0
<1> DEFINE body == Body[t]
           ins == IF body.valid THEN body.ins ELSE body.coll
           outs == IF body.valid THEN body.outs ELSE body.coll_ret
<1>1. body \in TxBody
  BY TxsAssumption
<1>2. /\ body.ins \in Seq(Refs) /\ body.coll \in Seq(Refs)
      /\ body.outs \in Seq(Output) /\ body.coll_ret \in Seq(Output)
      /\ body.valid \in BOOLEAN
  BY <1>1 DEF TxBody
<1>3. ins \in Seq(Refs) /\ outs \in Seq(Output) /\ Inputs[t] = ins
  BY <1>2 DEF Inputs
<1>4. /\ UnitsOf(x) \in [Output -> Nat] /\ UnitsIn(x) \in [Refs -> Nat]
  BY OutputAtType DEF UnitsOf, UnitsIn, Output
<1>5. ASSUME NEW s \in Seq(Refs)
      PROVE  SumSeq([i \in DOMAIN s |-> OutputAt[s[i]].assets[x]]) = Worth(s, UnitsIn(x))
  <2>1. \A i \in DOMAIN s : s[i] \in Refs
    BY ElementIn
  <2>2. [i \in DOMAIN s |-> OutputAt[s[i]].assets[x]] = [i \in DOMAIN s |-> UnitsIn(x)[s[i]]]
    BY <2>1 DEF UnitsIn
  <2> QED BY <2>2 DEF Worth
<1>6. ASSUME NEW s \in Seq(Output)
      PROVE  SumSeq([i \in DOMAIN s |-> s[i].assets[x]]) = Worth(s, UnitsOf(x))
  <2>1. \A i \in DOMAIN s : s[i] \in Output
    BY ElementIn
  <2>2. [i \in DOMAIN s |-> s[i].assets[x]] = [i \in DOMAIN s |-> UnitsOf(x)[s[i]]]
    BY <2>1 DEF UnitsOf
  <2> QED BY <2>2 DEF Worth
<1>7. SumSeq([i \in DOMAIN outs |-> outs[i].assets[x]])
        = SumSeq([i \in DOMAIN ins |-> OutputAt[ins[i]].assets[x]])
  <2>1. CASE body.valid
    <3>1. SumSeq([i \in DOMAIN Body[t].outs |-> Body[t].outs[i].assets[x]])
            = SumSeq([i \in DOMAIN Body[t].ins |-> OutputAt[Body[t].ins[i]].assets[x]])
      BY <2>1 DEF Minted
    <3>2. ins = Body[t].ins /\ outs = Body[t].outs
      BY <2>1
    <3> QED BY <3>1, <3>2
  <2>2. CASE ~body.valid
    <3>1. SumSeq([i \in DOMAIN Body[t].coll |-> OutputAt[Body[t].coll[i]].assets[x]])
            = SumSeq([i \in DOMAIN Body[t].coll_ret |-> Body[t].coll_ret[i].assets[x]])
      BY <2>2, CollateralAssumption
    <3>2. ins = Body[t].coll /\ outs = Body[t].coll_ret
      BY <2>2
    <3> QED BY <3>1, <3>2
  <2> QED BY <2>1, <2>2
<1>8. PICK i \in DOMAIN outs : OutputAt[r] = outs[i]
  <2>1. /\ Len(body.outs) \in Nat /\ DOMAIN body.outs = 1..Len(body.outs)
        /\ Len(body.coll_ret) \in Nat /\ DOMAIN body.coll_ret = 1..Len(body.coll_ret)
    BY <1>2, LenNat
  <2>2. r \in Refs
    BY TxType, ElementIn DEF ToSet
  <2>3. OutputAt[r] = LET regular == Len(Body[r[1]].outs)
                      IN  IF r[2] <= regular THEN Body[r[1]].outs[r[2]]
                          ELSE Body[r[1]].coll_ret[r[2] - regular]
    BY <2>2 DEF OutputAt
  <2>4. CASE body.valid
    <3>1. Outputs[t] = [j \in 1..Len(body.outs) |-> <<t, j>>]
      BY <2>4 DEF Outputs
    <3>2. PICK j \in 1..Len(body.outs) : r = <<t, j>>
      BY <3>1 DEF ToSet
    <3>3. OutputAt[r] = body.outs[j]
      BY <2>1, <2>3, <3>2
    <3> QED BY <2>1, <2>4, <3>3
  <2>5. CASE ~body.valid
    <3>1. Outputs[t] = [j \in 1..Len(body.coll_ret) |-> <<t, Len(body.outs) + j>>]
      BY <2>5 DEF Outputs
    <3>2. PICK j \in 1..Len(body.coll_ret) : r = <<t, Len(body.outs) + j>>
      BY <3>1 DEF ToSet
    <3>3. ~(Len(body.outs) + j <= Len(body.outs)) /\ Len(body.outs) + j - Len(body.outs) = j
      BY <2>1
    <3>4. OutputAt[r] = body.coll_ret[j]
      BY <2>3, <3>2, <3>3
    <3> QED BY <2>1, <2>5, <3>4
  <2> QED BY <2>4, <2>5
<1> HIDE DEF ins, outs, body
<1>9. Worth(outs, UnitsOf(x)) > 0
  <2>1. outs[i] \in Output /\ outs[i] \in ToSet(outs)
    BY <1>3, ElementIn DEF ToSet
  <2>2. UnitsOf(x)[outs[i]] > 0
    BY <1>8, <2>1 DEF UnitsOf
  <2>3. \E o \in ToSet(outs) : UnitsOf(x)[o] > 0
    BY <2>1, <2>2
  <2>4. \A s \in Seq(Output) : Worth(s, UnitsOf(x)) > 0 <=> \E o \in ToSet(s) : UnitsOf(x)[o] > 0
    BY <1>4, WorthSome
  <2> QED BY <1>3, <2>3, <2>4
<1>10. Worth(ins, UnitsIn(x)) > 0
  <2>1. Worth(outs, UnitsOf(x)) = Worth(ins, UnitsIn(x))
    BY <1>3, <1>5, <1>6, <1>7
  <2> QED BY <1>9, <2>1
<1>11. \E q \in ToSet(ins) : UnitsIn(x)[q] > 0
  <2>1. \A s \in Seq(Refs) : Worth(s, UnitsIn(x)) > 0 <=> \E q \in ToSet(s) : UnitsIn(x)[q] > 0
    BY <1>4, WorthSome
  <2> QED BY <1>3, <1>10, <2>1
<1>12. PICK q \in ToSet(ins) : UnitsIn(x)[q] > 0
  BY <1>11
<1>13. q \in Refs
  BY <1>3, ElementIn DEF ToSet
<1> QED BY <1>3, <1>12, <1>13 DEF UnitsIn

\* The tokens a list moves without minting come from what was there before it.
LEMMA TokensComeIn ==
  ASSUME NEW u \in Seq(Txs), NEW x \in Assets
  PROVE  \A v \in Seq(Txs) :
           (/\ LegalOrder(u \o v)
            /\ \A t \in ToSet(v) : x \notin Minted[t]
            /\ \E r \in ToSet(AllOutputs(v)) : OutputAt[r].assets[x] > 0)
           => \E q \in ToSet(AllInputs(v)) :
                /\ q \in ToSet(Unspent(u)) /\ OutputAt[q].assets[x] > 0
<1> DEFINE holds(r) == OutputAt[r].assets[x] > 0
           pure(v) == LegalOrder(u \o v) /\ \A t \in ToSet(v) : x \notin Minted[t]
           enters(v) == \E q \in ToSet(AllInputs(v)) : q \in ToSet(Unspent(u)) /\ holds(q)
           W == {v \in Seq(Txs) : pure(v) => \A r \in ToSet(AllOutputs(v)) : holds(r) => enters(v)}
<1>1. <<>> \in W
  <2>1. <<>> \in Seq(Txs) /\ ToSet(<<>>) = {}
    BY DEF ToSet
  <2>2. ToSet(AllOutputs(<<>>)) = {}
    BY <2>1, ListSingle
  <2> QED BY <2>1, <2>2
<1>2. ASSUME NEW v \in Seq(Txs), NEW t \in Txs, v \in W PROVE Append(v, t) \in W
  <2> DEFINE w == Append(v, t)
  <2>1. w \in Seq(Txs) /\ w = v \o <<t>> /\ <<t>> \in Seq(Txs) /\ ToSet(w) = ToSet(v) \cup {t}
    BY AppendSet
  <2>2. /\ AllInputs(w) = AllInputs(v) \o Inputs[t]
        /\ AllOutputs(w) = AllOutputs(v) \o Outputs[t]
    BY <2>1, ListConcat, ListSingle
  <2>3. /\ AllInputs(v) \in Seq(Refs) /\ Inputs[t] \in Seq(Refs)
        /\ AllOutputs(v) \in Seq(Refs) /\ Outputs[t] \in Seq(Refs)
    BY ListType, TxType
  <2>4. /\ ToSet(AllInputs(w)) = ToSet(AllInputs(v)) \cup ToSet(Inputs[t])
        /\ ToSet(AllOutputs(w)) = ToSet(AllOutputs(v)) \cup ToSet(Outputs[t])
    BY <2>2, <2>3, ConcatSet
  <2>5. u \o v \in Seq(Txs) /\ u \o w = Append(u \o v, t)
    BY ConcatAppend
  <2> HIDE DEF w, holds
  <2>6. ASSUME pure(w), NEW r \in ToSet(AllOutputs(w)), holds(r) PROVE enters(w)
    <3>1. LegalOrder(u \o v) /\ ToSet(Inputs[t]) \subseteq ToSet(Unspent(u \o v))
      BY <2>5, <2>6, LegalOrderAppend
    <3>2. pure(v)
      BY <2>1, <2>6, <3>1
    <3>3. \A q \in ToSet(AllOutputs(v)) : holds(q) => enters(v)
      BY <1>2, <3>2
    <3>4. enters(v) => enters(w)
      BY <2>4
    <3>5. CASE r \in ToSet(AllOutputs(v))
      BY <2>6, <3>3, <3>4, <3>5
    <3>6. CASE r \in ToSet(Outputs[t])
      <4>1. x \notin Minted[t]
        BY <2>1, <2>6
      <4>2. PICK q \in ToSet(Inputs[t]) : OutputAt[q].assets[x] > 0
        BY <2>6, <3>6, <4>1, TokensComeFrom DEF holds
      <4>3. q \in ToSet(AllOutputs(u \o v)) \ ToSet(AllInputs(u \o v))
        BY <2>5, <3>1, UnspentSet
      <4>4. /\ AllInputs(u \o v) = AllInputs(u) \o AllInputs(v)
            /\ AllOutputs(u \o v) = AllOutputs(u) \o AllOutputs(v)
        BY ListConcat
      <4>5. /\ ToSet(AllInputs(u \o v)) = ToSet(AllInputs(u)) \cup ToSet(AllInputs(v))
            /\ ToSet(AllOutputs(u \o v)) = ToSet(AllOutputs(u)) \cup ToSet(AllOutputs(v))
        <5>1. AllInputs(u) \in Seq(Refs) /\ AllOutputs(u) \in Seq(Refs)
          BY ListType
        <5> QED BY <2>3, <4>4, <5>1, ConcatSet
      <4>6. CASE q \in ToSet(AllOutputs(v))
        BY <3>3, <3>4, <4>2, <4>6 DEF holds
      <4>7. CASE q \in ToSet(AllOutputs(u))
        <5>1. q \in ToSet(Unspent(u))
          BY <4>3, <4>5, <4>7, UnspentSet
        <5> QED BY <2>4, <4>2, <5>1 DEF holds
      <4> QED BY <4>3, <4>5, <4>6, <4>7
    <3> QED BY <2>4, <2>6, <3>5, <3>6
  <2> QED BY <2>1, <2>6 DEF w
<1> HIDE DEF W
<1>3. \A v \in Seq(Txs) : v \in W
  BY <1>1, <1>2, BuiltUp
<1> QED BY <1>3 DEF W

\* A block that mints or burns units of an asset.
Mints(b, x) == \E t \in ToSet(b.txs) : x \in Minted[t]

\* The minting blocks of a chain and of its start.
LEMMA MintBlocksStart ==
  ASSUME NEW c \in Seq(Block), NEW n \in 0..Len(c), NEW x
  PROVE  /\ MintBlocks(c, x) \subseteq 1..Len(c)
         /\ \A i \in 1..Len(c) : i \in MintBlocks(c, x) <=> Mints(c[i], x)
         /\ MintBlocks(SubSeq(c, 1, n), x) = MintBlocks(c, x) \cap (1..n)
<1>1. Len(c) \in Nat /\ DOMAIN c = 1..Len(c) /\ n \in Nat /\ n <= Len(c)
  BY LenNat
<1> DEFINE d == SubSeq(c, 1, n)
<1>2. DOMAIN d = 1..n /\ \A i \in 1..n : d[i] = c[i]
  BY <1>1
<1> HIDE DEF d
<1>3. MintBlocks(c, x) = {i \in 1..Len(c) : Mints(c[i], x)}
  BY <1>1 DEF MintBlocks, Mints
<1>4. MintBlocks(d, x) = {i \in 1..n : Mints(c[i], x)}
  BY <1>2 DEF MintBlocks, Mints
<1>5. \A i \in 1..n : i \in 1..Len(c)
  BY <1>1
<1>6. MintBlocks(d, x) = MintBlocks(c, x) \cap (1..n)
  BY <1>3, <1>4, <1>5
<1> QED BY <1>3, <1>6 DEF d

\* A chain that has minted an asset goes on with the same first mint.
LEMMA FirstMintStays ==
  ASSUME NEW c \in Seq(Block), NEW n \in 0..Len(c), NEW x,
         MintBlocks(SubSeq(c, 1, n), x) # {}
  PROVE  /\ DbFirstMint(c, x) = DbFirstMint(SubSeq(c, 1, n), x)
         /\ MintBlocks(c, x) # {}
<1> DEFINE d == SubSeq(c, 1, n)
           old == MintBlocks(d, x)
           all == MintBlocks(c, x)
<1>1. all \subseteq 1..Len(c) /\ old = all \cap (1..n)
  BY MintBlocksStart
<1>2. Len(c) \in Nat /\ n \in Nat /\ n <= Len(c) /\ \A i \in 1..n : d[i] = c[i]
  BY LenNat
<1>3. old # {}
  OBVIOUS
<1> HIDE DEF old, all, d
<1>4. old \subseteq Nat /\ all \subseteq Nat /\ all # {}
  BY <1>1, <1>2, <1>3
<1>5. /\ Min(old) \in old /\ \A y \in old : Min(old) <= y
      /\ Min(all) \in all /\ \A y \in all : Min(all) <= y
  BY <1>3, <1>4, MinIndex
<1>6. Min(all) \in old
  <2>1. Min(all) <= Min(old) /\ Min(old) \in 1..n /\ Min(all) \in 1..Len(c)
    BY <1>1, <1>5
  <2> DEFINE p == Min(all)
             q == Min(old)
  <2>2. p \in all /\ p \in 1..Len(c) /\ q \in 1..n /\ p <= q
    BY <1>5, <2>1
  <2> HIDE DEF p, q
  <2>3. p \in 1..n
    BY <1>2, <2>2
  <2> QED BY <1>1, <2>2, <2>3 DEF p
<1>7. Min(all) = Min(old)
  <2>1. Min(all) <= Min(old) /\ Min(old) <= Min(all)
    BY <1>1, <1>5, <1>6
  <2>2. Min(all) \in Nat /\ Min(old) \in Nat
    BY <1>4, <1>5
  <2> QED BY <2>1, <2>2
<1>8. d[Min(old)] = c[Min(all)]
  BY <1>1, <1>2, <1>5, <1>7
<1> QED BY <1>3, <1>4, <1>8 DEF DbFirstMint, old, all, d

\* A block that mints an asset no block before it minted is its first.
LEMMA FirstMintNow ==
  ASSUME NEW c \in Seq(Block), NEW b \in Block, NEW x, Mints(b, x),
         Cardinality(MintBlocks(Append(c, b), x)) = 1
  PROVE  MintBlocks(c, x) = {} /\ DbFirstMint(Append(c, b), x) = b.slot
<1> DEFINE d == Append(c, b)
           n == Len(c)
           old == MintBlocks(c, x)
           all == MintBlocks(d, x)
<1>1. /\ n \in Nat /\ d \in Seq(Block) /\ Len(d) = n + 1 /\ d[n + 1] = b
      /\ SubSeq(d, 1, n) = c
  BY LenNat, AppendIs
<1>2. n \in 0..Len(d) /\ n + 1 \in 1..Len(d)
  BY <1>1
<1>3. /\ all \subseteq 1..(n + 1) /\ n + 1 \in all /\ old = all \cap (1..n)
  <2> HIDE DEF d
  <2> QED BY <1>1, <1>2, MintBlocksStart
<1>4. Cardinality(all) = 1
  OBVIOUS
<1> HIDE DEF n, d, old, all
<1>5. n + 1 \notin old /\ all = old \cup {n + 1}
  <2>1. 1..(n + 1) = (1..n) \cup {n + 1} /\ n + 1 \notin 1..n
    BY <1>1
  <2> QED BY <1>3, <2>1
<1>6. IsFiniteSet(old)
  <2>1. IsFiniteSet(1..n) /\ old \subseteq 1..n
    BY <1>1, <1>3, FS_Interval
  <2> QED BY <2>1, FS_Subset
<1>7. old = {}
  <2>1. Cardinality(old \cup {n + 1}) = Cardinality(old) + 1
    BY <1>5, <1>6, FS_AddElement
  <2>2. Cardinality(old) \in Nat
    BY <1>6, FS_CardinalityType
  <2>3. Cardinality(old) = 0
    BY <1>4, <1>5, <2>1, <2>2
  <2> QED BY <1>6, <2>3, FS_EmptySet
<1>8. all = {n + 1}
  BY <1>5, <1>7
<1>9. Min(all) = n + 1
  <2>1. all \subseteq Nat /\ all # {}
    BY <1>1, <1>8
  <2>2. Min(all) \in all
    BY <2>1, MinIndex
  <2> QED BY <1>8, <2>2
<1>10. DbFirstMint(d, x) = d[Min(all)].slot
  BY <1>8 DEF DbFirstMint, all
<1>11. DbFirstMint(d, x) = b.slot
  BY <1>1, <1>9, <1>10
<1> QED BY <1>7, <1>11 DEF old, d

\* Before an asset is minted there is none of it.
LEMMA NoneBeforeMint ==
  ASSUME NEW c \in Seq(Block), LegalOrder(TxsOf(c)), NEW x \in Assets, MintBlocks(c, x) = {}
  PROVE  \A r \in There(c) : ~(OutputAt[r].assets[x] > 0)
<1> DEFINE v == TxsOf(c)
<1>1. v \in Seq(Txs) /\ <<>> \in Seq(Txs) /\ <<>> \o v = v
  <2>1. v \in Seq(Txs)
    BY ChainTxsType
  <2> HIDE DEF v
  <2> QED BY <2>1
<1>2. ToSet(v) = UNION {ToSet(c[i].txs) : i \in DOMAIN c}
  BY ChainTxs
<1>3. \A t \in ToSet(v) : x \notin Minted[t]
  BY <1>2 DEF MintBlocks
<1>4. LegalOrder(v)
  OBVIOUS
<1> HIDE DEF v
<1>5. ToSet(Unspent(<<>>)) = {}
  <2>1. ToSet(Unspent(<<>>)) = ToSet(AllOutputs(<<>>)) \ ToSet(AllInputs(<<>>))
    BY <1>1, UnspentSet
  <2> QED BY <2>1, ListSingle DEF ToSet
<1>6. \A r \in ToSet(AllOutputs(v)) : ~(OutputAt[r].assets[x] > 0)
  BY <1>1, <1>3, <1>4, <1>5, TokensComeIn
<1>7. ToSet(Unspent(v)) \subseteq ToSet(AllOutputs(v))
  BY <1>1, UnspentSet
<1> QED BY <1>6, <1>7 DEF There, v

\* Where a snapshot shows units, an unspent output holds some.
LEMMA UnitsThere ==
  ASSUME NEW c \in Seq(Block), NEW a \in Addrs, NEW x \in Assets
  PROVE  DbUnits(c)[a][x] > 0
           <=> \E r \in There(c) : OutputAt[r].addr = a /\ OutputAt[r].assets[x] > 0
<1> DEFINE s == Unspent(TxsOf(c))
           val == UnitValue(a, x)
<1>1. s \in Seq(Refs)
  BY ChainTxsType DEF DbUnspent
<1>2. DbUnits(c)[a][x] = Worth(s, val)
  BY ScanWorth
<1>3. val \in [Refs -> Nat]
  BY AmountWorth
<1>4. \A r \in ToSet(s) : val[r] > 0 <=> OutputAt[r].addr = a /\ OutputAt[r].assets[x] > 0
  <2> SUFFICES ASSUME NEW r \in ToSet(s)
               PROVE  val[r] > 0 <=> OutputAt[r].addr = a /\ OutputAt[r].assets[x] > 0
    OBVIOUS
  <2> HIDE DEF s
  <2>1. r \in Refs
    BY <1>1, ElementIn DEF ToSet
  <2>2. val[r] = IF OutputAt[r].addr = a THEN OutputAt[r].assets[x] ELSE 0
    BY <2>1 DEF UnitValue
  <2> QED BY <2>2
<1> HIDE DEF s, val
<1>5. Worth(s, val) > 0 <=> \E r \in ToSet(s) : val[r] > 0
  <2>1. \A q \in Seq(Refs) : Worth(q, val) > 0 <=> \E r \in ToSet(q) : val[r] > 0
    BY <1>3, WorthSome
  <2> QED BY <1>1, <2>1
<1> QED BY <1>2, <1>4, <1>5 DEF There, s

\* What a list of outputs credits an address with, one of them holds.
LEMMA UnitsFrom ==
  ASSUME NEW refs \in Seq(Refs), NEW a \in Addrs, NEW x \in Assets, UnitsAt(refs, a, x) > 0
  PROVE  \E r \in ToSet(refs) : OutputAt[r].assets[x] > 0
<1> DEFINE val == UnitValue(a, x)
<1>1. val \in [Refs -> Nat] /\ UnitsAt(refs, a, x) = Worth(refs, val)
  BY AmountWorth
<1>2. \A r \in Refs : val[r] = IF OutputAt[r].addr = a THEN OutputAt[r].assets[x] ELSE 0
  BY DEF UnitValue
<1> HIDE DEF val
<1>3. \A q \in Seq(Refs) : Worth(q, val) > 0 <=> \E r \in ToSet(q) : val[r] > 0
  BY <1>1, WorthSome
<1>4. PICK r \in ToSet(refs) : val[r] > 0
  BY <1>1, <1>3
<1>5. r \in Refs
  BY ElementIn DEF ToSet
<1> QED BY <1>2, <1>4, <1>5

-----------------------------------------------------------------------------
(* A block, and a reset *)

GoodDelegations == {d \in Delegations : MembersAgree(d)}
GoodHandles == {m \in HandleMaps : HandlesAgree(m)}

\* One certificate moves a credential from the members of the target it left
\* to those of the one it joined.
LEMMA DelegateKeeps ==
  ASSUME NEW d \in GoodDelegations, NEW change \in Change, NEW slot \in Nat
  PROVE  Delegate(d, change, slot) \in GoodDelegations
<1> DEFINE k == change.cred
           from == d.runs[k].target
           to == change.target
           run == IF to = Nobody THEN NoRun
                  ELSE [target |-> to,
                        since_slot |-> IF from = to THEN d.runs[k].since_slot ELSE slot]
           runs == [d.runs EXCEPT ![k] = run]
           members == Join(Leave(d.members, from, k), to, k)
<1>1. /\ d.runs \in [Creds -> Run] /\ d.members \in [Targets -> SUBSET Creds]
      /\ \A t \in Targets : d.members[t] = {c \in Creds : d.runs[c].target = t}
  BY DEF GoodDelegations, Delegations, MembersAgree
<1>2. k \in Creds /\ to \in Targets \cup {Nobody} /\ Nobody \notin Targets
  BY NamesAssumption DEF Change
<1>3. d.runs[k] \in Run /\ from \in Targets \cup {Nobody}
  BY <1>1, <1>2 DEF Run
<1>4. run \in Run /\ run.target = to
  BY <1>2, <1>3 DEF Run, NoRun
<1>5. Delegate(d, change, slot) = [runs |-> runs, members |-> members]
  BY DEF Delegate
<1> HIDE DEF run, k, from, to
<1>6. runs \in [Creds -> Run]
  BY <1>1, <1>4
<1>7. \A c \in Creds : runs[c].target = IF c = k THEN to ELSE d.runs[c].target
  BY <1>1, <1>2, <1>4
<1>8. members \in [Targets -> SUBSET Creds]
  BY <1>1, <1>2, <1>3 DEF Join, Leave
<1>9. ASSUME NEW t \in Targets
      PROVE  members[t] = {c \in Creds : runs[c].target = t}
  <2>1. Leave(d.members, from, k) \in [Targets -> SUBSET Creds]
    BY <1>1, <1>3 DEF Leave
  <2>2. Leave(d.members, from, k)[t] = d.members[t] \ {k}
    <3>1. CASE from = t
      BY <1>1, <1>2, <3>1 DEF Leave
    <3>2. CASE from # t
      BY <1>1, <1>3, <3>2 DEF Leave, from
    <3> QED BY <3>1, <3>2
  <2>3. members[t] = (d.members[t] \ {k}) \cup (IF to = t THEN {k} ELSE {})
    BY <1>2, <2>1, <2>2 DEF Join
  <2> HIDE DEF runs, members
  <2> QED BY <1>1, <1>2, <1>7, <2>3
<1> HIDE DEF runs, members
<1>10. [runs |-> runs, members |-> members] \in GoodDelegations
  BY <1>6, <1>8, <1>9 DEF GoodDelegations, Delegations, MembersAgree
<1> QED BY <1>5, <1>10

\* apply_delegation_changes as a loop.
DelegateStep(slot) == [d \in GoodDelegations |-> [e \in Change |-> Delegate(d, e, slot)]]

\* What it computes, and that each of its steps is a good one.
LEMMA DelegationLoop ==
  ASSUME NEW d \in GoodDelegations, NEW slot \in Nat, NEW changes \in Seq(Change)
  PROVE  \E f : /\ IsLoop(f, d, DelegateStep(slot), changes, GoodDelegations)
                /\ ApplyDelegationChanges(d, changes, slot) = f[Len(changes)]
<1> DEFINE n == Len(changes)
           S == GoodDelegations
           step == DelegateStep(slot)
           Loop(f) == f = [i \in 0..n |-> IF i = 0 THEN d
                                          ELSE Delegate(f[i - 1], changes[i], slot)]
           after == CHOOSE f : Loop(f)
<1>1. n \in Nat /\ \A i \in 1..n : changes[i] \in Change
  BY LenNat
<1>2. /\ step \in [S -> [Change -> S]]
      /\ \A a \in S, e \in Change : step[a][e] = Delegate(a, e, slot)
  BY DelegateKeeps DEF DelegateStep
<1> HIDE DEF S, step
<1>3. d \in S
  BY DEF S
<1>4. \E f : Loop(f)
  <2>1. PICK f : IsLoop(f, d, step, changes, S)
    BY <1>2, <1>3, LoopExists
  <2>2. ASSUME NEW i \in 1..n PROVE f[i] = Delegate(f[i - 1], changes[i], slot)
    <3>1. f[i - 1] \in S /\ changes[i] \in Change
      BY <1>1, <2>1 DEF IsLoop
    <3> QED BY <1>2, <2>1, <3>1 DEF IsLoop
  <2>3. Loop(f)
    BY <1>1, <2>1, <2>2 DEF IsLoop
  <2> QED BY <2>3
<1>5. Loop(after)
  BY <1>4
<1> HIDE DEF after
<1> DEFINE T == {i \in 0..n : after[i] \in S}
<1>6. 0 \in T
  BY <1>1, <1>3, <1>5
<1>7. ASSUME NEW i \in 1..n, i - 1 \in T
      PROVE  i \in T /\ after[i] = step[after[i - 1]][changes[i]]
  <2>1. i \in 0..n /\ i # 0 /\ changes[i] \in Change
    BY <1>1
  <2>2. after[i] = Delegate(after[i - 1], changes[i], slot)
    BY <1>5, <2>1
  <2>3. after[i - 1] \in S
    BY <1>7
  <2>4. after[i] = step[after[i - 1]][changes[i]] /\ step[after[i - 1]][changes[i]] \in S
    BY <1>2, <2>1, <2>2, <2>3
  <2> QED BY <2>1, <2>4
<1>8. \A i \in 0..n : i \in T
  BY <1>1, <1>6, <1>7, CountUp
<1>9. IsLoop(after, d, step, changes, S)
  <2>1. after \in [0..n -> S] /\ after[0] = d
    BY <1>1, <1>5, <1>8
  <2>2. \A i \in 1..n : i - 1 \in 0..n
    BY <1>1
  <2>3. \A i \in 1..n : after[i] = step[after[i - 1]][changes[i]]
    BY <1>7, <1>8, <2>2
  <2> QED BY <2>1, <2>3 DEF IsLoop
<1>10. ApplyDelegationChanges(d, changes, slot) = after[n]
  BY DEF ApplyDelegationChanges, after
<1> QED BY <1>9, <1>10 DEF S, step

\* So does a block's list of certificates.
LEMMA DelegationChangesKeep ==
  ASSUME NEW d \in GoodDelegations, NEW changes \in Seq(Change), NEW slot \in Nat
  PROVE  ApplyDelegationChanges(d, changes, slot) \in GoodDelegations
<1>1. PICK f : /\ IsLoop(f, d, DelegateStep(slot), changes, GoodDelegations)
               /\ ApplyDelegationChanges(d, changes, slot) = f[Len(changes)]
  BY DelegationLoop
<1>2. Len(changes) \in 0..Len(changes)
  BY LenNat
<1> QED BY <1>1, <1>2 DEF IsLoop

-----------------------------------------------------------------------------

\* The credential of an owner is a credential or nobody.
LEMMA StakeOfType ==
  ASSUME NEW a \in Addrs \cup {Nobody}
  PROVE  StakeOf(a) \in Creds \cup {Nobody}
BY NamesAssumption DEF StakeOf

\* A move takes a handle from the lists of its old owner to those of the new
\* one, the list of a credential only when the credential changes.
LEMMA MoveHandleKeeps ==
  ASSUME NEW m \in GoodHandles, NEW h \in Handles, NEW to \in Addrs
  PROVE  MoveHandle(m, h, to) \in GoodHandles
<1> DEFINE from == m.owner[h]
           owner == [m.owner EXCEPT ![h] = to]
           by_address == Join(Leave(m.by_address, from, h), to, h)
           moved == Join(Leave(m.by_stake, StakeOf(from), h), StakeOf(to), h)
           by_stake == IF StakeOf(from) = StakeOf(to) THEN m.by_stake ELSE moved
           new == [owner |-> owner, by_address |-> by_address, by_stake |-> by_stake]
<1>1. /\ m.owner \in [Handles -> Addrs \cup {Nobody}]
      /\ m.by_address \in [Addrs -> SUBSET Handles]
      /\ m.by_stake \in [Creds -> SUBSET Handles]
      /\ \A a \in Addrs : m.by_address[a] = {x \in Handles : m.owner[x] = a}
      /\ \A k \in Creds : m.by_stake[k] = {x \in Handles : StakeOf(m.owner[x]) = k}
  BY DEF GoodHandles, HandleMaps, HandlesAgree
<1>2. Nobody \notin Addrs /\ Nobody \notin Creds
  BY NamesAssumption
<1>3. from \in Addrs \cup {Nobody} /\ StakeOf(from) \in Creds \cup {Nobody}
      /\ StakeOf(to) \in Creds \cup {Nobody}
  BY <1>1, StakeOfType
<1>4. \A x \in Handles : owner[x] = IF x = h THEN to ELSE m.owner[x]
  BY <1>1
<1>5. owner \in [Handles -> Addrs \cup {Nobody}]
  BY <1>1
<1> HIDE DEF owner
<1>6. by_address \in [Addrs -> SUBSET Handles]
  BY <1>1, <1>2, <1>3 DEF Join, Leave
<1>7. ASSUME NEW a \in Addrs
      PROVE  by_address[a] = {x \in Handles : owner[x] = a}
  <2>1. Leave(m.by_address, from, h) \in [Addrs -> SUBSET Handles]
    BY <1>1, <1>3 DEF Leave
  <2>2. Leave(m.by_address, from, h)[a] = m.by_address[a] \ {h}
    <3>1. CASE from = a
      BY <1>1, <1>2, <3>1 DEF Leave
    <3>2. CASE from # a
      BY <1>1, <1>3, <3>2 DEF Leave, from
    <3> QED BY <3>1, <3>2
  <2>3. by_address[a] = (m.by_address[a] \ {h}) \cup (IF to = a THEN {h} ELSE {})
    BY <1>2, <2>1, <2>2 DEF Join
  <2> HIDE DEF by_address
  <2> QED BY <1>1, <1>4, <2>3
<1>8. moved \in [Creds -> SUBSET Handles]
  <2> HIDE DEF from
  <2> QED BY <1>1, <1>2, <1>3 DEF Join, Leave
<1>9. ASSUME NEW k \in Creds
      PROVE  by_stake[k] = {x \in Handles : StakeOf(owner[x]) = k}
  <2> DEFINE was == StakeOf(from)
             now == StakeOf(to)
  <2>1. m.by_stake[k] = {x \in Handles : StakeOf(m.owner[x]) = k}
    BY <1>1
  <2>2. \A x \in Handles : StakeOf(owner[x]) = IF x = h THEN now ELSE StakeOf(m.owner[x])
    BY <1>4
  <2>3. StakeOf(m.owner[h]) = was
    OBVIOUS
  <2> HIDE DEF was, now
  <2>4. CASE was = now
    <3>1. by_stake[k] = m.by_stake[k]
      BY <2>4 DEF was, now
    <3>2. \A x \in Handles : StakeOf(owner[x]) = StakeOf(m.owner[x])
      BY <2>2, <2>3, <2>4
    <3> HIDE DEF by_stake
    <3> QED BY <2>1, <3>1, <3>2
  <2>5. CASE was # now
    <3>1. Leave(m.by_stake, was, h) \in [Creds -> SUBSET Handles]
      BY <1>1, <1>3 DEF Leave, was
    <3>2. Leave(m.by_stake, was, h)[k] = m.by_stake[k] \ {h}
      <4>1. CASE was = k
        BY <1>1, <1>2, <4>1 DEF Leave
      <4>2. CASE was # k
        <5>1. h \notin m.by_stake[k]
          BY <2>1, <2>3, <4>2
        <5>2. Leave(m.by_stake, was, h)[k] = m.by_stake[k]
          BY <1>1, <4>2 DEF Leave
        <5> QED BY <5>1, <5>2
      <4> QED BY <4>1, <4>2
    <3>3. Join(Leave(m.by_stake, was, h), now, h)[k]
            = (m.by_stake[k] \ {h}) \cup (IF now = k THEN {h} ELSE {})
      BY <1>2, <3>1, <3>2 DEF Join
    <3>4. by_stake[k] = (m.by_stake[k] \ {h}) \cup (IF now = k THEN {h} ELSE {})
      BY <2>5, <3>3 DEF was, now
    <3> HIDE DEF by_stake
    <3> QED BY <2>1, <2>2, <3>4
  <2> QED BY <2>4, <2>5
<1>10. by_stake \in [Creds -> SUBSET Handles]
  BY <1>1, <1>8
<1> HIDE DEF by_address, by_stake, from
<1>11. new \in GoodHandles
  BY <1>5, <1>6, <1>7, <1>9, <1>10 DEF GoodHandles, HandleMaps, HandlesAgree
<1>12. MoveHandle(m, h, to) = IF from = to THEN m ELSE new
  BY DEF MoveHandle, from, owner, by_address, by_stake
<1> QED BY <1>11, <1>12

\* A burned handle leaves all three maps.
LEMMA BurnHandlesKeeps ==
  ASSUME NEW m \in GoodHandles, NEW burned
  PROVE  BurnHandles(m, burned) \in GoodHandles
<1> DEFINE owner == [h \in Handles |-> IF h \in burned THEN Nobody ELSE m.owner[h]]
<1>1. /\ m.owner \in [Handles -> Addrs \cup {Nobody}]
      /\ m.by_address \in [Addrs -> SUBSET Handles]
      /\ m.by_stake \in [Creds -> SUBSET Handles]
      /\ \A a \in Addrs : m.by_address[a] = {x \in Handles : m.owner[x] = a}
      /\ \A k \in Creds : m.by_stake[k] = {x \in Handles : StakeOf(m.owner[x]) = k}
  BY DEF GoodHandles, HandleMaps, HandlesAgree
<1>2. Nobody \notin Addrs /\ Nobody \notin Creds
  BY NamesAssumption
<1>3. StakeOf(Nobody) = Nobody
  BY DEF StakeOf
<1>4. owner \in [Handles -> Addrs \cup {Nobody}]
  BY <1>1
<1>5. ASSUME NEW a \in Addrs
      PROVE  m.by_address[a] \ burned = {x \in Handles : owner[x] = a}
  BY <1>1, <1>2
<1>6. ASSUME NEW k \in Creds
      PROVE  m.by_stake[k] \ burned = {x \in Handles : StakeOf(owner[x]) = k}
  <2>1. \A x \in Handles : StakeOf(owner[x]) = IF x \in burned THEN Nobody
                                               ELSE StakeOf(m.owner[x])
    BY <1>3
  <2> HIDE DEF owner
  <2> QED BY <1>1, <1>2, <2>1
<1>7. [a \in Addrs |-> m.by_address[a] \ burned] \in [Addrs -> SUBSET Handles]
  BY <1>1
<1>8. [k \in Creds |-> m.by_stake[k] \ burned] \in [Creds -> SUBSET Handles]
  BY <1>1
<1> HIDE DEF owner
<1>9. [owner |-> owner, by_address |-> [a \in Addrs |-> m.by_address[a] \ burned],
       by_stake |-> [k \in Creds |-> m.by_stake[k] \ burned]] \in GoodHandles
  BY <1>4, <1>5, <1>6, <1>7, <1>8 DEF GoodHandles, HandleMaps, HandlesAgree
<1> QED BY <1>9 DEF BurnHandles, owner

\* Whom an output names as the owner of a handle, and the moves it makes.
Named(r, h) == IF h \in Virtual THEN OutputAt[r].datum ELSE OutputAt[r].addr
Carries(r, h) == OutputAt[r].assets[h] > 0
MovesOf(r) ==
  {m \in {<<h, Named(r, h)>> : h \in {x \in Handles : Carries(r, x)}} : m[2] # Nobody}
MovesIn == [r \in Refs |-> SetToSeq(MovesOf(r))]

\* HandleChanges strings together the moves of each output.
LEMMA ChangesFlat ==
  /\ MovesIn \in [Refs -> Seq(Handles \X Addrs)]
  /\ \A r \in Refs : ToSet(MovesIn[r]) = MovesOf(r)
  /\ \A refs \in Seq(Refs) : HandleChanges(refs) = FlatMap(refs, MovesIn)
<1>1. ASSUME NEW r \in Refs
      PROVE  /\ MovesOf(r) \subseteq Handles \X Addrs /\ IsFiniteSet(MovesOf(r))
             /\ SetToSeq(MovesOf(r)) \in Seq(Handles \X Addrs)
             /\ ToSet(SetToSeq(MovesOf(r))) = MovesOf(r)
  <2> DEFINE held == {x \in Handles : Carries(r, x)}
             moves == {<<h, Named(r, h)>> : h \in held}
             pair == [h \in held |-> <<h, Named(r, h)>>]
  <2>1. OutputAt[r] \in Output
    BY OutputAtType
  <2>2. \A h \in Handles : Named(r, h) \in Addrs \cup {Nobody}
    BY <2>1 DEF Output, Named
  <2>3. MovesOf(r) \subseteq Handles \X Addrs
    BY <2>2 DEF MovesOf
  <2>4. IsFiniteSet(held)
    BY NamesAssumption, FS_Subset
  <2>5. pair \in Surjection(held, moves)
    BY DEF Surjection
  <2>6. MovesOf(r) \subseteq moves
    BY DEF MovesOf
  <2>7. IsFiniteSet(moves)
    <3> HIDE DEF pair, held, moves
    <3> QED BY <2>4, <2>5, FS_Surjection
  <2> HIDE DEF moves
  <2>8. IsFiniteSet(MovesOf(r))
    BY <2>6, <2>7, FS_Subset
  <2> DEFINE own == MovesOf(r)
  <2>9. own \subseteq Handles \X Addrs /\ IsFiniteSet(own)
    BY <2>3, <2>8
  <2> HIDE DEF own
  <2>10. SetToSeq(own) \in Seq(own) /\ ToSet(SetToSeq(own)) = own
    BY <2>9, SetToSeqOnce
  <2>11. SetToSeq(own) \in Seq(Handles \X Addrs)
    BY <2>9, <2>10
  <2> QED BY <2>9, <2>10, <2>11 DEF own
<1>2. MovesIn \in [Refs -> Seq(Handles \X Addrs)]
  <2> DEFINE Q == Seq(Handles \X Addrs)
  <2>1. \A r \in Refs : SetToSeq(MovesOf(r)) \in Q
    BY <1>1
  <2> HIDE DEF Q
  <2>2. MovesIn \in [Refs -> Q]
    BY <2>1 DEF MovesIn
  <2> QED BY <2>2 DEF Q
<1>3. \A r \in Refs : ToSet(MovesIn[r]) = MovesOf(r)
  BY <1>1 DEF MovesIn
<1>4. ASSUME NEW refs \in Seq(Refs) PROVE HandleChanges(refs) = FlatMap(refs, MovesIn)
  <2> DEFINE named(r) == SetToSeq(MovesOf(r))
  <2>1. \A i \in DOMAIN refs : refs[i] \in Refs
    BY ElementIn
  <2>2. [i \in DOMAIN refs |-> MovesIn[refs[i]]] = [i \in DOMAIN refs |-> named(refs[i])]
    BY <2>1 DEF MovesIn
  <2>3. HandleChanges(refs) = FlattenSeq([i \in DOMAIN refs |-> named(refs[i])])
    BY DEF HandleChanges, MovesOf, Named, Carries
  <2> QED BY <2>2, <2>3 DEF FlatMap
<1> QED BY <1>2, <1>3, <1>4

\* The moves of a list of outputs: each of a handle it carries, to whom it names.
LEMMA ChangesAre ==
  ASSUME NEW refs \in Seq(Refs)
  PROVE  /\ HandleChanges(refs) \in Seq(Handles \X Addrs)
         /\ ToSet(HandleChanges(refs)) = UNION {MovesOf(r) : r \in ToSet(refs)}
         /\ \A more \in Seq(Refs) :
              HandleChanges(refs \o more) = HandleChanges(refs) \o HandleChanges(more)
<1> DEFINE Q == Handles \X Addrs
<1>1. /\ MovesIn \in [Refs -> Seq(Q)]
      /\ \A r \in Refs : ToSet(MovesIn[r]) = MovesOf(r)
      /\ \A s \in Seq(Refs) : HandleChanges(s) = FlatMap(s, MovesIn)
  BY ChangesFlat
<1>2. ToSet(refs) \subseteq Refs
  BY ElementIn DEF ToSet
<1> HIDE DEF Q
<1>3. FlatMap(refs, MovesIn) \in Seq(Q)
  <2>1. \A s \in Seq(Refs) : FlatMap(s, MovesIn) \in Seq(Q)
    BY <1>1, FlatMapAppend
  <2> QED BY <2>1
<1>4. ToSet(FlatMap(refs, MovesIn)) = UNION {ToSet(MovesIn[r]) : r \in ToSet(refs)}
  BY <1>1, FlatMapElements
<1>5. \A more \in Seq(Refs) :
        FlatMap(refs \o more, MovesIn) = FlatMap(refs, MovesIn) \o FlatMap(more, MovesIn)
  BY <1>1, FlatMapConcat
<1>6. UNION {ToSet(MovesIn[r]) : r \in ToSet(refs)} = UNION {MovesOf(r) : r \in ToSet(refs)}
  BY <1>1, <1>2
<1>7. \A more \in Seq(Refs) : refs \o more \in Seq(Refs)
  OBVIOUS
<1> QED BY <1>1, <1>3, <1>4, <1>5, <1>6, <1>7 DEF Q

\* One move more.
MoveStep == [m \in GoodHandles |-> [e \in Handles \X Addrs |-> MoveHandle(m, e[1], e[2])]]

\* A list of moves is a loop of them.
LEMMA MovesLoop ==
  ASSUME NEW m \in GoodHandles, NEW changes \in Seq(Handles \X Addrs)
  PROVE  \E f : /\ IsLoop(f, m, MoveStep, changes, GoodHandles)
                /\ ApplyHandleMoves(m, changes) = f[Len(changes)]
<1> DEFINE n == Len(changes)
           S == GoodHandles
           Q == Handles \X Addrs
           next(a, b) == MoveHandle(a, b[1], b[2])
           Loop(f) == f = [i \in 0..n |-> IF i = 0 THEN m
                                          ELSE next(f[i - 1], changes[i])]
           after == CHOOSE f : Loop(f)
<1>1. n \in Nat /\ (\A i \in 1..n : changes[i] \in Q) /\ changes \in Seq(Q)
  BY LenNat, ElementIn
<1>2. ASSUME NEW a \in S, NEW b \in Q PROVE next(a, b) \in S
  <2>1. b[1] \in Handles /\ b[2] \in Addrs
    OBVIOUS
  <2> QED BY <2>1, MoveHandleKeeps
<1>3. MoveStep = [a \in S |-> [b \in Q |-> next(a, b)]]
  BY DEF MoveStep
<1>4. m \in S
  OBVIOUS
<1> HIDE DEF S, Q, next
<1>5. MoveStep \in [S -> [Q -> S]]
  BY <1>2, <1>3
<1>6. PICK f : IsLoop(f, m, MoveStep, changes, S)
  BY <1>1, <1>4, <1>5, LoopExists
<1>7. ASSUME NEW i \in 1..n PROVE f[i] = next(f[i - 1], changes[i])
  <2>1. i - 1 \in 0..n
    BY <1>1
  <2>2. f[i - 1] \in S
    BY <1>6, <2>1 DEF IsLoop
  <2>3. changes[i] \in Q
    BY <1>1
  <2> QED BY <1>3, <1>6, <2>2, <2>3 DEF IsLoop
<1>8. Loop(f)
  BY <1>1, <1>6, <1>7 DEF IsLoop
<1>9. Loop(after)
  BY <1>8
<1> HIDE DEF after
<1> DEFINE T == {i \in 0..n : after[i] = f[i]}
<1>10. 0 \in T
  BY <1>1, <1>8, <1>9
<1>11. ASSUME NEW i \in 1..n, i - 1 \in T PROVE i \in T
  <2>1. i \in 0..n /\ i # 0
    BY <1>1
  <2>2. after[i] = next(after[i - 1], changes[i])
    BY <1>9, <2>1
  <2> QED BY <1>7, <1>11, <2>1, <2>2
<1>12. \A i \in 0..n : i \in T
  BY <1>1, <1>10, <1>11, CountUp
<1>13. after[n] = f[n]
  BY <1>1, <1>12
<1>14. ApplyHandleMoves(m, changes) = after[n]
  BY DEF ApplyHandleMoves, after, next
<1> QED BY <1>6, <1>13, <1>14 DEF S

\* A block's list of moves keeps the handle maps in agreement.
LEMMA HandleMovesKeep ==
  ASSUME NEW m \in GoodHandles, NEW changes \in Seq(Handles \X Addrs)
  PROVE  ApplyHandleMoves(m, changes) \in GoodHandles
<1>1. PICK f : /\ IsLoop(f, m, MoveStep, changes, GoodHandles)
               /\ ApplyHandleMoves(m, changes) = f[Len(changes)]
  BY MovesLoop
<1>2. f[Len(changes)] \in GoodHandles
  BY <1>1, LenNat DEF IsLoop
<1> QED BY <1>1, <1>2

\* apply_handle_updates: the moves, then the burns.
LEMMA HandleUpdatesKeep ==
  ASSUME NEW m \in GoodHandles, NEW changes \in Seq(Handles \X Addrs), NEW consumed
  PROVE  ApplyHandleUpdates(m, changes, consumed) \in GoodHandles
BY HandleMovesKeep, BurnHandlesKeeps DEF ApplyHandleUpdates

\* Maps built from one map of owners agree.
LEMMA HandleMapsForKeeps ==
  ASSUME NEW owner \in [Handles -> Addrs \cup {Nobody}]
  PROVE  HandleMapsFor(owner) \in GoodHandles
BY DEF HandleMapsFor, GoodHandles, HandleMaps, HandlesAgree

\* So do the delegations read back from db-sync.
LEMMA DbDelegationsKeep ==
  ASSUME NEW c \in Seq(Block), NEW r \in Roles
  PROVE  DbDelegations(c, r) \in GoodDelegations
<1> DEFINE runs == [k \in Creds |-> DbRun(c, r, k)]
<1>1. runs \in [Creds -> Run]
  BY DbRunType DEF Run
<1> HIDE DEF runs
<1>2. [runs |-> runs, members |-> [t \in Targets |-> {k \in Creds : runs[k].target = t}]]
        \in GoodDelegations
  BY <1>1 DEF GoodDelegations, Delegations, MembersAgree
<1> QED BY <1>2 DEF DbDelegations, DelegationsOf, runs

-----------------------------------------------------------------------------

Holdings == [Addrs -> [Assets -> Held]]

\* Credits and debits leave a natural.
LEMMA SettleType ==
  ASSUME NEW amount \in Nat, NEW credit \in Nat, NEW debit \in Nat
  PROVE  Settle(amount, credit, debit) \in Nat
BY DEF Settle

\* A leaf after a block has a natural quantity and slot.
LEMMA BumpHoldingType ==
  ASSUME NEW holdings \in Holdings, NEW a \in Addrs, NEW x \in Assets,
         NEW produced \in Seq(Refs), NEW known \in Seq(Refs), NEW slot \in Nat
  PROVE  BumpHolding(holdings, a, x, produced, known, slot) \in Held
<1> DEFINE leaf(i) == holdings[OutputAt[known[i]].addr][x]
           carriers == {i \in DOMAIN known :
                          OutputAt[known[i]].assets[x] > 0 /\ leaf(i).qty > 0}
           qty == Settle(holdings[a][x].qty, UnitsAt(produced, a, x), UnitsAt(known, a, x))
<1>1. \A b \in Addrs : holdings[b][x].qty \in Nat /\ holdings[b][x].mint_slot \in Nat
  BY DEF Holdings, Held
<1>2. qty \in Nat
  BY <1>1, AmountType, SettleType
<1>3. ASSUME carriers # {} PROVE leaf(Min(carriers)).mint_slot \in Nat
  <2>1. carriers \subseteq Nat /\ carriers \subseteq DOMAIN known
    BY LenNat
  <2> DEFINE i == Min(carriers)
  <2>2. i \in DOMAIN known
    <3> HIDE DEF carriers
    <3> QED BY <1>3, <2>1, MinIndex
  <2> HIDE DEF i, carriers
  <2>3. OutputAt[known[i]] \in Output
    BY <2>2, ElementIn, OutputAtType
  <2>4. OutputAt[known[i]].addr \in Addrs
    BY <2>3 DEF Output
  <2> QED BY <1>1, <2>4 DEF i
<1>4. MintSlot(holdings, known, x, slot) \in Nat
  <2>1. MintSlot(holdings, known, x, slot) =
          IF carriers = {} THEN slot ELSE leaf(Min(carriers)).mint_slot
    BY DEF MintSlot
  <2> HIDE DEF carriers, leaf
  <2> QED BY <1>3, <2>1
<1> QED BY <1>1, <1>2, <1>4 DEF BumpHolding, Held

\* A pool after a block.
LEMMA ApplyPoolCertsType ==
  ASSUME NEW pool \in Pool, NEW p, NEW certs \in Seq(PoolCert), NEW issuer
  PROVE  ApplyPoolCerts(pool, p, certs, issuer) \in Pool
BY LastRetirementType DEF ApplyPoolCerts, Pool

GoodSnapshots ==
  {s \in Snapshot : /\ \A r \in Roles : MembersAgree(s.delegations[r])
                    /\ HandlesAgree(s.handles)}

\* A block applied to a good snapshot makes a good snapshot.
LEMMA ApplyBlockKeeps ==
  ASSUME NEW prev \in GoodSnapshots, NEW c \in Seq(Block), NEW b \in Block,
         NEW lost, NEW fetched \in BOOLEAN
  PROVE  ApplyBlock(prev, c, b, lost, fetched) \in GoodSnapshots
<1> DEFINE new == ApplyBlock(prev, c, b, lost, fetched)
           produced == AllOutputs(b.txs)
           inputs == AllInputs(b.txs)
           known == Sift(inputs, ToSet(inputs) \ lost)
           certs == PoolCertsOf(b.txs)
<1>1. /\ prev.slot \in Nat /\ prev.last_epoch \in Nat
      /\ prev.utxos \in SUBSET Refs
      /\ prev.address_balances \in [Addrs -> Nat]
      /\ prev.asset_holdings \in Holdings
      /\ prev.stakes \in [Creds -> Int] /\ prev.rewards \in [Creds -> Int]
      /\ prev.delegations \in [Roles -> Delegations] /\ prev.total_staked \in Int
      /\ prev.pools \in [Pools -> Pool] /\ prev.handles \in HandleMaps
      /\ prev.missed \in SUBSET {"input", "reward", "lag"}
      /\ prev.handles \in GoodHandles
      /\ \A r \in Roles : prev.delegations[r] \in GoodDelegations
  BY DEF GoodSnapshots, Snapshot, Holdings, GoodHandles, GoodDelegations
<1>2. b.slot \in Nat /\ b.txs \in Seq(Txs)
  BY DEF Block
<1>3. /\ produced \in Seq(Refs) /\ inputs \in Seq(Refs) /\ certs \in Seq(PoolCert)
      /\ \A r \in Roles : Changes(b.txs, r) \in Seq(Change)
      /\ \A k \in Creds : Withdrawn(b.txs, k) \in Nat
  BY <1>2, ListType
<1>4. known \in Seq(Refs)
  <2> DEFINE keep == ToSet(inputs) \ lost
  <2>1. Sift(inputs, keep) \in Seq(Refs \cap keep)
    BY <1>3, SiftIn
  <2> HIDE DEF keep, inputs
  <2> QED BY <2>1 DEF keep
<1> HIDE DEF produced, inputs, known, certs
<1>5. Epoch(b.slot) \in Nat
  BY <1>2, RewardType
<1> DEFINE stakes == [k \in Creds |->
                        prev.stakes[k] + AdaOf(produced, k) - AdaOf(known, k)]
           rewards == [k \in Creds |->
                         prev.rewards[k] - Withdrawn(b.txs, k)
                           + RewardDelta(k, prev.last_epoch, Epoch(b.slot), fetched)]
           value == [k \in Creds |-> stakes[k] + rewards[k]]
           delta == DelegationStakeDelta(prev.delegations["pool"].runs,
                                         Changes(b.txs, "pool"), value)
<1>6. stakes \in [Creds -> Int]
  BY <1>1, <1>3, <1>4, AmountType
<1>7. rewards \in [Creds -> Int]
  <2>1. \A k \in Creds : RewardDelta(k, prev.last_epoch, Epoch(b.slot), fetched) \in Nat
    BY <1>5, RewardType DEF RewardDelta
  <2>2. ASSUME NEW k \in Creds
        PROVE  prev.rewards[k] - Withdrawn(b.txs, k)
                 + RewardDelta(k, prev.last_epoch, Epoch(b.slot), fetched) \in Int
    BY <1>1, <1>3, <2>1
  <2> QED BY <2>2, Zenon
<1> HIDE DEF stakes, rewards
<1>8. delta \in Int
  <2> DEFINE changes == Changes(b.txs, "pool")
             runs == prev.delegations["pool"].runs
             term(i) == LET was == runs[changes[i].cred].target # Nobody
                            now == changes[i].target # Nobody
                        IN  IF was = now THEN 0
                            ELSE IF now THEN value[changes[i].cred]
                            ELSE 0 - value[changes[i].cred]
  <2>1. changes \in Seq(Change) /\ value \in [Creds -> Int]
    BY <1>3, <1>6, <1>7 DEF Roles
  <2> HIDE DEF value, changes
  <2>2. ASSUME NEW i \in DOMAIN changes PROVE term(i) \in Int
    <3>0. changes[i] \in Change
      BY <2>1, ElementIn
    <3>1. changes[i].cred \in Creds
      BY <3>0 DEF Change
    <3>2. value[changes[i].cred] \in Int
      BY <2>1, <3>1
    <3> QED BY <3>2
  <2> HIDE DEF term
  <2>3. [i \in DOMAIN changes |-> term(i)] \in Seq(Int)
    BY <2>1, <2>2, LenNat
  <2>4. SumSeq([i \in DOMAIN changes |-> term(i)]) \in Int
    BY <2>3, SumIn
  <2> QED BY <2>4, Zenon DEF DelegationStakeDelta, changes, term
<1> HIDE DEF delta
<1>9. [a \in Addrs |-> Settle(prev.address_balances[a], AdaAt(produced, a), AdaAt(known, a))]
        \in [Addrs -> Nat]
  BY <1>1, <1>3, <1>4, AmountType, SettleType
<1>10. [a \in Addrs |-> [x \in Assets |->
          BumpHolding(prev.asset_holdings, a, x, produced, known, b.slot)]] \in Holdings
  BY <1>1, <1>2, <1>3, <1>4, BumpHoldingType DEF Holdings
<1>11. \A r \in Roles : ApplyDelegationChanges(prev.delegations[r], Changes(b.txs, r), b.slot)
                          \in GoodDelegations
  BY <1>1, <1>2, <1>3, DelegationChangesKeep
<1>12. [p \in Pools |-> ApplyPoolCerts(prev.pools[p], p, certs, b.issuer)] \in [Pools -> Pool]
  BY <1>1, <1>3, ApplyPoolCertsType
<1>13. ApplyHandleUpdates(prev.handles, HandleChanges(produced), ConsumedHandles(known))
         \in GoodHandles
  BY <1>1, <1>3, ChangesAre, HandleUpdatesKeep
<1>14. UpdateUtxos(prev.utxos, ToSet(produced), ToSet(inputs)) \in SUBSET Refs
  <2>1. ToSet(produced) \subseteq Refs
    BY <1>3, ElementIn DEF ToSet
  <2> QED BY <1>1, <2>1 DEF UpdateUtxos
<1>15. Append(c, b) \in Seq(Block)
  OBVIOUS
<1> DEFINE utxos == UpdateUtxos(prev.utxos, ToSet(produced), ToSet(inputs))
           balances == [a \in Addrs |-> Settle(prev.address_balances[a],
                                               AdaAt(produced, a), AdaAt(known, a))]
           holdings == [a \in Addrs |-> [x \in Assets |->
                          BumpHolding(prev.asset_holdings, a, x, produced, known, b.slot)]]
           delegations ==
             [r \in Roles |-> ApplyDelegationChanges(prev.delegations[r],
                                                     Changes(b.txs, r), b.slot)]
           pools == [p \in Pools |-> ApplyPoolCerts(prev.pools[p], p, certs, b.issuer)]
           handles == ApplyHandleUpdates(prev.handles, HandleChanges(produced),
                                         ConsumedHandles(known))
           missed == prev.missed
                       \cup (IF lost # {} THEN {"input"} ELSE {})
                       \cup (IF prev.last_epoch # Epoch(b.slot) /\ ~fetched
                             THEN {"reward"} ELSE {})
           total == prev.total_staked + delta
           hash == Append(c, b)
<1>16. missed \in SUBSET {"input", "reward", "lag"} /\ total \in Int
  BY <1>1, <1>8
<1>17. delegations \in [Roles -> Delegations] /\ \A r \in Roles : MembersAgree(delegations[r])
  BY <1>11 DEF GoodDelegations
<1>18. handles \in HandleMaps /\ HandlesAgree(handles)
  BY <1>13 DEF GoodHandles
<1>19. new = [slot |-> b.slot, hash |-> hash, last_epoch |-> Epoch(b.slot),
              utxos |-> utxos, address_balances |-> balances,
              asset_holdings |-> holdings, stakes |-> stakes, rewards |-> rewards,
              delegations |-> delegations, total_staked |-> total,
              pools |-> pools, handles |-> handles, missed |-> missed]
  BY DEF ApplyBlock, stakes, rewards, delta, produced, inputs, known, certs
<1> HIDE DEF utxos, balances, holdings, delegations, pools, handles, missed, total,
             hash, new
<1>20. /\ utxos \in SUBSET Refs /\ balances \in [Addrs -> Nat]
       /\ holdings \in [Addrs -> [Assets -> Held]] /\ pools \in [Pools -> Pool]
       /\ hash \in Seq(Block)
  BY <1>9, <1>10, <1>12, <1>14, <1>15 DEF utxos, balances, holdings, pools, hash, Holdings
<1>21. new \in Snapshot
  BY <1>2, <1>5, <1>6, <1>7, <1>16, <1>17, <1>18, <1>19, <1>20 DEF Snapshot
<1>22. new.delegations = delegations /\ new.handles = handles
  BY <1>19
<1> QED BY <1>17, <1>18, <1>21, <1>22 DEF GoodSnapshots, new

\* So does a reset.
LEMMA ResetKeeps ==
  ASSUME NEW c \in Seq(Block), NEW slot \in Nat,
         NEW missed \in SUBSET {"input", "reward", "lag"}
  PROVE  ResetSnapshot(c, slot, missed) \in GoodSnapshots
<1> DEFINE stored == UpTo(c, slot)
           stakes == DbStakes(stored)
           units == DbUnits(stored)
           rewards == [k \in Creds |-> DbRewards(stored, Epoch(slot), k)]
           delegations == [r \in Roles |-> DbDelegations(stored, r)]
           value == [k \in Creds |-> stakes[k] + rewards[k]]
           total == TotalStaked(delegations["pool"].runs, value)
           holdings == [a \in Addrs |-> [x \in Assets |->
                          IF units[a][x] = 0 THEN [qty |-> 0, mint_slot |-> 0]
                          ELSE [qty |-> units[a][x], mint_slot |-> DbFirstMint(c, x)]]]
           handles == HandleMapsFor([h \in Handles |-> DbHandleOwner(c, h)])
           pools == [p \in Pools |-> DbPool(stored, p)]
           balances == DbBalances(stored)
           new == ResetSnapshot(c, slot, missed)
<1>1. stored \in Seq(Block)
  <2> DEFINE keep == {b \in ToSet(c) : b.slot <= slot}
  <2>1. Sift(c, keep) \in Seq(Block \cap keep)
    BY SiftIn
  <2> HIDE DEF keep
  <2>2. Sift(c, keep) \in Seq(Block)
    BY <2>1
  <2> QED BY <2>2 DEF UpTo, keep
<1> HIDE DEF stored
<1>2. Epoch(slot) \in Nat
  BY RewardType
<1>3. /\ stakes \in [Creds -> Nat] /\ units \in [Addrs -> [Assets -> Nat]]
      /\ balances \in [Addrs -> Nat]
  BY <1>1, ScanType
<1> HIDE DEF stakes, units, balances
<1>4. rewards \in [Creds -> Int]
  BY <1>1, <1>2, RewardType
<1>5. \A r \in Roles : delegations[r] \in GoodDelegations
  BY <1>1, DbDelegationsKeep
<1>6. delegations \in [Roles -> Delegations] /\ \A r \in Roles : MembersAgree(delegations[r])
  BY <1>5 DEF GoodDelegations
<1> HIDE DEF rewards, delegations
<1>7. total \in Int
  <2> DEFINE S == {k \in Creds : delegations["pool"].runs[k].target # Nobody}
             staked == SetToSeq(S)
  <2>0. value \in [Creds -> Int]
    BY <1>3, <1>4
  <2> HIDE DEF value
  <2>1. IsFiniteSet(S) /\ S \subseteq Creds
    BY NamesAssumption, FS_Subset
  <2> HIDE DEF S
  <2>2. SetToSeq(S) \in Seq(S)
    BY <2>1, SetToSeqIn
  <2>3. staked \in Seq(Creds)
    BY <2>1, <2>2 DEF S
  <2> HIDE DEF staked
  <2>4. [i \in DOMAIN staked |-> value[staked[i]]] \in Seq(Int)
    <3>1. ASSUME NEW i \in DOMAIN staked
          PROVE  value[staked[i]] \in Int
      <4>1. staked[i] \in Creds
        BY <2>3, ElementIn
      <4> QED BY <2>0, <4>1
    <3> QED BY <2>3, <3>1, LenNat
  <2>5. SumSeq([i \in DOMAIN staked |-> value[staked[i]]]) \in Int
    BY <2>4, SumIn
  <2> QED BY <2>5 DEF TotalStaked, staked, S
<1>8. holdings \in [Addrs -> [Assets -> Held]]
  BY <1>3, FirstMintType DEF Held
<1>9. handles \in GoodHandles
  BY HandleOwnerType, HandleMapsForKeeps
<1>10. handles \in HandleMaps /\ HandlesAgree(handles)
  BY <1>9 DEF GoodHandles
<1>11. pools \in [Pools -> Pool]
  BY <1>1, DbPoolType DEF Pool
<1>12. SlotInfo(c, slot) \in Seq(Block)
  <2> DEFINE some == {i \in DOMAIN stored : stored[i].txs # <<>>}
  <2>1. some \subseteq 0..Len(stored) /\ Len(stored) \in Nat /\ DOMAIN stored = 1..Len(stored)
    BY <1>1, LenNat
  <2>2. CASE some = {}
    BY <2>2 DEF SlotInfo, stored
  <2>3. CASE some # {}
    <3>1. SlotInfo(c, slot) = SubSeq(stored, 1, Max(some))
      BY <2>3 DEF SlotInfo, stored
    <3> DEFINE m == Max(some)
    <3>2. m \in 1..Len(stored)
      <4>1. m \in some
        <5> HIDE DEF some
        <5> QED BY <2>1, <2>3, MaxIndex
      <4> HIDE DEF m
      <4> QED BY <2>1, <4>1
    <3> HIDE DEF m, some
    <3>3. SubSeq(stored, 1, m) \in Seq(Block)
      BY <1>1, <3>2
    <3> QED BY <3>1, <3>3 DEF m
  <2> QED BY <2>2, <2>3
<1>13. new = [slot |-> slot, hash |-> SlotInfo(c, slot), last_epoch |-> Epoch(slot),
              utxos |-> {}, address_balances |-> balances, asset_holdings |-> holdings,
              stakes |-> stakes, rewards |-> rewards, delegations |-> delegations,
              total_staked |-> total, pools |-> pools, handles |-> handles,
              missed |-> missed]
  BY DEF ResetSnapshot, stored, stakes, units, balances, rewards, delegations
<1> HIDE DEF total, holdings, handles, pools, new
<1>14. new \in Snapshot
  BY <1>2, <1>3, <1>4, <1>6, <1>7, <1>8, <1>10, <1>11, <1>12, <1>13 DEF Snapshot
<1>15. new.delegations = delegations /\ new.handles = handles
  BY <1>13
<1> QED BY <1>6, <1>10, <1>14, <1>15 DEF GoodSnapshots, new

-----------------------------------------------------------------------------
(* Money *)

\* The money a snapshot shows is that of the ledger of c, or no less when an
\* input was not resolved.
HoldsMoney(s, c) ==
  LET exact == "input" \notin s.missed
  IN  /\ \A a \in Addrs : Covers(exact, s.address_balances[a], DbBalances(c)[a])
      /\ \A a \in Addrs, x \in Assets :
           Covers(exact, s.asset_holdings[a][x].qty, DbUnits(c)[a][x])
      /\ \A k \in Creds : Covers(exact, s.stakes[k], DbStakes(c)[k])

\* A balance that covers the ledger's is not cut at zero when it is settled.
LEMMA SettleCovers ==
  ASSUME NEW exact \in BOOLEAN, NEW kept \in Nat, NEW credit \in Nat, NEW debit \in Nat,
         NEW real \in Nat, Covers(exact, kept + credit - debit, real)
  PROVE  Covers(exact, Settle(kept, credit, debit), real)
BY DEF Covers, Settle

\* A block keeps the money.
LEMMA BlockKeepsMoney ==
  ASSUME NEW prev \in GoodSnapshots, NEW c \in Seq(Block), NEW b \in Block,
         LegalOrder(TxsOf(c)), LegalOrder(TxsOf(c) \o b.txs),
         HoldsMoney(prev, c), NEW lost, NEW fetched \in BOOLEAN
  PROVE  HoldsMoney(ApplyBlock(prev, c, b, lost, fetched), Append(c, b))
<1> DEFINE new == ApplyBlock(prev, c, b, lost, fetched)
           d == Append(c, b)
           u == TxsOf(c)
           v == b.txs
           produced == AllOutputs(v)
           inputs == AllInputs(v)
           known == Sift(inputs, ToSet(inputs) \ lost)
           exact == "input" \notin new.missed
           was == "input" \notin prev.missed
<1>1. /\ prev.address_balances \in [Addrs -> Nat]
      /\ prev.asset_holdings \in [Addrs -> [Assets -> Held]]
      /\ prev.stakes \in [Creds -> Int]
  BY DEF GoodSnapshots, Snapshot
<1>2. u \in Seq(Txs) /\ v \in Seq(Txs) /\ d \in Seq(Block) /\ TxsOf(d) = u \o v
  <2>1. u \in Seq(Txs)
    BY ChainTxsType
  <2>2. v \in Seq(Txs)
    BY DEF Block
  <2>3. d \in Seq(Block)
    OBVIOUS
  <2> QED BY <2>1, <2>2, <2>3, ChainAppend
<1>3. produced \in Seq(Refs) /\ inputs \in Seq(Refs)
  <2> HIDE DEF v
  <2> QED BY <1>2, ListType
<1>4. known \in Seq(Refs)
  <2> DEFINE keep == ToSet(inputs) \ lost
  <2>1. Sift(inputs, keep) \in Seq(Refs \cap keep)
    BY <1>3, SiftIn
  <2> HIDE DEF keep, inputs
  <2> QED BY <2>1 DEF keep
<1>5. /\ exact \in BOOLEAN /\ was \in BOOLEAN
      /\ exact => was /\ lost = {}
  <2>1. /\ prev.missed \subseteq new.missed
        /\ lost # {} => "input" \in new.missed
    BY DEF ApplyBlock
  <2> HIDE DEF new
  <2> QED BY <2>1
<1>6. /\ \A a \in Addrs : new.address_balances[a] =
           Settle(prev.address_balances[a], AdaAt(produced, a), AdaAt(known, a))
      /\ \A k \in Creds : new.stakes[k] =
           prev.stakes[k] + AdaOf(produced, k) - AdaOf(known, k)
  BY DEF ApplyBlock
<1>7. \A a \in Addrs, x \in Assets : new.asset_holdings[a][x].qty =
        Settle(prev.asset_holdings[a][x].qty, UnitsAt(produced, a, x), UnitsAt(known, a, x))
  <2> SUFFICES ASSUME NEW a \in Addrs, NEW x \in Assets
      PROVE new.asset_holdings[a][x].qty =
        Settle(prev.asset_holdings[a][x].qty, UnitsAt(produced, a, x), UnitsAt(known, a, x))
    OBVIOUS
  <2>1. new.asset_holdings[a][x] = BumpHolding(prev.asset_holdings, a, x, produced, known, b.slot)
    BY DEF ApplyBlock
  <2> HIDE DEF new, produced, known
  <2> QED BY <2>1 DEF BumpHolding
<1>8. /\ \A a \in Addrs : Covers(was, prev.address_balances[a], DbBalances(c)[a])
      /\ \A a \in Addrs, x \in Assets :
           Covers(was, prev.asset_holdings[a][x].qty, DbUnits(c)[a][x])
      /\ \A k \in Creds : Covers(was, prev.stakes[k], DbStakes(c)[k])
  BY DEF HoldsMoney
<1> DEFINE value(val) == Worth(Unspent(u), val)
           after(val) == Worth(Unspent(u \o v), val)
<1>9. ASSUME NEW val \in [Refs -> Nat], NEW kept \in Int, Covers(was, kept, value(val))
      PROVE  /\ Worth(produced, val) \in Nat /\ Worth(known, val) \in Nat /\ after(val) \in Nat
             /\ Covers(exact, kept + Worth(produced, val) - Worth(known, val), after(val))
  <2>1. Covers(exact, kept, value(val))
    BY <1>5, <1>9 DEF Covers
  <2> HIDE DEF exact, was
  <2> QED BY <1>2, <1>5, <2>1, BlockWorth
<1> HIDE DEF exact, was, produced, inputs, known, new, u, v, d
<1>10. ASSUME NEW a \in Addrs
       PROVE  Covers(exact, new.address_balances[a], DbBalances(d)[a])
  <2> DEFINE val == AdaValue(a)
             kept == prev.address_balances[a]
  <2>1. val \in [Refs -> Nat] /\ AdaAt(produced, a) = Worth(produced, val)
        /\ AdaAt(known, a) = Worth(known, val)
    BY <1>3, <1>4, AmountWorth
  <2>2. DbBalances(c)[a] = value(val) /\ DbBalances(d)[a] = after(val)
    BY <1>2, ScanWorth DEF u
  <2>3. kept \in Nat /\ kept \in Int
    BY <1>1
  <2>4. Covers(was, kept, value(val))
    BY <1>8, <2>2
  <2> HIDE DEF val, kept, value, after
  <2>5. /\ Worth(produced, val) \in Nat /\ Worth(known, val) \in Nat /\ after(val) \in Nat
        /\ Covers(exact, kept + Worth(produced, val) - Worth(known, val), after(val))
    BY <1>9, <2>1, <2>3, <2>4
  <2>6. Covers(exact, Settle(kept, Worth(produced, val), Worth(known, val)), after(val))
    BY <1>5, <2>3, <2>5, SettleCovers
  <2> QED BY <1>6, <2>1, <2>2, <2>6 DEF kept
<1>11. ASSUME NEW a \in Addrs, NEW x \in Assets
       PROVE  Covers(exact, new.asset_holdings[a][x].qty, DbUnits(d)[a][x])
  <2> DEFINE val == UnitValue(a, x)
             kept == prev.asset_holdings[a][x].qty
  <2>1. val \in [Refs -> Nat] /\ UnitsAt(produced, a, x) = Worth(produced, val)
        /\ UnitsAt(known, a, x) = Worth(known, val)
    BY <1>3, <1>4, AmountWorth
  <2>2. DbUnits(c)[a][x] = value(val) /\ DbUnits(d)[a][x] = after(val)
    BY <1>2, ScanWorth DEF u
  <2>3. kept \in Nat /\ kept \in Int
    BY <1>1 DEF Held
  <2>4. Covers(was, kept, value(val))
    BY <1>8, <2>2
  <2> HIDE DEF val, kept, value, after
  <2>5. /\ Worth(produced, val) \in Nat /\ Worth(known, val) \in Nat /\ after(val) \in Nat
        /\ Covers(exact, kept + Worth(produced, val) - Worth(known, val), after(val))
    BY <1>9, <2>1, <2>3, <2>4
  <2>6. Covers(exact, Settle(kept, Worth(produced, val), Worth(known, val)), after(val))
    BY <1>5, <2>3, <2>5, SettleCovers
  <2> QED BY <1>7, <2>1, <2>2, <2>6 DEF kept
<1>12. ASSUME NEW k \in Creds PROVE Covers(exact, new.stakes[k], DbStakes(d)[k])
  <2> DEFINE val == BackedValue(k)
             kept == prev.stakes[k]
  <2>1. val \in [Refs -> Nat] /\ AdaOf(produced, k) = Worth(produced, val)
        /\ AdaOf(known, k) = Worth(known, val)
    BY <1>3, <1>4, AmountWorth
  <2>2. DbStakes(c)[k] = value(val) /\ DbStakes(d)[k] = after(val)
    BY <1>2, ScanWorth DEF u
  <2>3. kept \in Int /\ Covers(was, kept, value(val))
    BY <1>1, <1>8, <2>2
  <2> HIDE DEF val, kept, value, after
  <2>4. Covers(exact, kept + Worth(produced, val) - Worth(known, val), after(val))
    BY <1>9, <2>1, <2>3
  <2> QED BY <1>6, <2>1, <2>2, <2>4 DEF kept
<1> QED BY <1>10, <1>11, <1>12 DEF HoldsMoney, exact, new, d

\* A reset reads the money from the chain it sees.
LEMMA ResetHoldsMoney ==
  ASSUME NEW db \in Seq(Block), NEW slot, NEW missed, UpTo(db, slot) \in Seq(Block)
  PROVE  HoldsMoney(ResetSnapshot(db, slot, missed), UpTo(db, slot))
<1> DEFINE c == UpTo(db, slot)
           new == ResetSnapshot(db, slot, missed)
<1>1. /\ \A a \in Addrs : DbBalances(c)[a] \in Nat
      /\ \A a \in Addrs, x \in Assets : DbUnits(c)[a][x] \in Nat
      /\ \A k \in Creds : DbStakes(c)[k] \in Nat
  BY ScanType
<1>2. /\ \A a \in Addrs : new.address_balances[a] = DbBalances(c)[a]
      /\ \A k \in Creds : new.stakes[k] = DbStakes(c)[k]
  BY DEF ResetSnapshot
<1>3. \A a \in Addrs, x \in Assets : new.asset_holdings[a][x].qty = DbUnits(c)[a][x]
  BY DEF ResetSnapshot
<1> HIDE DEF new, c
<1> QED BY <1>1, <1>2, <1>3 DEF HoldsMoney, Covers, new, c

-----------------------------------------------------------------------------
(* Rewards *)

\* The rewards a snapshot shows are the ledger's, when all were fetched.
HoldsRewards(s, c) ==
  "reward" \notin s.missed =>
    \A k \in Creds : s.rewards[k] = DbRewards(c, s.last_epoch, k)

\* A block keeps the rewards.
LEMMA BlockKeepsRewards ==
  ASSUME NEW prev \in GoodSnapshots, NEW c \in Seq(Block), NEW b \in Block,
         NEW slot \in Nat, prev.last_epoch = Epoch(slot), b.slot > slot,
         Epoch(b.slot) <= Epoch(slot) + 1,
         HoldsRewards(prev, c), NEW lost, NEW fetched \in BOOLEAN
  PROVE  HoldsRewards(ApplyBlock(prev, c, b, lost, fetched), Append(c, b))
<1> DEFINE new == ApplyBlock(prev, c, b, lost, fetched)
           e == Epoch(slot)
           f == Epoch(b.slot)
           u == TxsOf(c)
           v == b.txs
<1>1. SUFFICES ASSUME "reward" \notin new.missed, NEW k \in Creds
               PROVE  new.rewards[k] = DbRewards(Append(c, b), new.last_epoch, k)
  BY DEF HoldsRewards
<1>2. /\ "reward" \notin prev.missed
      /\ e # f => fetched
  <2>1. /\ prev.missed \subseteq new.missed
        /\ (e # f /\ ~fetched) => "reward" \in new.missed
    BY DEF ApplyBlock
  <2> HIDE DEF new
  <2> QED BY <1>1, <2>1
<1>3. /\ new.last_epoch = f
      /\ new.rewards[k] = prev.rewards[k] - Withdrawn(v, k) + RewardDelta(k, e, f, fetched)
  BY DEF ApplyBlock
<1>4. u \in Seq(Txs) /\ v \in Seq(Txs)
  <2>1. u \in Seq(Txs)
    BY ChainTxsType
  <2>2. v \in Seq(Txs)
    BY DEF Block
  <2> QED BY <2>1, <2>2
<1>5. Withdrawn(TxsOf(Append(c, b)), k) = Withdrawn(u, k) + Withdrawn(v, k)
  <2> HIDE DEF u, v
  <2>1. TxsOf(Append(c, b)) = u \o v
    BY ChainAppend DEF u, v
  <2>2. Withdrawn(u \o v, k) = Withdrawn(u, k) + Withdrawn(v, k)
    BY <1>4, ListConcat
  <2> QED BY <2>1, <2>2
<1>6. prev.rewards[k] = EarnedBy(k, e) - Withdrawn(u, k)
  BY <1>2 DEF HoldsRewards, DbRewards
<1>7. DbRewards(Append(c, b), f, k) = EarnedBy(k, f) - Withdrawn(TxsOf(Append(c, b)), k)
  BY DEF DbRewards
<1>8. Withdrawn(u, k) \in Nat /\ Withdrawn(v, k) \in Nat
  <2> HIDE DEF u, v
  <2> QED BY <1>4, ListType
<1>9. e \in Nat /\ f \in Nat /\ b.slot \in Nat
  BY RewardType DEF Block
<1>10. e <= f
  BY <1>9, EpochMonotone
<1> HIDE DEF new, e, f, u, v
<1>11. EarnedBy(k, f) = EarnedBy(k, e) + RewardDelta(k, e, f, fetched)
       /\ EarnedBy(k, e) \in Nat /\ RewardDelta(k, e, f, fetched) \in Nat
  <2>0. EarnedBy(k, e) \in Nat
    BY <1>9, EarnedStep
  <2>1. CASE e = f
    BY <2>0, <2>1 DEF RewardDelta
  <2>2. CASE e # f
    <3>1. f = e + 1
      BY <1>9, <1>10, <2>2 DEF e, f
    <3>2. /\ EarnedBy(k, e + 1) = EarnedBy(k, e) + EarnedIn(k, e + 1)
          /\ EarnedIn(k, e + 1) \in Nat
      BY <1>9, EarnedStep
    <3>3. RewardDelta(k, e, f, fetched) = EarnedIn(k, f)
      BY <1>2, <2>2 DEF RewardDelta
    <3> QED BY <2>0, <3>1, <3>2, <3>3
  <2> QED BY <2>1, <2>2
<1> QED BY <1>3, <1>5, <1>6, <1>7, <1>8, <1>11

\* A reset reads the rewards from the chain it sees.
LEMMA ResetHoldsRewards ==
  ASSUME NEW db, NEW slot, NEW missed
  PROVE  HoldsRewards(ResetSnapshot(db, slot, missed), UpTo(db, slot))
BY DEF HoldsRewards, ResetSnapshot

-----------------------------------------------------------------------------
(* Delegation runs *)

\* One more change is one more iteration.
LEMMA DelegationStep ==
  ASSUME NEW d \in GoodDelegations, NEW slot \in Nat
  PROVE  /\ ApplyDelegationChanges(d, <<>>, slot) = d
         /\ \A s \in Seq(Change), x \in Change :
              ApplyDelegationChanges(d, Append(s, x), slot) =
                Delegate(ApplyDelegationChanges(d, s, slot), x, slot)
<1> DEFINE S == GoodDelegations
           step == DelegateStep(slot)
<1>1. ASSUME NEW s \in Seq(Change), Len(s) = 0
      PROVE  ApplyDelegationChanges(d, s, slot) = d
  <2>1. PICK f : /\ IsLoop(f, d, step, s, S)
                 /\ ApplyDelegationChanges(d, s, slot) = f[Len(s)]
    BY DelegationLoop
  <2> QED BY <1>1, <2>1 DEF IsLoop
<1>2. <<>> \in Seq(Change) /\ Len(<<>>) = 0
  OBVIOUS
<1>3. ASSUME NEW s \in Seq(Change), NEW x \in Change
      PROVE  ApplyDelegationChanges(d, Append(s, x), slot) =
               Delegate(ApplyDelegationChanges(d, s, slot), x, slot)
  <2> DEFINE r == Append(s, x)
  <2>1. r \in Seq(Change) /\ Len(r) = Len(s) + 1
    BY AppendIs
  <2> HIDE DEF r
  <2>2. PICK f : /\ IsLoop(f, d, step, s, S)
                 /\ ApplyDelegationChanges(d, s, slot) = f[Len(s)]
    BY DelegationLoop
  <2>3. PICK g : /\ IsLoop(g, d, step, r, S)
                 /\ ApplyDelegationChanges(d, r, slot) = g[Len(s) + 1]
    BY <2>1, DelegationLoop
  <2>4. /\ step \in [S -> [Change -> S]]
        /\ \A a \in S, e \in Change : step[a][e] = Delegate(a, e, slot)
    BY DelegateKeeps DEF DelegateStep
  <2>5. f[Len(s)] \in S
    <3>1. Len(s) \in 0..Len(s)
      BY LenNat
    <3> QED BY <2>2, <3>1 DEF IsLoop
  <2> HIDE DEF step, S
  <2>6. d \in S /\ IsLoop(g, d, step, Append(s, x), S)
    BY <2>3 DEF S, r
  <2>7. g[Len(s) + 1] = step[f[Len(s)]][x]
    BY <2>2, <2>6, LoopAppend
  <2> QED BY <2>2, <2>3, <2>4, <2>5, <2>7 DEF r
<1> QED BY <1>1, <1>2, <1>3

\* The runs a snapshot shows are those db-sync reads from the certificates.
HoldsRuns(s, c) ==
  \A r \in Roles, k \in Creds : s.delegations[r].runs[k] = DbRun(c, r, k)

\* Changes applied one by one make the run of all the events together.
LEMMA ChangesMakeRun ==
  ASSUME NEW d \in GoodDelegations, NEW slot \in Nat, NEW k \in Creds,
         NEW ev \in Seq(Event), d.runs[k] = RunOf(ev), NEW changes \in Seq(Change)
  PROVE  ApplyDelegationChanges(d, changes, slot).runs[k]
           = RunOf(ev \o OwnEvents(changes, k, slot))
<1> DEFINE after(s) == ApplyDelegationChanges(d, s, slot)
           own(s) == OwnEvents(s, k, slot)
           W == {s \in Seq(Change) : after(s).runs[k] = RunOf(ev \o own(s))}
<1>1. after(<<>>) = d /\ \A s \in Seq(Change), x \in Change :
                           after(Append(s, x)) = Delegate(after(s), x, slot)
  BY DelegationStep
<1>2. \A s \in Seq(Change) : after(s) \in GoodDelegations
  BY DelegationChangesKeep
<1>3. /\ own(<<>>) = <<>>
      /\ \A s \in Seq(Change) : own(s) \in Seq(Event)
      /\ \A s \in Seq(Change), x \in Change :
           own(Append(s, x)) = IF x.cred = k
                               THEN Append(own(s), [target |-> x.target, slot |-> slot])
                               ELSE own(s)
  BY OwnEventsAppend
<1>4. <<>> \in W
  <2>1. ev \o <<>> = ev /\ <<>> \in Seq(Change)
    OBVIOUS
  <2> QED BY <1>1, <1>3, <2>1
<1> HIDE DEF after, own
<1>5. ASSUME NEW s \in Seq(Change), NEW x \in Change, s \in W PROVE Append(s, x) \in W
  <2> DEFINE old == after(s)
             all == ev \o own(s)
             e == [target |-> x.target, slot |-> slot]
             r == Append(s, x)
  <2>1. r \in Seq(Change) /\ old.runs[k] = RunOf(all)
    BY <1>5
  <2>2. old.runs \in [Creds -> Run] /\ x.cred \in Creds
    BY <1>2 DEF GoodDelegations, Delegations, Change
  <2>3. own(s) \in Seq(Event) /\ e \in Event
    BY <1>3 DEF Change, Event
  <2>4. all \in Seq(Event) /\ ev \o Append(own(s), e) = Append(all, e)
    <3> HIDE DEF e
    <3> QED BY <2>3
  <2>5. Delegate(old, x, slot).runs[k] =
          IF x.cred # k THEN old.runs[k]
          ELSE IF x.target = Nobody THEN NoRun
          ELSE [target |-> x.target,
                since_slot |-> IF old.runs[k].target = x.target THEN old.runs[k].since_slot
                               ELSE slot]
    <3> HIDE DEF old
    <3> QED BY <2>2 DEF Delegate
  <2>6. after(r) = Delegate(old, x, slot)
    BY <1>1
  <2>7. own(r) = IF x.cred = k THEN Append(own(s), e) ELSE own(s)
    BY <1>3
  <2>8. RunOf(Append(all, e)) =
           IF e.target = Nobody THEN NoRun
           ELSE [target |-> e.target,
                 since_slot |-> IF RunOf(all).target = e.target THEN RunOf(all).since_slot
                                ELSE e.slot]
    <3> HIDE DEF all, e
    <3> QED BY <2>3, <2>4, RunOfAppend
  <2>9. e.target = x.target /\ e.slot = slot
    OBVIOUS
  <2> HIDE DEF old, all, e, r
  <2>10. after(r).runs[k] = RunOf(ev \o own(r))
    <3>1. CASE x.cred = k
      BY <2>1, <2>4, <2>5, <2>6, <2>7, <2>8, <2>9, <3>1
    <3>2. CASE x.cred # k
      BY <2>1, <2>5, <2>6, <2>7, <3>2 DEF all
    <3> QED BY <3>1, <3>2
  <2> QED BY <2>1, <2>10 DEF r
<1> HIDE DEF W
<1>6. \A s \in Seq(Change) : s \in W
  BY <1>4, <1>5, BuiltUp
<1> QED BY <1>6 DEF W, after, own

\* A block keeps the runs.
LEMMA BlockKeepsRuns ==
  ASSUME NEW prev \in GoodSnapshots, NEW c \in Seq(Block), NEW b \in Block,
         HoldsRuns(prev, c), NEW lost, NEW fetched
  PROVE  HoldsRuns(ApplyBlock(prev, c, b, lost, fetched), Append(c, b))
<1> DEFINE new == ApplyBlock(prev, c, b, lost, fetched)
<1>1. SUFFICES ASSUME NEW r \in Roles, NEW k \in Creds
               PROVE  new.delegations[r].runs[k] = DbRun(Append(c, b), r, k)
  BY DEF HoldsRuns
<1> DEFINE ev == DelegationEvents(c, r, k)
           d == prev.delegations[r]
           changes == Changes(b.txs, r)
<1>2. new.delegations[r] = ApplyDelegationChanges(d, changes, b.slot)
  BY DEF ApplyBlock
<1>3. d \in GoodDelegations
  BY DEF GoodSnapshots, GoodDelegations, Snapshot
<1>4. b.slot \in Nat /\ b.txs \in Seq(Txs)
  BY DEF Block
<1>5. changes \in Seq(Change) /\ ev \in Seq(Event)
  <2>1. changes \in Seq(Change)
    BY <1>4, ListType
  <2>2. ev \in Seq(Event)
    BY ChainEvents
  <2> QED BY <2>1, <2>2
<1>6. d.runs[k] = RunOf(ev)
  BY DEF HoldsRuns, DbRun
<1>7. DelegationEvents(Append(c, b), r, k) = ev \o OwnEvents(changes, k, b.slot)
  BY ChainEvents
<1> HIDE DEF ev, d, changes
<1>8. ApplyDelegationChanges(d, changes, b.slot).runs[k]
        = RunOf(ev \o OwnEvents(changes, k, b.slot))
  BY <1>3, <1>4, <1>5, <1>6, ChangesMakeRun
<1> QED BY <1>2, <1>7, <1>8 DEF DbRun

\* A reset reads the runs from the chain it sees.
LEMMA ResetHoldsRuns ==
  ASSUME NEW db, NEW slot, NEW missed
  PROVE  HoldsRuns(ResetSnapshot(db, slot, missed), UpTo(db, slot))
BY DEF HoldsRuns, ResetSnapshot, DbDelegations, DelegationsOf

-----------------------------------------------------------------------------
(* Pools *)

\* The block's certificates make of a pool what db-sync then answers, unless
\* they both register and retire it.
LEMMA PoolAppend ==
  ASSUME NEW c \in Seq(Block), NEW b \in Block, NEW p, IssuersKnown(c),
         ~ \A reg \in BOOLEAN : Names(PoolCertsOf(b.txs), p, reg)
  PROVE  ApplyPoolCerts(DbPool(c, p), p, PoolCertsOf(b.txs), b.issuer)
           = DbPool(Append(c, b), p)
<1> DEFINE certs == PoolCertsOf(b.txs)
           u == TxsOf(c)
           v == b.txs
           w == TxsOf(Append(c, b))
           here == Cardinality({i \in DOMAIN c : c[i].issuer = p})
           one == IF b.issuer = p THEN 1 ELSE 0
           none == [known |-> FALSE, retiring |-> 0, blocks |-> 0]
           registered == \E i \in DOMAIN certs : certs[i].pool = p /\ certs[i].retiring = 0
           UT == Announced(u, p, TRUE)
           VT == Announced(v, p, TRUE)
           VF == Announced(v, p, FALSE)
           WT == Announced(w, p, TRUE)
<1>1. u \in Seq(Txs) /\ Append(c, b) \in Seq(Block)
  BY ChainTxsType
<1>2. v \in Seq(Txs)
  BY DEF Block
<1>3. w = u \o v
  BY ChainAppend
<1>4. /\ VT # {} <=> registered
      /\ VF # {} <=> Retirements(certs, p) # {}
      /\ VT = {} \/ VF = {}
  <2>1. /\ VT # {} <=> Names(certs, p, TRUE)
        /\ VF # {} <=> Names(certs, p, FALSE)
    BY <1>2, AnnouncedSome
  <2>2. /\ Names(certs, p, TRUE) <=> registered
        /\ Names(certs, p, FALSE) <=> Retirements(certs, p) # {}
    BY NamesIs
  <2>3. ~(Names(certs, p, TRUE) /\ Names(certs, p, FALSE))
    OBVIOUS
  <2> QED BY <2>1, <2>2, <2>3
<1>5. DbPool(c, p) = IF UT = {} THEN none
                     ELSE [known |-> TRUE, retiring |-> Pending(u, p), blocks |-> here]
  BY DbPoolIs DEF Pending
<1>6. DbPool(Append(c, b), p)
        = IF WT = {} THEN none
          ELSE [known |-> TRUE, retiring |-> Pending(w, p),
                blocks |-> Cardinality({i \in DOMAIN Append(c, b) : Append(c, b)[i].issuer = p})]
  <2> DEFINE d == Append(c, b)
  <2> HIDE DEF d
  <2>1. DbPool(d, p) = IF Announced(TxsOf(d), p, TRUE) = {} THEN none
                       ELSE [known |-> TRUE, retiring |-> Pending(TxsOf(d), p),
                             blocks |-> Cardinality({i \in DOMAIN d : d[i].issuer = p})]
    BY <1>1, DbPoolIs DEF Pending, d
  <2> QED BY <2>1 DEF d
<1>7. Cardinality({i \in DOMAIN Append(c, b) : Append(c, b)[i].issuer = p}) = here + one
  BY MintedAppend
<1>8. /\ WT = {} <=> UT = {} /\ VT = {}
      /\ VT # {} => Pending(w, p) = 0
      /\ UT # {} /\ VT = {} =>
           Pending(w, p) = IF VF = {} THEN Pending(u, p) ELSE LastRetirement(certs, p)
  <2>1. VT = {} \/ VF = {}
    BY <1>4
  <2> HIDE DEF u
  <2>2. /\ Announced(u \o v, p, TRUE) = {} <=> UT = {} /\ VT = {}
        /\ VT # {} => Pending(u \o v, p) = 0
        /\ UT # {} /\ VT = {} =>
             Pending(u \o v, p) = IF VF = {} THEN Pending(u, p) ELSE LastRetirement(certs, p)
    BY <1>1, <1>2, <2>1, PendingConcat
  <2> HIDE DEF w
  <2> QED BY <1>3, <2>2
<1>9. UT = {} => here = 0
  <2>1. ASSUME UT = {} PROVE {i \in DOMAIN c : c[i].issuer = p} = {}
    BY <1>5, <2>1, UnknownMintsNothing
  <2> QED BY <2>1, FS_EmptySet
<1> DEFINE pool == DbPool(c, p)
<1>10. ApplyPoolCerts(pool, p, certs, b.issuer)
         = IF ~pool.known /\ ~registered THEN pool
           ELSE [known |-> TRUE,
                 retiring |-> IF Retirements(certs, p) # {} THEN LastRetirement(certs, p)
                              ELSE IF registered THEN 0 ELSE pool.retiring,
                 blocks |-> pool.blocks + one]
  BY DEF ApplyPoolCerts
<1> HIDE DEF certs, u, v, w, here, one, registered, UT, VT, VF, WT, pool
<1>11. pool = IF UT = {} THEN none
              ELSE [known |-> TRUE, retiring |-> Pending(u, p), blocks |-> here]
  BY <1>5 DEF pool
<1>12. DbPool(Append(c, b), p)
        = IF WT = {} THEN none
          ELSE [known |-> TRUE, retiring |-> Pending(w, p), blocks |-> here + one]
  BY <1>6, <1>7
<1>13. ApplyPoolCerts(pool, p, certs, b.issuer) = DbPool(Append(c, b), p)
  <2>1. CASE UT = {}
    <3>1. pool = none /\ ~pool.known /\ pool.blocks = here
      BY <1>9, <1>11, <2>1
    <3>2. CASE VT = {}
      BY <1>4, <1>8, <1>10, <1>12, <2>1, <3>1, <3>2
    <3>3. CASE VT # {}
      BY <1>4, <1>8, <1>10, <1>12, <2>1, <3>1, <3>3
    <3> QED BY <3>2, <3>3
  <2>2. CASE UT # {}
    <3>1. pool.known /\ pool.retiring = Pending(u, p) /\ pool.blocks = here
      BY <1>11, <2>2
    <3>2. CASE VT = {}
      BY <1>4, <1>8, <1>10, <1>12, <2>2, <3>1, <3>2
    <3>3. CASE VT # {}
      BY <1>4, <1>8, <1>10, <1>12, <2>2, <3>1, <3>3
    <3> QED BY <3>2, <3>3
  <2> QED BY <2>1, <2>2
<1> QED BY <1>13 DEF pool, certs

-----------------------------------------------------------------------------
(* Unspent outputs *)

\* A block leaves in the cache nothing it spent, and all it did not.
LEMMA BlockKeepsUtxos ==
  ASSUME NEW prev, NEW c \in Seq(Block), NEW b \in Block,
         LegalOrder(TxsOf(c)), LegalOrder(TxsOf(c) \o b.txs),
         prev.utxos \subseteq There(c), NEW lost, NEW fetched
  PROVE  LET s == ApplyBlock(prev, c, b, lost, fetched)
         IN  /\ s.utxos \subseteq There(Append(c, b))
             /\ \A old : There(c) \ old \subseteq prev.utxos =>
                           There(Append(c, b)) \ old \subseteq s.utxos
<1> DEFINE s == ApplyBlock(prev, c, b, lost, fetched)
           u == TxsOf(c)
           v == b.txs
           made == ToSet(AllOutputs(v))
           spent == ToSet(AllInputs(v))
<1>1. u \in Seq(Txs)
  BY ChainTxsType
<1>2. v \in Seq(Txs)
  BY DEF Block
<1>3. TxsOf(Append(c, b)) = u \o v
  BY ChainAppend
<1>4. s.utxos = (prev.utxos \cup made) \ spent
  BY DEF ApplyBlock, UpdateUtxos
<1> HIDE DEF s, u, v
<1>5. There(Append(c, b)) = (There(c) \cup made) \ spent
  BY <1>1, <1>2, <1>3, UnspentConcat DEF There, u, v
<1> HIDE DEF made, spent
<1>6. s.utxos \subseteq There(Append(c, b))
  BY <1>4, <1>5
<1>7. ASSUME NEW old, There(c) \ old \subseteq prev.utxos
      PROVE  There(Append(c, b)) \ old \subseteq s.utxos
  BY <1>4, <1>5, <1>7
<1> QED BY <1>6, <1>7 DEF s

-----------------------------------------------------------------------------
(* Slots of first mints *)

\* The leaves of assets minted in one block carry its slot, and empty ones none.
HoldsMints(s, c) ==
  \A a \in Addrs, x \in Assets :
    LET leaf == s.asset_holdings[a][x]
    IN  /\ leaf.qty = 0 => leaf.mint_slot = 0
        /\ ("input" \notin s.missed /\ leaf.qty > 0 /\ Cardinality(MintBlocks(c, x)) = 1)
             => leaf.mint_slot = DbFirstMint(c, x)

\* A list of transactions that mints no unit of x; leaves of x that all carry a
\* slot; and leaves that show every unspent unit of x.
MintsNone(v, x) == \A t \in ToSet(v) : x \notin Minted[t]
Stamped(holdings, x, first) ==
  \A a \in Addrs : holdings[a][x].qty > 0 => holdings[a][x].mint_slot = first
Shown(holdings, refs, x) ==
  \A r \in ToSet(refs) : OutputAt[r].assets[x] > 0 => holdings[OutputAt[r].addr][x].qty > 0

\* A fresh leaf of an asset that the block does not mint takes over the slot of
\* a leaf that was spent.
LEMMA FreshLeafInherits ==
  ASSUME NEW holdings \in Holdings, NEW u \in Seq(Txs), NEW v \in Seq(Txs),
         LegalOrder(u \o v), NEW x \in Assets, MintsNone(v, x),
         NEW first, NEW slot, Stamped(holdings, x, first), Shown(holdings, Unspent(u), x),
         NEW a \in Addrs, UnitsAt(AllOutputs(v), a, x) > 0
  PROVE  MintSlot(holdings, AllInputs(v), x, slot) = first
<1> DEFINE known == AllInputs(v)
           leaf(i) == holdings[OutputAt[known[i]].addr][x]
           carriers == {i \in DOMAIN known : OutputAt[known[i]].assets[x] > 0 /\ leaf(i).qty > 0}
<1>1. known \in Seq(Refs) /\ AllOutputs(v) \in Seq(Refs)
  BY ListType
<1>2. DOMAIN known \subseteq Nat
  BY <1>1, LenNat
<1>3. \E r \in ToSet(AllOutputs(v)) : OutputAt[r].assets[x] > 0
  BY <1>1, UnitsFrom
<1>4. PICK q \in ToSet(known) : q \in ToSet(Unspent(u)) /\ OutputAt[q].assets[x] > 0
  BY <1>3, TokensComeIn DEF MintsNone
<1>5. PICK i \in DOMAIN known : known[i] = q
  BY <1>4 DEF ToSet
<1>6. i \in carriers
  BY <1>4, <1>5 DEF Shown
<1>7. MintSlot(holdings, known, x, slot) =
        IF carriers = {} THEN slot ELSE leaf(Min(carriers)).mint_slot
  BY DEF MintSlot
<1>8. carriers \subseteq DOMAIN known /\ \A j \in carriers : leaf(j).qty > 0
  OBVIOUS
<1>9. \A j \in DOMAIN known : leaf(j).qty > 0 => leaf(j).mint_slot = first
  <2> SUFFICES ASSUME NEW j \in DOMAIN known, leaf(j).qty > 0
               PROVE  leaf(j).mint_slot = first
    OBVIOUS
  <2> HIDE DEF known
  <2>1. known[j] \in Refs
    BY <1>1, ElementIn
  <2>2. OutputAt[known[j]].addr \in Addrs
    BY <2>1, OutputAtType DEF Output
  <2> QED BY <2>2 DEF Stamped
<1> HIDE DEF carriers, leaf, known
<1>10. Min(carriers) \in carriers
  BY <1>2, <1>6, <1>8, MinIndex
<1>11. leaf(Min(carriers)).mint_slot = first
  BY <1>8, <1>9, <1>10
<1> QED BY <1>6, <1>7, <1>11 DEF known

\* A block keeps the slots of first mints.
LEMMA BlockKeepsMints ==
  ASSUME NEW prev \in GoodSnapshots, NEW c \in Seq(Block), NEW b \in Block,
         LegalOrder(TxsOf(c)), LegalOrder(TxsOf(c) \o b.txs),
         HoldsMoney(prev, c), HoldsMints(prev, c), NEW lost, NEW fetched
  PROVE  HoldsMints(ApplyBlock(prev, c, b, lost, fetched), Append(c, b))
<1> DEFINE s == ApplyBlock(prev, c, b, lost, fetched)
           d == Append(c, b)
           n == Len(c)
           u == TxsOf(c)
           v == b.txs
           held == prev.asset_holdings
           produced == AllOutputs(v)
           inputs == AllInputs(v)
           known == Sift(inputs, ToSet(inputs) \ lost)
<1>1. held \in Holdings
  BY DEF GoodSnapshots, Snapshot, Holdings
<1>2. u \in Seq(Txs) /\ v \in Seq(Txs)
  BY ChainTxsType DEF Block
<1>3. produced \in Seq(Refs) /\ inputs \in Seq(Refs)
  <2> HIDE DEF v
  <2> QED BY <1>2, ListType
<1>4. \A a \in Addrs, x \in Assets :
        s.asset_holdings[a][x] = BumpHolding(held, a, x, produced, known, b.slot)
  BY DEF ApplyBlock
<1>5. /\ prev.missed \subseteq s.missed
      /\ lost # {} => "input" \in s.missed
  BY DEF ApplyBlock
<1>6. n \in Nat /\ d \in Seq(Block) /\ Len(d) = n + 1 /\ SubSeq(d, 1, n) = c /\ d[n + 1] = b
  BY LenNat, AppendIs
<1>7. n \in 0..Len(d) /\ n + 1 \in 1..Len(d)
  BY <1>6
<1>8. known \in Seq(Refs)
  <2> DEFINE keep == ToSet(inputs) \ lost
  <2>1. Sift(inputs, keep) \in Seq(Refs \cap keep)
    BY <1>3, SiftIn
  <2> HIDE DEF keep, inputs
  <2> QED BY <2>1 DEF keep
<1>9. ASSUME lost = {} PROVE known = inputs
  <2> DEFINE keep == ToSet(inputs) \ lost
  <2>1. \A i \in 1..Len(inputs) : inputs[i] \in keep
    BY <1>3, <1>9, LenNat DEF ToSet
  <2> HIDE DEF keep, inputs
  <2>2. Sift(inputs, keep) = inputs
    BY <1>3, <2>1, SiftAll
  <2> QED BY <2>2 DEF keep
<1>10. ASSUME NEW a \in Addrs, NEW x \in Assets
       PROVE  /\ held[a][x] \in Held
              /\ UnitsAt(produced, a, x) \in Nat /\ UnitsAt(known, a, x) \in Nat
  BY <1>1, <1>3, <1>8, AmountType DEF Holdings
<1>11. LegalOrder(u) /\ LegalOrder(u \o v)
  OBVIOUS
<1> HIDE DEF s, d, n, u, v, held, produced, inputs, known
<1>12. ASSUME NEW a \in Addrs, NEW x \in Assets
       PROVE  LET leaf == s.asset_holdings[a][x]
              IN  /\ leaf.qty = 0 => leaf.mint_slot = 0
                  /\ ("input" \notin s.missed /\ leaf.qty > 0
                        /\ Cardinality(MintBlocks(d, x)) = 1)
                       => leaf.mint_slot = DbFirstMint(d, x)
  <2> DEFINE leaf == s.asset_holdings[a][x]
             old == held[a][x]
             credit == UnitsAt(produced, a, x)
             debit == UnitsAt(known, a, x)
             qty == Settle(old.qty, credit, debit)
  <2>1. leaf = IF qty = 0 THEN [qty |-> 0, mint_slot |-> 0]
               ELSE [qty |-> qty,
                     mint_slot |-> IF old.mint_slot = 0 /\ credit > 0
                                   THEN MintSlot(held, known, x, b.slot)
                                   ELSE old.mint_slot]
    BY <1>4 DEF BumpHolding
  <2>2. /\ old.qty \in Nat /\ old.mint_slot \in Nat /\ credit \in Nat /\ debit \in Nat
    BY <1>10 DEF Held
  <2>3. old.qty = 0 => old.mint_slot = 0
    BY DEF HoldsMints, held
  <2>4. qty \in Nat /\ (qty > 0 /\ old.qty = 0 => credit > 0)
    <3> HIDE DEF old, credit, debit
    <3> QED BY <2>2 DEF Settle
  <2> HIDE DEF leaf, old, credit, debit, qty
  <2>5. ASSUME "input" \notin s.missed, leaf.qty > 0, Cardinality(MintBlocks(d, x)) = 1
        PROVE  leaf.mint_slot = DbFirstMint(d, x)
    <3>1. "input" \notin prev.missed /\ lost = {} /\ known = inputs
      BY <1>5, <1>9, <2>5
    <3>2. qty > 0 /\ leaf.mint_slot = IF old.mint_slot = 0 /\ credit > 0
                                      THEN MintSlot(held, known, x, b.slot) ELSE old.mint_slot
      <4>1. qty # 0
        BY <2>1, <2>5
      <4> QED BY <2>1, <2>4, <4>1
    <3>3. \A o \in Addrs : held[o][x].qty = DbUnits(c)[o][x]
      BY <3>1 DEF HoldsMoney, Covers, held
    <3>4. \A o \in Addrs : held[o][x].qty > 0
            <=> \E r \in There(c) : OutputAt[r].addr = o /\ OutputAt[r].assets[x] > 0
      BY <3>3, UnitsThere
    <3>5. CASE Mints(b, x)
      <4>1. MintBlocks(c, x) = {} /\ DbFirstMint(d, x) = b.slot
        BY <2>5, <3>5, FirstMintNow DEF d
      <4>2. \A o \in Addrs : ~(held[o][x].qty > 0)
        BY <1>11, <3>4, <4>1, NoneBeforeMint DEF u
      <4>3. old.mint_slot = 0 /\ credit > 0
        <5>1. ~(old.qty > 0)
          BY <4>2 DEF old
        <5>2. old.qty = 0
          BY <2>2, <5>1
        <5> QED BY <2>3, <2>4, <3>2, <5>2
      <4>4. MintSlot(held, known, x, b.slot) = b.slot
        <5> DEFINE fed(i) == held[OutputAt[known[i]].addr][x]
                   carriers == {i \in DOMAIN known : OutputAt[known[i]].assets[x] > 0
                                                      /\ fed(i).qty > 0}
        <5>1. ASSUME NEW i \in DOMAIN known PROVE OutputAt[known[i]].addr \in Addrs
          <6>1. known[i] \in Refs
            BY <1>8, ElementIn
          <6> QED BY <6>1, OutputAtType DEF Output
        <5>2. carriers = {}
          BY <4>2, <5>1
        <5>3. MintSlot(held, known, x, b.slot) =
                IF carriers = {} THEN b.slot ELSE fed(Min(carriers)).mint_slot
          BY DEF MintSlot
        <5> HIDE DEF carriers, fed
        <5> QED BY <5>2, <5>3
      <4> QED BY <3>2, <4>1, <4>3, <4>4
    <3>6. CASE ~Mints(b, x)
      <4>1. MintBlocks(d, x) = MintBlocks(c, x)
        <5> DEFINE all == MintBlocks(d, x)
        <5>1. /\ all \subseteq 1..(n + 1) /\ n + 1 \notin all
              /\ MintBlocks(c, x) = all \cap (1..n)
          BY <1>6, <1>7, <3>6, MintBlocksStart
        <5>2. 1..(n + 1) = (1..n) \cup {n + 1}
          BY <1>6
        <5> HIDE DEF all
        <5>3. all = MintBlocks(c, x)
          BY <5>1, <5>2
        <5> QED BY <5>3 DEF all
      <4>2. Cardinality(MintBlocks(c, x)) = 1
        BY <2>5, <4>1
      <4>3. MintBlocks(c, x) # {}
        <5>1. Cardinality({}) = 0
          BY FS_EmptySet
        <5> HIDE DEF leaf
        <5>2. ASSUME MintBlocks(c, x) = {} PROVE FALSE
          <6>1. Cardinality(MintBlocks(c, x)) = 0
            BY <5>1, <5>2
          <6> QED BY <4>2, <6>1
        <5> QED BY <5>2
      <4> DEFINE first == DbFirstMint(c, x)
      <4>4. DbFirstMint(d, x) = first
        <5>1. MintBlocks(SubSeq(d, 1, n), x) # {}
          BY <1>6, <4>3
        <5>2. DbFirstMint(d, x) = DbFirstMint(SubSeq(d, 1, n), x)
          BY <1>6, <1>7, <5>1, FirstMintStays
        <5> QED BY <1>6, <5>2
      <4>5. Stamped(held, x, first)
        BY <3>1, <4>2 DEF HoldsMints, held, Stamped
      <4> HIDE DEF first
      <4>6. ASSUME credit > 0 PROVE MintSlot(held, known, x, b.slot) = first
        <5>1. MintsNone(v, x)
          BY <3>6 DEF Mints, v, MintsNone
        <5>2. Shown(held, Unspent(u), x)
          <6> SUFFICES ASSUME NEW r \in ToSet(Unspent(u)), OutputAt[r].assets[x] > 0
                       PROVE  held[OutputAt[r].addr][x].qty > 0
            BY DEF Shown
          <6>1. r \in There(c) /\ r \in Refs
            <7>1. Unspent(u) \in Seq(Refs)
              BY <1>2, ListType
            <7>2. ToSet(Unspent(u)) \subseteq Refs
              <8> DEFINE q == Unspent(u)
              <8>1. q \in Seq(Refs)
                BY <7>1
              <8> HIDE DEF q
              <8>2. ToSet(q) \subseteq Refs
                BY <8>1, ElementIn DEF ToSet
              <8> QED BY <8>2 DEF q
            <7> QED BY <7>2 DEF There, u
          <6>2. OutputAt[r].addr \in Addrs
            BY <6>1, OutputAtType DEF Output
          <6> QED BY <3>4, <6>1, <6>2
        <5>3. UnitsAt(AllOutputs(v), a, x) > 0
          BY <4>6 DEF credit, produced
        <5>4. MintSlot(held, AllInputs(v), x, b.slot) = first
          <6>1. LegalOrder(u \o v)
            BY <1>11
          <6>2. u \in Seq(Txs)
            BY <1>2
          <6>3. v \in Seq(Txs)
            BY <1>2
          <6>4. held \in Holdings
            BY <1>1
          <6> QED BY <4>5, <5>1, <5>2, <5>3, <6>1, <6>2, <6>3, <6>4, FreshLeafInherits
        <5> QED BY <3>1, <5>4 DEF inputs
      <4>7. CASE old.qty > 0
        <5>1. old.mint_slot = first
          BY <4>5, <4>7 DEF old, Stamped
        <5> QED BY <3>2, <4>4, <4>6, <5>1
      <4>8. CASE old.qty = 0
        <5>1. old.mint_slot = 0 /\ credit > 0
          BY <2>3, <2>4, <3>2, <4>8
        <5> QED BY <3>2, <4>4, <4>6, <5>1
      <4> QED BY <2>2, <4>7, <4>8
    <3> QED BY <3>5, <3>6
  <2>6. leaf.qty = 0 => leaf.mint_slot = 0
    BY <2>1, <2>4
  <2> QED BY <2>5, <2>6 DEF leaf
<1> QED BY <1>12 DEF HoldsMints, s, d

\* A snapshot from db-sync has them too, though it asks about the whole chain
\* that db-sync stores.
LEMMA ResetHoldsMints ==
  ASSUME NEW db \in Seq(Block), NEW n \in 0..Len(db), NEW slot, NEW missed,
         UpTo(db, slot) = SubSeq(db, 1, n), LegalOrder(TxsOf(SubSeq(db, 1, n)))
  PROVE  HoldsMints(ResetSnapshot(db, slot, missed), SubSeq(db, 1, n))
<1> DEFINE s == ResetSnapshot(db, slot, missed)
           c == SubSeq(db, 1, n)
<1>1. c \in Seq(Block) /\ LegalOrder(TxsOf(c))
  BY LenNat
<1>2. \A a \in Addrs, x \in Assets :
        s.asset_holdings[a][x] =
          IF DbUnits(c)[a][x] = 0 THEN [qty |-> 0, mint_slot |-> 0]
          ELSE [qty |-> DbUnits(c)[a][x], mint_slot |-> DbFirstMint(db, x)]
  BY DEF ResetSnapshot
<1>3. \A x \in Assets : MintBlocks(c, x) # {} => DbFirstMint(db, x) = DbFirstMint(c, x)
  BY FirstMintStays
<1> HIDE DEF s, c
<1>4. ASSUME NEW a \in Addrs, NEW x \in Assets
      PROVE  LET leaf == s.asset_holdings[a][x]
             IN  /\ leaf.qty = 0 => leaf.mint_slot = 0
                 /\ ("input" \notin s.missed /\ leaf.qty > 0
                       /\ Cardinality(MintBlocks(c, x)) = 1)
                      => leaf.mint_slot = DbFirstMint(c, x)
  <2> DEFINE leaf == s.asset_holdings[a][x]
             units == DbUnits(c)[a][x]
  <2>1. leaf = IF units = 0 THEN [qty |-> 0, mint_slot |-> 0]
               ELSE [qty |-> units, mint_slot |-> DbFirstMint(db, x)]
    BY <1>2
  <2>2. units > 0 => MintBlocks(c, x) # {}
    BY <1>1, UnitsThere, NoneBeforeMint
  <2>3. units > 0 => DbFirstMint(db, x) = DbFirstMint(c, x)
    BY <1>3, <2>2
  <2> HIDE DEF leaf, units
  <2>4. leaf.qty = 0 => leaf.mint_slot = 0
    BY <2>1
  <2>5. leaf.qty > 0 => leaf.mint_slot = DbFirstMint(c, x)
    BY <2>1, <2>3
  <2> QED BY <2>4, <2>5 DEF leaf
<1> QED BY <1>4 DEF HoldsMints, s, c

-----------------------------------------------------------------------------
(* Who owns a handle *)

\* A move changes one owner, whichever index entries it touches.
LEMMA MoveSetsOwner ==
  ASSUME NEW m \in GoodHandles, NEW h \in Handles, NEW to \in Addrs
  PROVE  MoveHandle(m, h, to).owner = [m.owner EXCEPT ![h] = to]
<1>1. m.owner \in [Handles -> Addrs \cup {Nobody}]
  BY DEF GoodHandles, HandleMaps
<1>2. CASE m.owner[h] = to
  <2>1. MoveHandle(m, h, to) = m
    BY <1>2 DEF MoveHandle
  <2>2. [m.owner EXCEPT ![h] = to] = m.owner
    BY <1>1, <1>2
  <2> QED BY <2>1, <2>2
<1>3. CASE m.owner[h] # to
  BY <1>3 DEF MoveHandle
<1> QED BY <1>2, <1>3

\* No move, and one move more.
LEMMA MovesAppend ==
  ASSUME NEW m \in GoodHandles
  PROVE  /\ ApplyHandleMoves(m, <<>>) = m
         /\ \A s \in Seq(Handles \X Addrs), x \in Handles \X Addrs :
              ApplyHandleMoves(m, Append(s, x))
                = MoveHandle(ApplyHandleMoves(m, s), x[1], x[2])
<1> DEFINE Q == Handles \X Addrs
<1>1. ApplyHandleMoves(m, <<>>) = m
  <2>1. <<>> \in Seq(Handles \X Addrs) /\ Len(<<>>) = 0
    OBVIOUS
  <2>2. PICK f : IsLoop(f, m, MoveStep, <<>>, GoodHandles) /\ ApplyHandleMoves(m, <<>>) = f[0]
    BY <2>1, MovesLoop
  <2> QED BY <2>2 DEF IsLoop
<1>2. ASSUME NEW s \in Seq(Q), NEW x \in Q
      PROVE  ApplyHandleMoves(m, Append(s, x)) = MoveHandle(ApplyHandleMoves(m, s), x[1], x[2])
  <2> DEFINE t == Append(s, x)
  <2>1. t \in Seq(Q) /\ Len(t) = Len(s) + 1
    BY AppendIs
  <2>2. PICK f : IsLoop(f, m, MoveStep, s, GoodHandles) /\ ApplyHandleMoves(m, s) = f[Len(s)]
    BY MovesLoop
  <2>3. PICK g : IsLoop(g, m, MoveStep, t, GoodHandles) /\ ApplyHandleMoves(m, t) = g[Len(t)]
    BY <2>1, MovesLoop
  <2> HIDE DEF Q
  <2>4. g[Len(s) + 1] = MoveStep[f[Len(s)]][x]
    BY <2>2, <2>3, LoopAppend
  <2>5. f[Len(s)] \in GoodHandles
    BY <2>2, LenNat DEF IsLoop
  <2> QED BY <2>1, <2>2, <2>3, <2>4, <2>5 DEF MoveStep, Q
<1> QED BY <1>1, <1>2

\* Moves of one handle that all name the same owner leave it there; without one
\* it stays where it was.
EndsAt(m, cs, ds, h, o) ==
  (\A x \in ToSet(ds) : x[1] = h => x[2] = o) =>
    ApplyHandleMoves(m, cs \o ds).owner[h] =
      IF \E x \in ToSet(ds) : x[1] = h THEN o ELSE ApplyHandleMoves(m, cs).owner[h]

\* Every list of moves does so, after any other.
LEMMA MovesEnd ==
  ASSUME NEW m \in GoodHandles, NEW cs \in Seq(Handles \X Addrs), NEW h \in Handles, NEW o
  PROVE  \A ds \in Seq(Handles \X Addrs) : EndsAt(m, cs, ds, h, o)
<1> DEFINE Q == Handles \X Addrs
           agree(ds) == \A x \in ToSet(ds) : x[1] = h => x[2] = o
           some(ds) == \E x \in ToSet(ds) : x[1] = h
           at(ds) == ApplyHandleMoves(m, cs \o ds).owner[h]
           base == ApplyHandleMoves(m, cs).owner[h]
           W == {ds \in Seq(Q) : agree(ds) => at(ds) = IF some(ds) THEN o ELSE base}
<1>1. <<>> \in W
  <2>1. <<>> \in Seq(Q) /\ ToSet(<<>>) = {} /\ cs \o <<>> = cs
    BY DEF ToSet
  <2>2. ~some(<<>>) /\ at(<<>>) = base
    BY <2>1
  <2> HIDE DEF some, at, base, agree
  <2> QED BY <2>1, <2>2
<1>2. ASSUME NEW ds \in Seq(Q), NEW x \in Q, ds \in W PROVE Append(ds, x) \in W
  <2> DEFINE es == Append(ds, x)
             now == ApplyHandleMoves(m, cs \o ds)
  <2>1. es \in Seq(Q) /\ ToSet(es) = ToSet(ds) \cup {x}
    BY AppendSet
  <2>2. cs \o es = Append(cs \o ds, x) /\ cs \o ds \in Seq(Q)
    <3>1. cs \in Seq(Q) /\ ds \in Seq(Q) /\ x \in Q
      OBVIOUS
    <3> HIDE DEF Q
    <3>2. cs \o es = Append(cs \o ds, x)
      BY <3>1, ConcatAppend
    <3>3. cs \o ds \in Seq(Q)
      BY <3>1
    <3> QED BY <3>2, <3>3
  <2>3. now \in GoodHandles
    BY <2>2, HandleMovesKeep
  <2>4. ApplyHandleMoves(m, cs \o es) = MoveHandle(now, x[1], x[2])
    <3> DEFINE p == cs \o ds
    <3>1. p \in Seq(Handles \X Addrs) /\ x \in Handles \X Addrs /\ cs \o es = Append(p, x)
      BY <2>2
    <3>2. now = ApplyHandleMoves(m, p)
      OBVIOUS
    <3> HIDE DEF p, now, es
    <3>3. ApplyHandleMoves(m, Append(p, x)) = MoveHandle(ApplyHandleMoves(m, p), x[1], x[2])
      BY <3>1, MovesAppend
    <3> QED BY <3>1, <3>2, <3>3
  <2>5. x[1] \in Handles /\ x[2] \in Addrs
    OBVIOUS
  <2> HIDE DEF now
  <2>6. MoveHandle(now, x[1], x[2]).owner = [now.owner EXCEPT ![x[1]] = x[2]]
    BY <2>3, <2>5, MoveSetsOwner
  <2>7. now.owner \in [Handles -> Addrs \cup {Nobody}]
    BY <2>3 DEF GoodHandles, HandleMaps
  <2>8. at(es) = IF x[1] = h THEN x[2] ELSE at(ds)
    BY <2>4, <2>5, <2>6, <2>7 DEF now
  <2>9. /\ agree(es) => agree(ds) /\ (x[1] = h => x[2] = o)
        /\ some(es) <=> some(ds) \/ x[1] = h
    BY <2>1
  <2>10. agree(ds) => at(ds) = IF some(ds) THEN o ELSE base
    BY <1>2
  <2> HIDE DEF agree, some, at, base, es
  <2>11. agree(es) => at(es) = IF some(es) THEN o ELSE base
    BY <2>8, <2>9, <2>10
  <2> QED BY <2>1, <2>11 DEF es
<1> HIDE DEF W
<1>3. \A ds \in Seq(Q) : ds \in W
  BY <1>1, <1>2, BuiltUp
<1> QED BY <1>3 DEF W, EndsAt

\* At most one unspent output carries h, now and after every transaction before.
Alone(txs, h) ==
  \A q, r \in ToSet(Unspent(txs)) : Carries(q, h) /\ Carries(r, h) => q = r
OneUnit(txs, h) == \A n \in 0..Len(txs) : Alone(SubSeq(txs, 1, n), h)

\* It was so before the last transaction too.
LEMMA OneUnitAppend ==
  ASSUME NEW w \in Seq(Txs), NEW t \in Txs, NEW h, OneUnit(Append(w, t), h)
  PROVE  OneUnit(w, h) /\ Alone(Append(w, t), h)
<1> DEFINE z == Append(w, t)
           n == Len(w)
<1>1. n \in Nat /\ Len(z) = n + 1 /\ z \in Seq(Txs)
  BY LenNat, AppendIs
<1>2. \A i \in 0..n : SubSeq(z, 1, i) = SubSeq(w, 1, i)
  BY <1>1
<1>3. SubSeq(z, 1, n + 1) = z
  BY <1>1, PrefixStep
<1>4. \A i \in 0..(n + 1) : Alone(SubSeq(z, 1, i), h)
  BY <1>1 DEF OneUnit
<1>5. (\A i \in 0..n : i \in 0..(n + 1)) /\ n + 1 \in 0..(n + 1)
  BY <1>1
<1> HIDE DEF z, n
<1>6. \A i \in 0..n : Alone(SubSeq(w, 1, i), h)
  BY <1>2, <1>4, <1>5
<1>7. Alone(z, h)
  BY <1>3, <1>4, <1>5
<1> QED BY <1>6, <1>7 DEF OneUnit, z, n

\* And at any point before.
LEMMA OneUnitStart ==
  ASSUME NEW u \in Seq(Txs), NEW v \in Seq(Txs), NEW h, OneUnit(u \o v, h)
  PROVE  OneUnit(u, h)
<1>1. /\ Len(u) \in Nat /\ Len(v) \in Nat /\ Len(u \o v) = Len(u) + Len(v)
  BY LenNat
<1>2. ASSUME NEW n \in 0..Len(u) PROVE Alone(SubSeq(u, 1, n), h)
  <2>1. n \in 0..Len(u \o v)
    BY <1>1
  <2>2. SubSeq(u \o v, 1, n) = SubSeq(u, 1, n)
    <3>1. \A i \in 1..n : (u \o v)[i] = u[i]
      BY <1>1
    <3>2. n \in Nat /\ n <= Len(u) /\ n <= Len(u \o v)
      BY <1>1
    <3> QED BY <3>1, <3>2
  <2> QED BY <2>1, <2>2 DEF OneUnit
<1> QED BY <1>2 DEF OneUnit

\* A list of transactions that made outputs carrying h all name an owner in.
OwnersNamed(txs, h) ==
  h \in Virtual => \A r \in ToSet(AllOutputs(txs)) : Carries(r, h) => OutputAt[r].datum # Nobody

\* An output that names an owner names the one db-sync's row resolves to.
LEMMA NamedIsOwner ==
  ASSUME NEW r \in Refs, NEW h \in Handles, h \in Virtual => OutputAt[r].datum # Nobody
  PROVE  Named(r, h) = DbOwner(r, h) /\ Named(r, h) # Nobody
<1>1. OutputAt[r].addr \in Addrs
  BY OutputAtType DEF Output
<1>2. Nobody \notin Addrs
  BY NamesAssumption
<1> QED BY <1>1, <1>2 DEF Named, DbOwner

\* The moves of a list of transactions leave a handle that one of them moved with
\* the owner that the output carrying it names.
LEMMA MovesFollow ==
  ASSUME NEW m \in GoodHandles, NEW u \in Seq(Txs), NEW h \in Handles
  PROVE  \A v \in Seq(Txs) :
           LegalOrder(u \o v) /\ OneUnit(u \o v, h) /\ OwnersNamed(v, h) =>
             LET made == AllOutputs(v)
                 owner == ApplyHandleMoves(m, HandleChanges(made)).owner[h]
             IN  IF \E r \in ToSet(made) : Carries(r, h)
                 THEN \A r \in ToSet(Unspent(u \o v)) : Carries(r, h) => owner = DbOwner(r, h)
                 ELSE owner = m.owner[h]
<1> DEFINE fine(v) == LegalOrder(u \o v) /\ OneUnit(u \o v, h) /\ OwnersNamed(v, h)
           owner(v) == ApplyHandleMoves(m, HandleChanges(AllOutputs(v))).owner[h]
           moved(v) == \E r \in ToSet(AllOutputs(v)) : Carries(r, h)
           follows(v) == \A r \in ToSet(Unspent(u \o v)) : Carries(r, h) => owner(v) = DbOwner(r, h)
           right(v) == IF moved(v) THEN follows(v) ELSE owner(v) = m.owner[h]
           W == {v \in Seq(Txs) : fine(v) => right(v)}
<1>1. <<>> \in W
  <2>1. <<>> \in Seq(Txs) /\ AllOutputs(<<>>) = <<>> /\ ToSet(<<>>) = {} /\ <<>> \in Seq(Refs)
    BY ListSingle DEF ToSet
  <2>2. HandleChanges(<<>>) = <<>>
    <3>1. HandleChanges(<<>>) = FlatMap(<<>>, MovesIn)
      BY <2>1, ChangesFlat
    <3>2. MovesIn \in [Refs -> Seq(Handles \X Addrs)]
      BY ChangesFlat
    <3> QED BY <3>1, <3>2, FlatMapAppend
  <2>3. ~moved(<<>>) /\ owner(<<>>) = m.owner[h]
    BY <2>1, <2>2, MovesAppend
  <2> HIDE DEF moved, owner, fine, follows
  <2> QED BY <2>1, <2>3
<1>2. ASSUME NEW v \in Seq(Txs), NEW t \in Txs, v \in W PROVE Append(v, t) \in W
  <2> DEFINE w == Append(v, t)
             outs == Outputs[t]
             then == HandleChanges(AllOutputs(v))
             now == HandleChanges(outs)
  <2>1. w \in Seq(Txs) /\ w = v \o <<t>> /\ <<t>> \in Seq(Txs)
    OBVIOUS
  <2>2. AllOutputs(w) = AllOutputs(v) \o outs
    BY <2>1, ListConcat, ListSingle
  <2>3. AllOutputs(v) \in Seq(Refs) /\ outs \in Seq(Refs)
    BY ListType, TxType
  <2>4. ToSet(AllOutputs(w)) = ToSet(AllOutputs(v)) \cup ToSet(outs)
    BY <2>2, <2>3, ConcatSet
  <2>5. u \o v \in Seq(Txs) /\ u \o w = Append(u \o v, t)
    BY ConcatAppend
  <2>6. /\ then \in Seq(Handles \X Addrs) /\ now \in Seq(Handles \X Addrs)
        /\ HandleChanges(AllOutputs(w)) = then \o now
        /\ ToSet(now) = UNION {MovesOf(r) : r \in ToSet(outs)}
    BY <2>2, <2>3, ChangesAre
  <2>7. ToSet(outs) \subseteq Refs
    <3> HIDE DEF outs
    <3> QED BY <2>3, ElementIn DEF ToSet
  <2> HIDE DEF w, outs, then, now
  <2>8. ASSUME fine(w) PROVE right(w)
    <3> DEFINE p == u \o v
    <3>0. p \in Seq(Txs) /\ LegalOrder(Append(p, t)) /\ u \o w = Append(p, t)
      BY <2>5, <2>8
    <3> HIDE DEF p
    <3>1. LegalOrder(p)
      BY <3>0, LegalOrderAppend
    <3>2. OneUnit(u \o v, h) /\ Alone(u \o w, h)
      <4>1. OneUnit(Append(p, t), h)
        BY <2>8, <3>0
      <4>2. OneUnit(p, h) /\ Alone(Append(p, t), h)
        BY <3>0, <4>1, OneUnitAppend
      <4> QED BY <3>0, <4>2 DEF p
    <3>3. fine(v)
      BY <2>4, <2>8, <3>1, <3>2 DEF OwnersNamed, p
    <3>4. right(v)
      BY <1>2, <3>3
    <3>5. ToSet(Unspent(u \o w)) = (ToSet(Unspent(u \o v)) \ ToSet(Inputs[t])) \cup ToSet(outs)
      <4>1. ToSet(Unspent(Append(p, t))) = (ToSet(Unspent(p)) \ ToSet(Inputs[t])) \cup ToSet(Outputs[t])
        BY <3>0, UnspentAppend
      <4> QED BY <3>0, <4>1 DEF outs, p
    <3>6. \A o : (\A x \in ToSet(now) : x[1] = h => x[2] = o) =>
            owner(w) = IF \E x \in ToSet(now) : x[1] = h THEN o ELSE owner(v)
      <4>0. then \in Seq(Handles \X Addrs) /\ now \in Seq(Handles \X Addrs)
        BY <2>6
      <4>1. ASSUME NEW o, \A x \in ToSet(now) : x[1] = h => x[2] = o
            PROVE  ApplyHandleMoves(m, then \o now).owner[h]
                     = IF \E x \in ToSet(now) : x[1] = h THEN o
                       ELSE ApplyHandleMoves(m, then).owner[h]
        <5>1. EndsAt(m, then, now, h, o)
          BY <4>0, MovesEnd
        <5> QED BY <4>1, <5>1 DEF EndsAt
      <4>2. owner(w) = ApplyHandleMoves(m, then \o now).owner[h]
        BY <2>6
      <4>3. owner(v) = ApplyHandleMoves(m, then).owner[h]
        BY DEF then
      <4> HIDE DEF owner
      <4> QED BY <4>1, <4>2, <4>3
    <3>7. CASE \E r \in ToSet(outs) : Carries(r, h)
      <4>1. PICK r \in ToSet(outs) : Carries(r, h)
        BY <3>7
      <4>2. \A q \in ToSet(Unspent(u \o w)) : Carries(q, h) => q = r
        BY <3>2, <3>5, <4>1 DEF Alone
      <4>3. r \in Refs /\ (h \in Virtual => OutputAt[r].datum # Nobody)
        BY <2>4, <2>7, <2>8, <4>1 DEF OwnersNamed
      <4>4. Named(r, h) = DbOwner(r, h) /\ Named(r, h) # Nobody
        BY <4>3, NamedIsOwner
      <4>5. \A x \in ToSet(now) : x[1] = h => x[2] = Named(r, h)
        <5> SUFFICES ASSUME NEW x \in ToSet(now), x[1] = h PROVE x[2] = Named(r, h)
          OBVIOUS
        <5>1. PICK q \in ToSet(outs) : x \in MovesOf(q)
          BY <2>6
        <5>2. PICK g \in Handles : Carries(q, g) /\ x = <<g, Named(q, g)>>
          BY <5>1 DEF MovesOf
        <5>3. g = h /\ q = r
          BY <3>5, <4>2, <5>2
        <5> QED BY <5>2, <5>3
      <4>6. \E x \in ToSet(now) : x[1] = h
        <5>1. <<h, Named(r, h)>> \in MovesOf(r)
          BY <4>1, <4>4 DEF MovesOf
        <5>2. <<h, Named(r, h)>> \in ToSet(now)
          BY <2>6, <4>1, <5>1
        <5>3. <<h, Named(r, h)>>[1] = h
          OBVIOUS
        <5> QED BY <5>2, <5>3
      <4>7. owner(w) = DbOwner(r, h)
        BY <3>6, <4>4, <4>5, <4>6
      <4>8. moved(w)
        BY <2>4, <4>1
      <4>9. follows(w)
        BY <4>2, <4>7
      <4> HIDE DEF moved, follows, owner
      <4> QED BY <4>8, <4>9
    <3>8. CASE ~ \E r \in ToSet(outs) : Carries(r, h)
      <4>1. ~ \E x \in ToSet(now) : x[1] = h
        <5> SUFFICES ASSUME NEW x \in ToSet(now), x[1] = h PROVE FALSE
          OBVIOUS
        <5>1. PICK q \in ToSet(outs) : x \in MovesOf(q)
          BY <2>6
        <5>2. PICK g \in Handles : Carries(q, g) /\ x = <<g, Named(q, g)>>
          BY <5>1 DEF MovesOf
        <5> QED BY <3>8, <5>2
      <4>2. owner(w) = owner(v)
        <5>1. \A x \in ToSet(now) : x[1] = h => x[2] = Nobody
          BY <4>1
        <5> HIDE DEF owner
        <5> QED BY <3>6, <4>1, <5>1
      <4>3. moved(w) <=> moved(v)
        BY <2>4, <3>8
      <4>4. follows(v) => follows(w)
        <5> SUFFICES ASSUME follows(v), NEW r \in ToSet(Unspent(u \o w)), Carries(r, h)
                     PROVE  owner(w) = DbOwner(r, h)
          OBVIOUS
        <5>1. r \in ToSet(Unspent(u \o v))
          BY <3>5, <3>8
        <5> HIDE DEF owner
        <5> QED BY <4>2, <5>1
      <4> HIDE DEF moved, follows, owner
      <4> QED BY <3>4, <4>2, <4>3, <4>4
    <3> QED BY <3>7, <3>8
  <2> QED BY <2>1, <2>8 DEF w
<1> HIDE DEF W
<1>3. \A v \in Seq(Txs) : v \in W
  BY <1>1, <1>2, BuiltUp
<1> QED BY <1>3 DEF W

\* db-sync resolves a handle that one output at most carries to that output's
\* owner.
LEMMA OwnerIs ==
  ASSUME NEW c \in Seq(Block), NEW h \in Handles, Alone(TxsOf(c), h)
  PROVE  /\ ~(\E r \in There(c) : Carries(r, h)) => DbHandleOwner(c, h) = Nobody
         /\ \A r \in There(c) : Carries(r, h) => DbHandleOwner(c, h) = DbOwner(r, h)
<1> DEFINE there == DbUnspent(c)
           held == {i \in DOMAIN there : OutputAt[there[i]].assets[h] > 0}
<1>1. there \in Seq(Refs) /\ Len(there) \in Nat /\ DOMAIN there = 1..Len(there)
  BY ChainTxsType, LenNat
<1>2. There(c) = ToSet(there)
  BY DEF There, DbUnspent
<1>3. \A i \in DOMAIN there : there[i] \in There(c)
  BY <1>2 DEF ToSet
<1>4. \A q, r \in There(c) : Carries(q, h) /\ Carries(r, h) => q = r
  BY DEF Alone, There
<1>5. DbHandleOwner(c, h) = IF held = {} THEN Nobody ELSE DbOwner(there[Max(held)], h)
  BY DEF DbHandleOwner
<1>6. \A i \in DOMAIN there : i \in held <=> Carries(there[i], h)
  BY DEF Carries
<1>7. ASSUME NEW r \in There(c), Carries(r, h)
      PROVE  DbHandleOwner(c, h) = DbOwner(r, h)
  <2>1. PICK i \in DOMAIN there : r = there[i]
    BY <1>2, <1>7 DEF ToSet
  <2>2. held # {}
    BY <1>6, <1>7, <2>1
  <2>3. held \subseteq 0..Len(there) /\ held \subseteq DOMAIN there
    BY <1>1
  <2> HIDE DEF held, there
  <2>4. Max(held) \in held
    BY <1>1, <2>2, <2>3, MaxIndex
  <2>5. there[Max(held)] = r
    BY <1>3, <1>4, <1>6, <1>7, <2>3, <2>4
  <2> QED BY <1>5, <2>2, <2>5
<1>8. ASSUME ~ \E r \in There(c) : Carries(r, h)
      PROVE  DbHandleOwner(c, h) = Nobody
  <2>1. held = {}
    BY <1>3, <1>6, <1>8
  <2> QED BY <1>5, <2>1
<1> QED BY <1>7, <1>8

\* A block that resolves its inputs leaves a handle, issued as its policy
\* promises, where db-sync would find it, also when the previous snapshot
\* already had it there.
LEMMA BlockKeepsHandle ==
  ASSUME NEW prev \in GoodSnapshots, NEW c \in Seq(Block), NEW b \in Block,
         LegalOrder(TxsOf(c)), LegalOrder(TxsOf(c) \o b.txs), NEW h \in Handles,
         OneUnit(TxsOf(c) \o b.txs, h), OwnersNamed(b.txs, h),
         (\E r \in ToSet(AllOutputs(b.txs)) : Carries(r, h))
           => \E r \in There(Append(c, b)) : Carries(r, h),
         prev.handles.owner[h] \in {DbHandleOwner(c, h), DbHandleOwner(Append(c, b), h)},
         NEW fetched
  PROVE  ApplyBlock(prev, c, b, {}, fetched).handles.owner[h] = DbHandleOwner(Append(c, b), h)
<1> DEFINE s == ApplyBlock(prev, c, b, {}, fetched)
           d == Append(c, b)
           u == TxsOf(c)
           v == b.txs
           made == AllOutputs(v)
           ins == AllInputs(v)
           changes == HandleChanges(made)
           produced == {changes[i][1] : i \in DOMAIN changes}
           moved == ApplyHandleMoves(prev.handles, changes)
           carried(r) == Carries(r, h)
<1>1. u \in Seq(Txs) /\ v \in Seq(Txs) /\ u \o v \in Seq(Txs)
  <2>1. u \in Seq(Txs)
    BY ChainTxsType
  <2>2. v \in Seq(Txs)
    BY DEF Block
  <2> HIDE DEF u, v
  <2> QED BY <2>1, <2>2
<1>2. TxsOf(d) = u \o v /\ d \in Seq(Block)
  <2>1. d \in Seq(Block)
    OBVIOUS
  <2> QED BY <2>1, ChainAppend
<1>3. made \in Seq(Refs) /\ ins \in Seq(Refs)
  BY <1>1, ListType
<1>4. prev.handles \in GoodHandles
  BY DEF GoodSnapshots, GoodHandles, Snapshot
<1>5. s.handles = ApplyHandleUpdates(prev.handles, changes, ConsumedHandles(ins))
  <2>1. \A i \in 1..Len(ins) : ins[i] \in ToSet(ins) \ {}
    BY <1>3, LenNat DEF ToSet
  <2> HIDE DEF ins, made
  <2>2. Sift(ins, ToSet(ins) \ {}) = ins
    BY <1>3, <2>1, SiftAll
  <2>3. s.handles = ApplyHandleUpdates(prev.handles, HandleChanges(made),
                                       ConsumedHandles(Sift(ins, ToSet(ins) \ {})))
    BY DEF ApplyBlock, ins, made
  <2> QED BY <2>2, <2>3
<1> HIDE DEF s, d, u, v
<1>6. /\ There(d) = (There(c) \cup ToSet(made)) \ ToSet(ins)
      /\ ToSet(ins) \subseteq There(c) \cup ToSet(made)
  BY <1>1, <1>2, UnspentConcat DEF There, u, v
<1>7. OneUnit(u, h) /\ OneUnit(u \o v, h)
  BY <1>1, OneUnitStart DEF u, v
<1>8. Alone(TxsOf(c), h) /\ Alone(TxsOf(d), h)
  <2>1. \A w \in Seq(Txs) : OneUnit(w, h) => Alone(w, h)
    <3> SUFFICES ASSUME NEW w \in Seq(Txs), OneUnit(w, h) PROVE Alone(w, h)
      OBVIOUS
    <3>1. Len(w) \in 0..Len(w) /\ SubSeq(w, 1, Len(w)) = w
      BY LenNat, PrefixStep
    <3> QED BY <3>1 DEF OneUnit
  <2> QED BY <1>1, <1>2, <1>7, <2>1 DEF u
<1>9. /\ ~(\E r \in There(c) : carried(r)) => DbHandleOwner(c, h) = Nobody
      /\ \A r \in There(c) : carried(r) => DbHandleOwner(c, h) = DbOwner(r, h)
      /\ ~(\E r \in There(d) : carried(r)) => DbHandleOwner(d, h) = Nobody
      /\ \A r \in There(d) : carried(r) => DbHandleOwner(d, h) = DbOwner(r, h)
  BY <1>2, <1>8, OwnerIs
<1>10. \A q, r \in There(c) : carried(q) /\ carried(r) => q = r
  BY <1>8 DEF Alone, There
<1>11. IF \E r \in ToSet(made) : carried(r)
       THEN \A r \in There(d) : carried(r) => moved.owner[h] = DbOwner(r, h)
       ELSE moved.owner[h] = prev.handles.owner[h]
  <2>1. LegalOrder(u \o v) /\ OneUnit(u \o v, h) /\ OwnersNamed(v, h)
    BY <1>7 DEF u, v
  <2> DEFINE m == prev.handles
  <2> HIDE DEF m
  <2>2. m \in GoodHandles
    BY <1>4 DEF m
  <2>3. LET owner == ApplyHandleMoves(m, HandleChanges(AllOutputs(v))).owner[h]
        IN  IF \E r \in ToSet(AllOutputs(v)) : Carries(r, h)
            THEN \A r \in ToSet(Unspent(u \o v)) : Carries(r, h) => owner = DbOwner(r, h)
            ELSE owner = m.owner[h]
    BY <1>1, <2>1, <2>2, MovesFollow
  <2> QED BY <1>2, <2>3 DEF m, There
<1>12. h \in produced <=> \E r \in ToSet(made) : carried(r)
  <2>1. ToSet(changes) = UNION {MovesOf(r) : r \in ToSet(made)}
    BY <1>3, ChangesAre
  <2>2. produced = {x[1] : x \in ToSet(changes)}
    BY DEF ToSet
  <2>3. ToSet(made) \subseteq Refs
    <3> HIDE DEF made
    <3> QED BY <1>3, ElementIn DEF ToSet
  <2> HIDE DEF changes, made, produced
  <2>4. ASSUME h \in produced PROVE \E r \in ToSet(made) : carried(r)
    <3>1. PICK x \in ToSet(changes) : x[1] = h
      BY <2>2, <2>4
    <3>2. PICK q \in ToSet(made) : x \in MovesOf(q)
      BY <2>1
    <3>3. PICK g \in Handles : Carries(q, g) /\ x = <<g, Named(q, g)>>
      BY <3>2 DEF MovesOf
    <3> QED BY <3>1, <3>3
  <2>5. ASSUME NEW r \in ToSet(made), carried(r) PROVE h \in produced
    <3>1. h \in Virtual => OutputAt[r].datum # Nobody
      BY <2>5 DEF OwnersNamed, made, v
    <3>2. Named(r, h) # Nobody
      BY <2>3, <3>1, NamedIsOwner
    <3>3. <<h, Named(r, h)>> \in MovesOf(r)
      BY <2>5, <3>2 DEF MovesOf
    <3>4. <<h, Named(r, h)>> \in ToSet(changes) /\ <<h, Named(r, h)>>[1] = h
      BY <2>1, <3>3
    <3> QED BY <2>2, <3>4
  <2> QED BY <2>4, <2>5
<1>13. h \in ConsumedHandles(ins) <=> \E r \in ToSet(ins) : carried(r)
  BY DEF ConsumedHandles, Carries
<1>14. s.handles.owner[h]
         = IF h \in ConsumedHandles(ins) /\ h \notin produced THEN Nobody ELSE moved.owner[h]
  <2> DEFINE burned == ConsumedHandles(ins) \ produced
  <2>1. s.handles = IF burned = {} THEN moved ELSE BurnHandles(moved, burned)
    BY <1>5 DEF ApplyHandleUpdates
  <2> HIDE DEF moved, produced, ins
  <2>2. BurnHandles(moved, burned).owner[h] = IF h \in burned THEN Nobody ELSE moved.owner[h]
    BY DEF BurnHandles
  <2> QED BY <2>1, <2>2
<1>15. (\E r \in ToSet(made) : carried(r)) => \E r \in There(d) : carried(r)
  BY DEF d, v
<1>16. prev.handles.owner[h] \in {DbHandleOwner(c, h), DbHandleOwner(d, h)}
  BY DEF d
<1> HIDE DEF carried, made, ins, produced, moved
<1>17. CASE \E r \in ToSet(made) : carried(r)
  <2>1. PICK r \in There(d) : carried(r)
    BY <1>15, <1>17
  <2> QED BY <1>9, <1>11, <1>12, <1>14, <1>17, <2>1 DEF s, d
<1>18. CASE ~(\E r \in ToSet(made) : carried(r)) /\ \E r \in ToSet(ins) : carried(r)
  <2>1. PICK q \in ToSet(ins) : carried(q)
    BY <1>18
  <2>2. q \in There(c)
    BY <1>6, <1>18, <2>1
  <2>3. ~ \E r \in There(d) : carried(r)
    BY <1>6, <1>10, <1>18, <2>1, <2>2
  <2> QED BY <1>9, <1>12, <1>13, <1>14, <1>18, <2>3 DEF s, d
<1>19. CASE ~(\E r \in ToSet(made) : carried(r)) /\ ~(\E r \in ToSet(ins) : carried(r))
  <2>1. \A r : carried(r) => (r \in There(d) <=> r \in There(c))
    BY <1>6, <1>19
  <2>2. DbHandleOwner(c, h) = DbHandleOwner(d, h)
    <3>1. CASE \E r \in There(c) : carried(r)
      BY <1>9, <2>1, <3>1
    <3>2. CASE ~ \E r \in There(c) : carried(r)
      BY <1>9, <2>1, <3>2
    <3> QED BY <3>1, <3>2
  <2> QED BY <1>11, <1>13, <1>14, <1>16, <1>19, <2>2 DEF s, d
<1> QED BY <1>17, <1>18, <1>19

-----------------------------------------------------------------------------
(* The total staked *)

\* The credentials of a list of changes.
CredIn == [e \in Change |-> e.cred]

\* The credentials a list of changes names, in order.
Who(changes) == Mapped(changes, CredIn)

\* As many as there are changes.
LEMMA WhoIs ==
  ASSUME NEW changes \in Seq(Change)
  PROVE  /\ Who(changes) \in Seq(Creds) /\ Len(Who(changes)) = Len(changes)
         /\ DOMAIN changes = 1..Len(changes) /\ DOMAIN Who(changes) = 1..Len(changes)
         /\ \A i \in 1..Len(changes) : changes[i] \in Change /\ Who(changes)[i] = changes[i].cred
<1>1. CredIn \in [Change -> Creds]
  BY DEF CredIn, Change
<1>2. DOMAIN changes = 1..Len(changes) /\ \A i \in 1..Len(changes) : changes[i] \in Change
  BY LenNat
<1>3. Who(changes) \in Seq(Creds) /\ Len(Who(changes)) = Len(changes)
  <2>1. \A s \in Seq(Change) : Mapped(s, CredIn) \in Seq(Creds) /\ Len(Mapped(s, CredIn)) = Len(s)
    BY <1>1, MapType, ZenonT(40)
  <2> QED BY <2>1 DEF Who
<1>4. \A i \in 1..Len(changes) : Who(changes)[i] = changes[i].cred
  BY <1>2 DEF Who, Mapped, CredIn
<1>5. DOMAIN Who(changes) = 1..Len(changes)
  BY <1>2 DEF Who, Mapped
<1> QED BY <1>2, <1>3, <1>4, <1>5

\* Where a list of changes leaves the credentials: those it does not name
\* where they were, those it names once at the target it names.
Settled(d, slot, changes) ==
  LET after == ApplyDelegationChanges(d, changes, slot).runs
  IN  /\ \A k \in Creds \ ToSet(Who(changes)) : after[k] = d.runs[k]
      /\ Once(Who(changes)) =>
           \A i \in 1..Len(changes) : after[changes[i].cred].target = changes[i].target

\* Every list of changes does so.
LEMMA ChangesSettle ==
  ASSUME NEW d \in GoodDelegations, NEW slot \in Nat
  PROVE  \A changes \in Seq(Change) : Settled(d, slot, changes)
<1> DEFINE W == {s \in Seq(Change) : Settled(d, slot, s)}
<1>0. CredIn \in [Change -> Creds]
  BY DEF CredIn, Change
<1>1. <<>> \in W
  <2>1. ApplyDelegationChanges(d, <<>>, slot) = d
    BY DelegationStep
  <2>2. <<>> \in Seq(Change) /\ \A i \in 1..Len(<<>>) : FALSE
    OBVIOUS
  <2> QED BY <2>1, <2>2 DEF Settled
<1>2. ASSUME NEW s \in Seq(Change), NEW x \in Change, s \in W PROVE Append(s, x) \in W
  <2> DEFINE t == Append(s, x)
             n == Len(s)
             was == ApplyDelegationChanges(d, s, slot)
             now == ApplyDelegationChanges(d, t, slot)
  <2>1. /\ t \in Seq(Change) /\ n \in Nat /\ Len(t) = n + 1 /\ t[n + 1] = x
        /\ \A i \in 1..n : t[i] = s[i]
    BY LenNat, AppendIs
  <2>2. now = Delegate(was, x, slot)
    BY DelegationStep
  <2>3. was \in GoodDelegations
    BY DelegationChangesKeep
  <2>4. x.cred \in Creds
    BY DEF Change
  <2> HIDE DEF was, now
  <2>5. was.runs \in [Creds -> Run]
    BY <2>3 DEF GoodDelegations, Delegations
  <2>6. /\ \A k \in Creds \ {x.cred} : now.runs[k] = was.runs[k]
        /\ now.runs[x.cred].target = x.target
    BY <2>2, <2>4, <2>5 DEF Delegate, NoRun
  <2>7. Who(t) = Append(Who(s), x.cred)
    <3>1. Mapped(t, CredIn) = Append(Mapped(s, CredIn), CredIn[x])
      BY <1>0, MapAppend
    <3>2. CredIn[x] = x.cred
      BY DEF CredIn
    <3> QED BY <3>1, <3>2 DEF Who
  <2>8. /\ Who(s) \in Seq(Creds) /\ Len(Who(s)) = n
        /\ \A i \in 1..n : s[i] \in Change /\ Who(s)[i] = s[i].cred
        /\ DOMAIN Who(s) = 1..n
    BY WhoIs
  <2> DEFINE w == Who(s)
             y == x.cred
  <2> HIDE DEF t, n, w, y
  <2>9. /\ ToSet(Append(w, y)) = ToSet(w) \cup {y}
        /\ Once(Append(w, y)) => Once(w) /\ y \notin ToSet(w)
    BY <2>4, <2>8, AppendSet DEF w, y
  <2>10. /\ \A k \in Creds \ ToSet(w) : was.runs[k] = d.runs[k]
         /\ Once(w) => \A i \in 1..n : was.runs[s[i].cred].target = s[i].target
    BY <1>2 DEF Settled, was, w, n
  <2>11. \A k \in Creds \ ToSet(Who(t)) : now.runs[k] = d.runs[k]
    BY <2>6, <2>7, <2>9, <2>10 DEF w, y
  <2>12. ASSUME Once(Who(t)), NEW i \in 1..(n + 1)
         PROVE  now.runs[t[i].cred].target = t[i].target
    <3>1. Once(w) /\ y \notin ToSet(w)
      BY <2>7, <2>9, <2>12 DEF w, y
    <3>2. CASE i = n + 1
      BY <2>1, <2>6, <3>2
    <3>3. CASE i \in 1..n
      <4>1. s[i].cred \in ToSet(w)
        BY <2>8, <3>3 DEF ToSet, w
      <4>2. s[i].cred \in Creds /\ s[i].cred # x.cred
        BY <2>8, <3>1, <3>3, <4>1 DEF Change, y
      <4> QED BY <2>1, <2>6, <2>10, <3>1, <3>3, <4>2
    <3> QED BY <2>1, <3>2, <3>3
  <2>13. Settled(d, slot, t)
    BY <2>1, <2>11, <2>12 DEF Settled, now
  <2> QED BY <2>1, <2>13 DEF t
<1> HIDE DEF W
<1>3. \A s \in Seq(Change) : s \in W
  BY <1>1, <1>2, BuiltUp
<1> QED BY <1>3 DEF W

\* What a credential that enters or leaves the delegated set is worth.
Shift(old, new, value) ==
  [k \in Creds |->
     LET was == old[k].target # Nobody
         now == new[k].target # Nobody
     IN  IF was = now THEN 0 ELSE IF now THEN value[k] ELSE 0 - value[k]]

\* Changes that name each credential once move the total by what entered and
\* left.
LEMMA DeltaIsShift ==
  ASSUME NEW d \in GoodDelegations, NEW slot \in Nat, NEW changes \in Seq(Change),
         Once(Who(changes)), NEW value \in [Creds -> Int]
  PROVE  DelegationStakeDelta(d.runs, changes, value)
           = Worth(SetToSeq(Creds),
                   Shift(d.runs, ApplyDelegationChanges(d, changes, slot).runs, value))
<1> DEFINE after == ApplyDelegationChanges(d, changes, slot).runs
           shift == Shift(d.runs, after, value)
           w == Who(changes)
           order == SetToSeq(Creds)
           n == Len(changes)
           entry(i) == LET was == d.runs[changes[i].cred].target # Nobody
                           now == changes[i].target # Nobody
                       IN  IF was = now THEN 0
                           ELSE IF now THEN value[changes[i].cred]
                           ELSE 0 - value[changes[i].cred]
<1>1. /\ w \in Seq(Creds) /\ DOMAIN changes = 1..n /\ DOMAIN w = 1..n
      /\ \A i \in 1..n : changes[i] \in Change /\ w[i] = changes[i].cred
  BY WhoIs
<1>2. /\ order \in Seq(Creds) /\ Once(order) /\ ToSet(order) = Creds
  BY NamesAssumption, SetToSeqOnce
<1>3. /\ \A k \in Creds \ ToSet(w) : after[k] = d.runs[k]
      /\ \A i \in 1..n : after[changes[i].cred].target = changes[i].target
  BY ChangesSettle DEF Settled
<1>4. shift \in [Creds -> Int]
  BY DEF Shift
<1> HIDE DEF after
<1>5. \A k \in Creds \ ToSet(w) : shift[k] = 0
  BY <1>3 DEF Shift
<1>6. \A i \in 1..n : shift[w[i]] = entry(i)
  <2> SUFFICES ASSUME NEW i \in 1..n PROVE shift[w[i]] = entry(i)
    OBVIOUS
  <2>1. w[i] \in Creds /\ w[i] = changes[i].cred
    BY <1>1 DEF Change
  <2>2. after[w[i]].target = changes[i].target
    BY <1>3, <2>1
  <2> HIDE DEF w
  <2> QED BY <2>1, <2>2 DEF Shift
<1>7. DelegationStakeDelta(d.runs, changes, value) = SumSeq([i \in DOMAIN changes |-> entry(i)])
  BY ZenonT(20) DEF DelegationStakeDelta
<1> HIDE DEF shift, w, order, n, entry
<1>8. [i \in DOMAIN changes |-> entry(i)] = [i \in DOMAIN w |-> shift[w[i]]]
  BY <1>1, <1>6
<1>9. DelegationStakeDelta(d.runs, changes, value) = Worth(w, shift)
  BY <1>7, <1>8 DEF Worth
<1>10. ToSet(w) \subseteq Creds
  BY <1>1, ElementIn DEF ToSet
<1>11. Worth(order, Within(Creds, shift, ToSet(w))) = Worth(w, shift)
  <2>1. Once(w)
    BY DEF w
  <2> QED BY <1>1, <1>2, <1>4, <1>10, <2>1, WorthExchange
<1>12. Within(Creds, shift, ToSet(w)) = shift
  <2>1. \A k \in Creds : (IF k \in ToSet(w) THEN shift[k] ELSE 0) = shift[k]
    BY <1>5
  <2>2. shift = [k \in Creds |-> shift[k]]
    BY <1>4
  <2> QED BY <2>1, <2>2 DEF Within
<1>13. DelegationStakeDelta(d.runs, changes, value) = Worth(order, shift)
  BY <1>9, <1>11, <1>12
<1> QED BY <1>13 DEF order, shift, after

-----------------------------------------------------------------------------
(* The history *)

\* HistoryIsChainTail, of a history h and a chain c.
TailOf(h, c) ==
  /\ Len(h) <= Len(c)
  /\ \A i \in DOMAIN h :
       LET at == SubSeq(c, 1, Len(c) - Len(h) + i)
       IN  /\ h[i].slot = Last(at).slot
           /\ h[i].last_epoch = Epoch(Last(at).slot)
           /\ i > 1 => h[i].hash = at

\* The inductive invariant.  Slots increase along the chain: without it a
\* rollback could keep a snapshot of a later block.
IInv ==
  /\ chain \in Seq(Block) /\ chain # <<>> /\ SlotsIncrease(chain)
  /\ history \in Seq(GoodSnapshots)
  /\ Len(history) <= MaxHistory
  /\ seen \in Seq(Block)
  /\ TailOf(history, chain)

\* The last block of a prefix is the block at its length.
LEMMA LastOfPrefix ==
  ASSUME NEW Q, NEW c \in Seq(Q), NEW n \in 1..Len(c)
  PROVE  /\ SubSeq(c, 1, n) \in Seq(Q) /\ Len(SubSeq(c, 1, n)) = n
         /\ Last(SubSeq(c, 1, n)) = c[n]
         /\ \A i \in 1..n : SubSeq(c, 1, n)[i] = c[i]
         /\ \A m \in 1..n : SubSeq(SubSeq(c, 1, n), 1, m) = SubSeq(c, 1, m)
<1>1. Len(c) \in Nat
  BY LenNat
<1>2. SubSeq(c, 1, n) \in Seq(Q) /\ Len(SubSeq(c, 1, n)) = n
  BY <1>1
<1>3. \A i \in 1..n : SubSeq(c, 1, n)[i] = c[i]
  BY <1>1
<1>4. Last(SubSeq(c, 1, n)) = c[n]
  BY <1>2, <1>3 DEF Last
<1>5. ASSUME NEW m \in 1..n PROVE SubSeq(SubSeq(c, 1, n), 1, m) = SubSeq(c, 1, m)
  BY <1>1, <1>2
<1> QED BY <1>2, <1>3, <1>4, <1>5

\* A block appended to the chain and its snapshot to the history.
LEMMA AppendKeepsTail ==
  ASSUME NEW h \in Seq(GoodSnapshots), NEW c \in Seq(Block), TailOf(h, c),
         NEW s \in GoodSnapshots, NEW b \in Block,
         s.slot = b.slot, s.last_epoch = Epoch(b.slot), s.hash = Append(c, b)
  PROVE  TailOf(Append(h, s), Append(c, b))
<1> DEFINE g == Append(h, s)
           d == Append(c, b)
<1>1. /\ Len(h) \in Nat /\ Len(c) \in Nat /\ Len(h) <= Len(c)
      /\ g \in Seq(GoodSnapshots) /\ d \in Seq(Block)
      /\ Len(g) = Len(h) + 1 /\ Len(d) = Len(c) + 1
      /\ DOMAIN h = 1..Len(h) /\ DOMAIN g = 1..Len(g)
  BY LenNat DEF TailOf
<1>2. ASSUME NEW i \in DOMAIN h
      PROVE  /\ g[i] = h[i]
             /\ SubSeq(d, 1, Len(d) - Len(g) + i) = SubSeq(c, 1, Len(c) - Len(h) + i)
  <2> DEFINE n == Len(c) - Len(h) + i
  <2>1. n \in 1..Len(c) /\ Len(d) - Len(g) + i = n
    BY <1>1
  <2> HIDE DEF n
  <2>2. SubSeq(d, 1, n) = SubSeq(c, 1, n)
    BY <1>1, <2>1
  <2>3. g[i] = h[i]
    BY <1>1
  <2> QED BY <2>1, <2>2, <2>3 DEF n
<1>3. g[Len(g)] = s /\ SubSeq(d, 1, Len(d)) = d /\ Last(d) = b
  BY <1>1 DEF Last
<1> HIDE DEF g, d
<1>4. ASSUME NEW i \in DOMAIN g
      PROVE  LET at == SubSeq(d, 1, Len(d) - Len(g) + i)
             IN  /\ g[i].slot = Last(at).slot
                 /\ g[i].last_epoch = Epoch(Last(at).slot)
                 /\ i > 1 => g[i].hash = at
  <2>1. CASE i \in DOMAIN h
    BY <1>2, <2>1 DEF TailOf
  <2>2. CASE i = Len(g)
    <3>1. Len(d) - Len(g) + i = Len(d)
      BY <1>1, <2>2
    <3> QED BY <1>3, <2>2, <3>1 DEF d
  <2> QED BY <1>1, <2>1, <2>2
<1>5. Len(g) <= Len(d)
  BY <1>1
<1> QED BY <1>4, <1>5 DEF TailOf, g, d

\* Dropping the oldest snapshot leaves a tail.
LEMMA TrimKeepsTail ==
  ASSUME NEW h \in Seq(GoodSnapshots), NEW c \in Seq(Block), TailOf(h, c),
         Len(h) <= MaxHistory + 1
  PROVE  /\ Trim(h) \in Seq(GoodSnapshots) /\ Len(Trim(h)) <= MaxHistory
         /\ TailOf(Trim(h), c)
<1>1. Len(h) \in Nat /\ Len(c) \in Nat /\ Len(h) <= Len(c) /\ MaxHistory \in Nat \ {0}
  BY LenNat, ChainAssumption DEF TailOf
<1>2. CASE Len(h) <= MaxHistory
  BY <1>1, <1>2 DEF Trim
<1>3. CASE Len(h) > MaxHistory
  <2> DEFINE g == Tail(h)
  <2>1. /\ Trim(h) = g /\ g \in Seq(GoodSnapshots) /\ Len(g) = Len(h) - 1
        /\ \A i \in 1..Len(g) : g[i] = h[i + 1]
        /\ DOMAIN g = 1..Len(g) /\ DOMAIN h = 1..Len(h)
    BY <1>1, <1>3 DEF Trim
  <2> HIDE DEF g
  <2>2. ASSUME NEW i \in DOMAIN g
        PROVE  LET at == SubSeq(c, 1, Len(c) - Len(g) + i)
               IN  /\ g[i].slot = Last(at).slot
                   /\ g[i].last_epoch = Epoch(Last(at).slot)
                   /\ i > 1 => g[i].hash = at
    <3>0. i \in 1..Len(g) /\ i \in Nat /\ Len(g) = Len(h) - 1
      BY <1>1, <2>1
    <3>1. i + 1 \in DOMAIN h
      BY <1>1, <2>1, <3>0
    <3>2. Len(c) - Len(g) + i = Len(c) - Len(h) + (i + 1)
      BY <1>1, <3>0
    <3>3. g[i] = h[i + 1] /\ (i > 1 => i + 1 > 1)
      BY <2>1, <3>0
    <3> QED BY <3>1, <3>2, <3>3 DEF TailOf
  <2>3. Len(g) <= Len(c) /\ Len(g) <= MaxHistory
    BY <1>1, <2>1
  <2> QED BY <2>1, <2>2, <2>3 DEF TailOf
<1> QED BY <1>1, <1>2, <1>3

\* Cutting both back to the same block leaves a tail.
LEMMA CutKeepsTail ==
  ASSUME NEW h \in Seq(GoodSnapshots), NEW c \in Seq(Block), TailOf(h, c),
         NEW k \in 1..Len(h), NEW n, n = Len(c) - Len(h) + k
  PROVE  TailOf(SubSeq(h, 1, k), SubSeq(c, 1, n))
<1> DEFINE g == SubSeq(h, 1, k)
           d == SubSeq(c, 1, n)
<1>1. Len(h) \in Nat /\ Len(c) \in Nat /\ Len(h) <= Len(c)
  BY LenNat DEF TailOf
<1>2. n \in 1..Len(c)
  BY <1>1
<1>3. /\ Len(g) = k /\ Len(d) = n /\ DOMAIN g = 1..k /\ DOMAIN h = 1..Len(h)
      /\ \A i \in 1..k : g[i] = h[i]
      /\ \A m \in 1..n : SubSeq(d, 1, m) = SubSeq(c, 1, m)
  BY <1>1, <1>2, LastOfPrefix, LenNat
<1> HIDE DEF g, d
<1>4. ASSUME NEW i \in DOMAIN g
      PROVE  LET at == SubSeq(d, 1, Len(d) - Len(g) + i)
             IN  /\ g[i].slot = Last(at).slot
                 /\ g[i].last_epoch = Epoch(Last(at).slot)
                 /\ i > 1 => g[i].hash = at
  <2>1. /\ i \in DOMAIN h /\ g[i] = h[i]
        /\ Len(d) - Len(g) + i = Len(c) - Len(h) + i
        /\ Len(c) - Len(h) + i \in 1..n
    BY <1>1, <1>2, <1>3
  <2> QED BY <1>3, <2>1 DEF TailOf
<1>5. Len(g) <= Len(d)
  BY <1>1, <1>3
<1> QED BY <1>4, <1>5 DEF TailOf, g, d

\* The blocks of a chain have slots and transactions.
LEMMA BlockSlots ==
  ASSUME NEW c \in Seq(Block), NEW n \in 1..Len(c)
  PROVE  c[n] \in Block /\ c[n].slot \in Nat /\ c[n].txs \in Seq(Txs)
<1>1. c[n] \in Block
  BY LenNat
<1> QED BY <1>1 DEF Block

\* A rollback to a block the history covers keeps the snapshot of that block
\* and the older ones.
LEMMA KeptIsExact ==
  ASSUME IInv, NEW n \in DOMAIN chain, Kept(chain[n].slot) > 0
  PROVE  /\ Kept(chain[n].slot) \in 1..Len(history)
         /\ n = Len(chain) - Len(history) + Kept(chain[n].slot)
<1> DEFINE old == {i \in DOMAIN history : history[i].slot <= chain[n].slot}
           k == Kept(chain[n].slot)
           at(i) == Len(chain) - Len(history) + i
<1>1. /\ Len(chain) \in Nat /\ Len(history) \in Nat /\ Len(history) <= Len(chain)
      /\ DOMAIN chain = 1..Len(chain) /\ DOMAIN history = 1..Len(history)
  BY LenNat DEF IInv, TailOf
<1>2. old # {} /\ k = Max(old)
  BY DEF Kept
<1>3. old \subseteq 0..Len(history)
  BY <1>1
<1>4. k \in old /\ \A y \in old : k >= y
  <2> HIDE DEF old
  <2> QED BY <1>1, <1>2, <1>3, MaxIndex
<1>5. ASSUME NEW i \in DOMAIN history
      PROVE  at(i) \in 1..Len(chain) /\ history[i].slot = chain[at(i)].slot
  <2>1. at(i) \in 1..Len(chain)
    BY <1>1
  <2>2. history[i].slot = Last(SubSeq(chain, 1, at(i))).slot
    BY DEF IInv, TailOf
  <2> HIDE DEF at
  <2>3. Last(SubSeq(chain, 1, at(i))) = chain[at(i)]
    BY <2>1, LastOfPrefix DEF IInv
  <2> QED BY <2>1, <2>2, <2>3
<1>6. /\ \A m \in 1..Len(chain) : chain[m].slot \in Nat
      /\ \A l, m \in 1..Len(chain) : l < m => chain[l].slot < chain[m].slot
  BY <1>1, BlockSlots DEF IInv, SlotsIncrease
<1>7. k \in 1..Len(history) /\ history[k].slot <= chain[n].slot
  BY <1>1, <1>4
<1>8. at(k) <= n
  <2>1. at(k) \in 1..Len(chain) /\ chain[at(k)].slot <= chain[n].slot
    BY <1>1, <1>5, <1>7
  <2> HIDE DEF at, k
  <2>2. ~(n < at(k))
    BY <1>1, <1>6, <2>1
  <2> QED BY <1>1, <2>1, <2>2
<1>9. at(k) >= n
  <2>1. SUFFICES ASSUME at(k) < n PROVE FALSE
    BY <1>1, <1>7
  <2>2. n - (Len(chain) - Len(history)) \in DOMAIN history
    BY <1>1, <1>7, <2>1
  <2> DEFINE j == n - (Len(chain) - Len(history))
  <2>3. at(j) = n /\ j > k
    BY <1>1, <1>7, <2>1
  <2>4. j \in old
    <3>1. history[j].slot = chain[n].slot
      BY <1>5, <2>2, <2>3
    <3> QED BY <1>1, <1>6, <2>2, <3>1
  <2> HIDE DEF j, at, old, k
  <2>5. k >= j
    BY <1>4, <2>4
  <2> QED BY <1>1, <1>7, <2>2, <2>3, <2>5 DEF j
<1> QED BY <1>1, <1>7, <1>8, <1>9

-----------------------------------------------------------------------------

\* The chain at first, an empty history.
LEMMA InitIInv == Init => IInv
<1> SUFFICES ASSUME Init PROVE IInv
  OBVIOUS
<1>1. chain \in Seq(Block) /\ chain # <<>> /\ SlotsIncrease(chain)
  BY ChainAssumption DEF Init
<1>2. history \in Seq(GoodSnapshots) /\ Len(history) = 0 /\ DOMAIN history = {}
  BY DEF Init
<1>3. Len(history) <= MaxHistory
  BY <1>2, ChainAssumption
<1>4. TailOf(history, chain)
  BY <1>1, <1>2, LenNat DEF TailOf
<1>5. seen \in Seq(Block)
  BY DEF Init
<1> QED BY <1>1, <1>2, <1>3, <1>4, <1>5 DEF IInv

\* The blocks that may follow c are blocks, of a later slot.
LEMMA NextBlocksType ==
  ASSUME NEW c \in Seq(Block), c # <<>>, NEW b \in NextBlocks(c)
  PROVE  b \in Block /\ b.slot > Last(c).slot /\ Last(c) = c[Len(c)]
<1>1. Len(c) \in Nat /\ Len(c) \in 1..Len(c) /\ Last(c) = c[Len(c)]
  BY LenNat DEF Last
<1>2. c[Len(c)].slot \in Nat
  BY <1>1, BlockSlots
<1> DEFINE fresh == Txs \ ToSet(TxsOf(c))
<1>3. /\ b \in [slot : (Last(c).slot + 1)..(Last(c).slot + MaxGap),
                txs : SeqOf(fresh, BlockSize), issuer : Issuers]
      /\ LegalBlock(c, b)
  BY DEF NextBlocks
<1>4. b.slot \in Nat /\ b.slot > Last(c).slot
  BY <1>1, <1>2, <1>3, ChainAssumption
<1>5. b.txs \in Seq(Txs)
  <2>1. SeqOf(fresh, BlockSize) = UNION {[1..m -> fresh] : m \in 0..BlockSize}
    BY DEF SeqOf
  <2>2. b.txs \in SeqOf(fresh, BlockSize)
    BY <1>3
  <2>3. PICK m \in 0..BlockSize : b.txs \in [1..m -> fresh]
    BY <2>1, <2>2, SMTT(30)
  <2>4. m \in Nat /\ b.txs \in [1..m -> Txs]
    BY <2>3, ChainAssumption
  <2> QED BY <2>4
<1>6. b.issuer \in Pools
  BY <1>3, ChainAssumption
<1>7. b = [slot |-> b.slot, txs |-> b.txs, issuer |-> b.issuer]
  BY <1>3
<1> QED BY <1>1, <1>4, <1>5, <1>6, <1>7 DEF Block

\* What db-sync stores is a chain.
LEMMA DbViewsType ==
  ASSUME IInv, NEW n \in DOMAIN chain, NEW db \in DbViews(n)
  PROVE  db \in Seq(Block)
<1>1. Len(chain) \in Nat /\ DOMAIN chain = 1..Len(chain) /\ chain \in Seq(Block)
  BY LenNat DEF IInv
<1>2. ASSUME NEW m \in 1..Len(chain) PROVE Prefix(m) \in Seq(Block) /\ Prefix(m) # <<>>
  <2>1. Prefix(m) \in Seq(Block) /\ Len(Prefix(m)) = m
    BY <1>1, LastOfPrefix DEF Prefix
  <2> QED BY <1>1, <2>1
<1>3. CASE db = Prefix(n)
  BY <1>1, <1>2, <1>3
<1>4. CASE \E b \in NextBlocks(Prefix(n)) : db = Append(Prefix(n), b)
  <2>1. PICK b \in NextBlocks(Prefix(n)) : db = Append(Prefix(n), b)
    BY <1>4
  <2>2. Prefix(n) \in Seq(Block) /\ Prefix(n) # <<>>
    BY <1>1, <1>2
  <2>3. b \in Block
    BY <2>2, NextBlocksType
  <2> QED BY <2>1, <2>2, <2>3
<1>5. CASE n < Len(chain) /\ db = Prefix(n + 1)
  <2>1. n + 1 \in 1..Len(chain)
    BY <1>1, <1>5
  <2> QED BY <1>2, <1>5, <2>1
<1>6. CASE \E m \in 1..(n - 1) : db = Prefix(m)
  <2>1. PICK m \in 1..(n - 1) : db = Prefix(m)
    BY <1>6
  <2>2. m \in 1..Len(chain)
    BY <1>1
  <2> QED BY <1>2, <2>1, <2>2
<1> QED BY <1>3, <1>4, <1>5, <1>6 DEF DbViews

\* A longer chain of increasing slots.
LEMMA AppendKeepsSlots ==
  ASSUME NEW c \in Seq(Block), c # <<>>, SlotsIncrease(c),
         NEW b \in Block, b.slot > c[Len(c)].slot
  PROVE  SlotsIncrease(Append(c, b))
<1> DEFINE d == Append(c, b)
<1>1. /\ Len(c) \in Nat /\ DOMAIN c = 1..Len(c) /\ Len(c) \in 1..Len(c)
      /\ DOMAIN d = 1..(Len(c) + 1) /\ d[Len(c) + 1] = b
      /\ \A i \in 1..Len(c) : d[i] = c[i]
  BY LenNat
<1>2. /\ \A i \in 1..Len(c) : c[i].slot \in Nat
      /\ b.slot \in Nat
      /\ \A i, j \in 1..Len(c) : i < j => c[i].slot < c[j].slot
  BY <1>1, BlockSlots DEF SlotsIncrease, Block
<1> HIDE DEF d
<1>3. ASSUME NEW i \in DOMAIN d, NEW j \in DOMAIN d, i < j
      PROVE  d[i].slot < d[j].slot
  <2>1. i \in 1..Len(c)
    BY <1>1, <1>3
  <2>2. CASE j \in 1..Len(c)
    BY <1>1, <1>2, <1>3, <2>1, <2>2
  <2>3. CASE j = Len(c) + 1
    <3>1. c[i].slot <= c[Len(c)].slot
      BY <1>1, <1>2, <2>1
    <3> QED BY <1>1, <1>2, <2>1, <2>3, <3>1
  <2> QED BY <1>1, <2>2, <2>3
<1> QED BY <1>3 DEF SlotsIncrease, d

\* So is a prefix of one.
LEMMA PrefixKeepsSlots ==
  ASSUME NEW c \in Seq(Block), SlotsIncrease(c), NEW n \in 1..Len(c)
  PROVE  SlotsIncrease(SubSeq(c, 1, n))
<1>1. Len(c) \in Nat /\ DOMAIN c = 1..Len(c) /\ DOMAIN SubSeq(c, 1, n) = 1..n
  BY LenNat, LastOfPrefix
<1>2. \A i \in 1..n : SubSeq(c, 1, n)[i] = c[i] /\ i \in DOMAIN c
  BY <1>1, LastOfPrefix
<1> QED BY <1>1, <1>2 DEF SlotsIncrease

-----------------------------------------------------------------------------
(* One lemma per action *)

\* A block: its snapshot is added, the oldest one may be dropped.
LEMMA ApplyKeepsIInv ==
  ASSUME IInv, NEW b \in NextBlocks(chain), NEW lost, NEW fetched \in BOOLEAN,
         Apply(b, lost, fetched)
  PROVE  IInv'
<1> DEFINE s == ApplyBlock(Last(history), chain, b, lost, fetched)
           h == Append(history, s)
<1>1. /\ chain \in Seq(Block) /\ chain # <<>> /\ SlotsIncrease(chain)
      /\ history \in Seq(GoodSnapshots) /\ Len(history) <= MaxHistory
      /\ seen \in Seq(Block) /\ TailOf(history, chain) /\ history # <<>>
  BY DEF IInv, Apply
<1>2. b \in Block /\ b.slot > chain[Len(chain)].slot
  BY <1>1, NextBlocksType
<1>3. Last(history) \in GoodSnapshots
  <2>1. Len(history) \in Nat /\ Len(history) \in DOMAIN history
    BY <1>1, LenNat
  <2> QED BY <1>1, <2>1, ElementIn DEF Last
<1>4. s \in GoodSnapshots
  BY <1>1, <1>2, <1>3, ApplyBlockKeeps
<1>5. s.slot = b.slot /\ s.last_epoch = Epoch(b.slot) /\ s.hash = Append(chain, b)
  BY DEF ApplyBlock
<1>6. chain' = Append(chain, b) /\ history' = Trim(h) /\ seen' = seen
  BY DEF Apply
<1> HIDE DEF s
<1>7. TailOf(h, chain')
  BY <1>1, <1>2, <1>4, <1>5, <1>6, AppendKeepsTail
<1>8. h \in Seq(GoodSnapshots) /\ Len(h) <= MaxHistory + 1
  BY <1>1, <1>4, LenNat, ChainAssumption
<1>9. chain' \in Seq(Block) /\ chain' # <<>> /\ SlotsIncrease(chain')
  <2>1. Append(chain, b) \in Seq(Block) /\ Append(chain, b) # <<>>
    BY <1>1, <1>2
  <2> QED BY <1>1, <1>2, <1>6, <2>1, AppendKeepsSlots
<1> HIDE DEF h
<1>10. /\ history' \in Seq(GoodSnapshots) /\ Len(history') <= MaxHistory
       /\ TailOf(history', chain')
  BY <1>6, <1>7, <1>8, <1>9, TrimKeepsTail
<1> QED BY <1>1, <1>6, <1>9, <1>10 DEF IInv

\* A rollback within the history.
LEMMA TruncateKeepsIInv ==
  ASSUME IInv, NEW n \in DOMAIN chain, Truncate(n)
  PROVE  IInv'
<1> DEFINE k == Kept(chain[n].slot)
<1>1. /\ chain \in Seq(Block) /\ SlotsIncrease(chain) /\ Len(chain) \in Nat
      /\ history \in Seq(GoodSnapshots) /\ Len(history) <= MaxHistory
      /\ Len(history) \in Nat /\ seen \in Seq(Block) /\ TailOf(history, chain)
      /\ n \in 1..Len(chain)
  BY LenNat DEF IInv
<1>2. k \in 1..Len(history) /\ n = Len(chain) - Len(history) + k
  BY KeptIsExact DEF Truncate
<1>3. history' = SubSeq(history, 1, k) /\ chain' = SubSeq(chain, 1, n) /\ seen' = seen
  BY DEF Truncate, Prefix
<1> HIDE DEF k
<1>4. TailOf(history', chain')
  BY <1>1, <1>2, <1>3, CutKeepsTail
<1>5. /\ chain' \in Seq(Block) /\ Len(chain') = n /\ SlotsIncrease(chain')
  BY <1>1, <1>3, LastOfPrefix, PrefixKeepsSlots
<1>6. history' \in Seq(GoodSnapshots) /\ Len(history') = k
  BY <1>1, <1>2, <1>3, LastOfPrefix
<1>7. chain' # <<>> /\ Len(history') <= MaxHistory
  BY <1>1, <1>2, <1>5, <1>6, ChainAssumption
<1> QED BY <1>1, <1>3, <1>4, <1>5, <1>6, <1>7 DEF IInv

\* A rollback beyond it: one new snapshot.
LEMMA ResetKeepsIInv ==
  ASSUME IInv, NEW n \in DOMAIN chain, NEW db \in DbViews(n), Reset(n, db)
  PROVE  IInv'
<1> DEFINE slot == chain[n].slot
           missed == IF IsPrefix(Prefix(n), db) THEN {} ELSE {"lag"}
           s == ResetSnapshot(db, slot, missed)
<1>1. /\ chain \in Seq(Block) /\ SlotsIncrease(chain) /\ Len(chain) \in Nat
      /\ n \in 1..Len(chain)
  BY LenNat DEF IInv
<1>2. slot \in Nat /\ db \in Seq(Block)
  BY <1>1, BlockSlots, DbViewsType
<1>3. s \in GoodSnapshots /\ s.slot = slot /\ s.last_epoch = Epoch(slot)
  <2>1. missed \in SUBSET {"input", "reward", "lag"}
    OBVIOUS
  <2>2. s.slot = slot /\ s.last_epoch = Epoch(slot)
    BY DEF ResetSnapshot
  <2> HIDE DEF missed
  <2> QED BY <1>2, <2>1, <2>2, ResetKeeps
<1>4. history' = <<s>> /\ chain' = SubSeq(chain, 1, n) /\ seen' = db
  BY DEF Reset, Prefix
<1> HIDE DEF s, missed
<1>5. /\ chain' \in Seq(Block) /\ Len(chain') = n /\ SlotsIncrease(chain')
      /\ Last(chain') = chain[n] /\ SubSeq(chain', 1, n) = chain'
  BY <1>1, <1>4, LastOfPrefix, PrefixKeepsSlots
<1>6. /\ history' \in Seq(GoodSnapshots) /\ Len(history') = 1
      /\ DOMAIN history' = {1} /\ history'[1] = s
  BY <1>3, <1>4
<1>7. TailOf(history', chain')
  <2>1. Len(chain') - Len(history') + 1 = n /\ Len(history') <= Len(chain')
    BY <1>1, <1>5, <1>6
  <2>2. Last(SubSeq(chain', 1, Len(chain') - Len(history') + 1)).slot = s.slot
    BY <1>3, <1>5, <2>1
  <2>3. s.last_epoch = Epoch(s.slot) /\ ~(1 > 1)
    BY <1>3
  <2>4. ASSUME NEW i \in DOMAIN history'
        PROVE  LET at == SubSeq(chain', 1, Len(chain') - Len(history') + i)
               IN  /\ history'[i].slot = Last(at).slot
                   /\ history'[i].last_epoch = Epoch(Last(at).slot)
                   /\ i > 1 => history'[i].hash = at
    <3>1. i = 1 /\ history'[i] = s
      BY <1>6
    <3> QED BY <2>2, <2>3, <3>1
  <2> QED BY <2>1, <2>4 DEF TailOf
<1>8. chain' # <<>> /\ Len(history') <= MaxHistory
  BY <1>1, <1>5, <1>6, ChainAssumption
<1> QED BY <1>2, <1>4, <1>5, <1>6, <1>7, <1>8 DEF IInv

\* Every step.
LEMMA NextKeepsIInv == IInv /\ [Next]_vars => IInv'
<1> SUFFICES ASSUME IInv, [Next]_vars PROVE IInv'
  OBVIOUS
<1>1. CASE ApplySome
  <2>1. PICK b \in NextBlocks(chain) :
          \E lost \in (IF "input" \in Faults THEN SUBSET NeedDb(Last(history), b)
                       ELSE {{}}),
             fetched \in (IF "reward" \in Faults THEN BOOLEAN ELSE {TRUE}) :
            Apply(b, lost, fetched)
    BY <1>1 DEF ApplySome
  <2>2. PICK lost \in (IF "input" \in Faults THEN SUBSET NeedDb(Last(history), b)
                       ELSE {{}}),
             fetched \in (IF "reward" \in Faults THEN BOOLEAN ELSE {TRUE}) :
               Apply(b, lost, fetched)
    BY <2>1
  <2>3. fetched \in BOOLEAN
    OBVIOUS
  <2> QED BY <2>2, <2>3, ApplyKeepsIInv
<1>2. CASE TruncateSome
  BY <1>2, TruncateKeepsIInv DEF TruncateSome
<1>3. CASE ResetSome
  BY <1>3, ResetKeepsIInv DEF ResetSome
<1>4. CASE UNCHANGED vars
  BY <1>4 DEF vars, IInv
<1> QED BY <1>1, <1>2, <1>3, <1>4 DEF Next

\* The invariant holds throughout, of every chain and every MaxHistory.
THEOREM Invariance == Spec => []IInv
BY InitIInv, NextKeepsIInv, PTL DEF Spec

-----------------------------------------------------------------------------
(* What follows from it *)

\* The chain, the history and its length keep their types through blocks,
\* rollbacks and resets (BlockSnapshot, MAX_HISTORY).
THEOREM TypeCorrect == Spec => []TypeOK
<1>1. GoodSnapshots \subseteq Snapshot
  BY DEF GoodSnapshots
<1>2. IInv => TypeOK
  <2> SUFFICES ASSUME IInv PROVE TypeOK
    OBVIOUS
  <2>1. history \in Seq(Snapshot)
    BY <1>1 DEF IInv
  <2> QED BY <2>1 DEF IInv, TypeOK
<1> QED BY <1>2, Invariance, PTL

\* The history is the tail of the chain followed, whatever blocks, rollbacks
\* and resets came before (State::apply_block, rollback and reset).
THEOREM HistoryFollowsChain == Spec => []HistoryIsChainTail
<1>1. IInv => HistoryIsChainTail
  BY DEF IInv, TailOf, HistoryIsChainTail, ChainAt, Prefix
<1> QED BY <1>1, Invariance, PTL

\* The reverse indexes of delegations and handles agree with the maps they
\* invert, in every snapshot kept (apply_delegation_changes,
\* apply_handle_updates, build_handle_by_stake).
THEOREM IndexesStayExact == Spec => []IndexesAgree
<1>1. IInv => IndexesAgree
  <2> SUFFICES ASSUME IInv, NEW i \in DOMAIN history
               PROVE  /\ \A r \in Roles : MembersAgree(history[i].delegations[r])
                      /\ HandlesAgree(history[i].handles)
    BY DEF IndexesAgree
  <2>1. history[i] \in GoodSnapshots
    BY ElementIn DEF IInv
  <2> QED BY <2>1 DEF GoodSnapshots
<1> QED BY <1>1, Invariance, PTL

-----------------------------------------------------------------------------
(* Snapshots and the chains they were taken at *)

\* The chain that ended in the block of the i-th snapshot of h.
At(h, c, i) == SubSeq(c, 1, Len(c) - Len(h) + i)

\* A block and its snapshot leave the earlier ones where they are.
LEMMA AtAppend ==
  ASSUME NEW A, NEW B, NEW h \in Seq(A), NEW c \in Seq(B), Len(h) <= Len(c),
         NEW s \in A, NEW b \in B
  PROVE  /\ Append(h, s) \in Seq(A) /\ Append(c, b) \in Seq(B)
         /\ Len(Append(h, s)) = Len(h) + 1
         /\ Len(Append(h, s)) <= Len(Append(c, b))
         /\ DOMAIN Append(h, s) = 1..(Len(h) + 1) /\ Append(h, s)[Len(h) + 1] = s
         /\ At(Append(h, s), Append(c, b), Len(h) + 1) = Append(c, b)
         /\ \A i \in 1..Len(h) : /\ Append(h, s)[i] = h[i]
                                 /\ At(Append(h, s), Append(c, b), i) = At(h, c, i)
<1> DEFINE g == Append(h, s)
           d == Append(c, b)
<1>1. /\ Len(h) \in Nat /\ Len(c) \in Nat
      /\ g \in Seq(A) /\ d \in Seq(B)
      /\ Len(g) = Len(h) + 1 /\ Len(d) = Len(c) + 1
      /\ DOMAIN h = 1..Len(h) /\ DOMAIN g = 1..(Len(h) + 1)
      /\ g[Len(h) + 1] = s /\ SubSeq(d, 1, Len(d)) = d
  BY LenNat
<1>2. ASSUME NEW i \in 1..Len(h)
      PROVE  g[i] = h[i] /\ At(g, d, i) = At(h, c, i)
  <2> DEFINE n == Len(c) - Len(h) + i
  <2>1. n \in 1..Len(c) /\ Len(d) - Len(g) + i = n
    BY <1>1
  <2> HIDE DEF n
  <2>2. SubSeq(d, 1, n) = SubSeq(c, 1, n)
    BY <1>1, <2>1
  <2>3. g[i] = h[i]
    BY <1>1
  <2> QED BY <2>1, <2>2, <2>3 DEF n, At
<1>3. At(g, d, Len(h) + 1) = d
  <2>1. Len(d) - Len(g) + (Len(h) + 1) = Len(d)
    BY <1>1
  <2> QED BY <1>1, <2>1 DEF At
<1>4. Len(g) <= Len(d)
  BY <1>1
<1> QED BY <1>1, <1>2, <1>3, <1>4

\* Without the oldest snapshot.
LEMMA AtTail ==
  ASSUME NEW A, NEW B, NEW h \in Seq(A), NEW c \in Seq(B), Len(h) <= Len(c), Len(h) > 0
  PROVE  /\ Tail(h) \in Seq(A) /\ DOMAIN Tail(h) = 1..(Len(h) - 1) /\ Len(Tail(h)) <= Len(c)
         /\ \A i \in 1..(Len(h) - 1) : /\ i + 1 \in 1..Len(h)
                                       /\ Tail(h)[i] = h[i + 1]
                                       /\ At(Tail(h), c, i) = At(h, c, i + 1)
<1> DEFINE g == Tail(h)
<1>1. Len(h) \in Nat /\ Len(c) \in Nat
  BY LenNat
<1>2. /\ g \in Seq(A) /\ Len(g) = Len(h) - 1 /\ DOMAIN g = 1..(Len(h) - 1)
      /\ \A i \in 1..(Len(h) - 1) : g[i] = h[i + 1]
  BY <1>1
<1> HIDE DEF g
<1>3. ASSUME NEW i \in 1..(Len(h) - 1)
      PROVE  i + 1 \in 1..Len(h) /\ Len(c) - Len(g) + i = Len(c) - Len(h) + (i + 1)
  BY <1>1, <1>2
<1>4. Len(g) <= Len(c)
  BY <1>1, <1>2
<1> QED BY <1>2, <1>3, <1>4 DEF At, g

\* Both cut back to the block of the k-th snapshot.
LEMMA AtCut ==
  ASSUME NEW A, NEW B, NEW h \in Seq(A), NEW c \in Seq(B), Len(h) <= Len(c),
         NEW k \in 1..Len(h), NEW n, n = Len(c) - Len(h) + k
  PROVE  /\ DOMAIN SubSeq(h, 1, k) = 1..k
         /\ \A i \in 1..k : /\ i \in 1..Len(h)
                            /\ SubSeq(h, 1, k)[i] = h[i]
                            /\ At(SubSeq(h, 1, k), SubSeq(c, 1, n), i) = At(h, c, i)
<1> DEFINE g == SubSeq(h, 1, k)
           d == SubSeq(c, 1, n)
<1>1. Len(h) \in Nat /\ Len(c) \in Nat
  BY LenNat
<1>2. n \in 1..Len(c)
  BY <1>1
<1>3. /\ Len(g) = k /\ g \in Seq(A)
      /\ \A i \in 1..k : g[i] = h[i]
  BY LastOfPrefix
<1>4. DOMAIN g = 1..k
  BY <1>3, LenNat
<1>5. Len(d) = n /\ \A m \in 1..n : SubSeq(d, 1, m) = SubSeq(c, 1, m)
  BY <1>2, LastOfPrefix
<1> HIDE DEF g, d
<1>6. ASSUME NEW i \in 1..k PROVE i \in 1..Len(h) /\ At(g, d, i) = At(h, c, i)
  <2>1. /\ i \in 1..Len(h) /\ Len(d) - Len(g) + i = Len(c) - Len(h) + i
        /\ Len(c) - Len(h) + i \in 1..n
    BY <1>1, <1>2, <1>3, <1>5
  <2> QED BY <1>5, <2>1 DEF At
<1> QED BY <1>3, <1>4, <1>6 DEF g, d

\* The cache of each snapshot, of a history h and a chain c.
CachesOf(h, c) ==
  \A i \in DOMAIN h :
    /\ h[i].utxos \subseteq There(At(h, c, i))
    /\ \A j \in DOMAIN h : j < i =>
         There(At(h, c, i)) \ There(At(h, c, j)) \subseteq h[i].utxos

\* A block and its snapshot.
LEMMA AppendKeepsCaches ==
  ASSUME NEW A, NEW h \in Seq(A), NEW c \in Seq(Block), Len(h) <= Len(c), h # <<>>,
         CachesOf(h, c), NEW s \in A, NEW b \in Block,
         s.utxos \subseteq There(Append(c, b)),
         \A old : There(c) \ old \subseteq Last(h).utxos =>
                    There(Append(c, b)) \ old \subseteq s.utxos
  PROVE  CachesOf(Append(h, s), Append(c, b))
<1> DEFINE g == Append(h, s)
           d == Append(c, b)
           m == Len(h)
<1>1. m \in Nat /\ DOMAIN h = 1..m
  BY LenNat
<1>2. /\ DOMAIN g = 1..(m + 1) /\ g[m + 1] = s
      /\ At(g, d, m + 1) = d
      /\ \A i \in 1..m : g[i] = h[i] /\ At(g, d, i) = At(h, c, i)
  BY AtAppend
<1>3. m \in 1..m /\ Last(h) = h[m]
  BY LenNat DEF Last
<1>4. At(h, c, m) = c
  <2>1. Len(c) \in Nat
    BY LenNat
  <2>2. Len(c) - Len(h) + m = Len(c)
    BY <1>1, <2>1
  <2>3. SubSeq(c, 1, Len(c)) = c
    BY PrefixStep
  <2> QED BY <2>2, <2>3 DEF At
<1> HIDE DEF g, d, m
<1>5. ASSUME NEW j \in 1..m PROVE There(d) \ There(At(h, c, j)) \subseteq s.utxos
  <2>1. There(c) \ There(At(h, c, j)) \subseteq h[m].utxos
    <3>1. CASE j = m
      BY <1>4, <3>1
    <3>2. CASE j < m
      BY <1>1, <1>3, <1>4, <3>2 DEF CachesOf
    <3> QED BY <1>1, <3>1, <3>2
  <2> QED BY <1>3, <2>1 DEF d
<1>6. ASSUME NEW i \in DOMAIN g
      PROVE  /\ g[i].utxos \subseteq There(At(g, d, i))
             /\ \A j \in DOMAIN g : j < i =>
                  There(At(g, d, i)) \ There(At(g, d, j)) \subseteq g[i].utxos
  <2>1. CASE i = m + 1
    <3>1. \A j \in DOMAIN g : j < i => j \in 1..m
      BY <1>1, <1>2, <2>1
    <3> QED BY <1>2, <1>5, <2>1, <3>1 DEF d
  <2>2. CASE i \in 1..m
    <3>1. \A j \in DOMAIN g : j < i => j \in 1..m
      BY <1>1, <1>2, <2>2
    <3> QED BY <1>1, <1>2, <2>2, <3>1 DEF CachesOf
  <2> QED BY <1>1, <1>2, <2>1, <2>2
<1> QED BY <1>6 DEF CachesOf, g, d

\* Without the oldest snapshot.
LEMMA TailKeepsCaches ==
  ASSUME NEW A, NEW h \in Seq(A), NEW c \in Seq(Block), Len(h) <= Len(c), Len(h) > 0,
         CachesOf(h, c)
  PROVE  CachesOf(Tail(h), c)
<1> DEFINE g == Tail(h)
           m == Len(h) - 1
<1>1. Len(h) \in Nat /\ DOMAIN h = 1..Len(h)
  BY LenNat
<1>2. /\ DOMAIN g = 1..m
      /\ \A i \in 1..m : /\ i + 1 \in 1..Len(h) /\ g[i] = h[i + 1]
                         /\ At(g, c, i) = At(h, c, i + 1)
  BY AtTail
<1>3. \A i, j \in 1..m : j < i => j + 1 < i + 1
  BY <1>1
<1> HIDE DEF g, m
<1> QED BY <1>1, <1>2, <1>3 DEF CachesOf, g

\* After a rollback.
LEMMA CutKeepsCaches ==
  ASSUME NEW A, NEW h \in Seq(A), NEW c \in Seq(Block), Len(h) <= Len(c),
         NEW k \in 1..Len(h), NEW n, n = Len(c) - Len(h) + k, CachesOf(h, c)
  PROVE  CachesOf(SubSeq(h, 1, k), SubSeq(c, 1, n))
<1>1. DOMAIN h = 1..Len(h)
  BY LenNat
<1> DEFINE g == SubSeq(h, 1, k)
           d == SubSeq(c, 1, n)
<1>2. DOMAIN g = 1..k /\ \A i \in 1..k : /\ i \in 1..Len(h) /\ g[i] = h[i]
                                         /\ At(g, d, i) = At(h, c, i)
  BY AtCut
<1> HIDE DEF g, d
<1> QED BY <1>1, <1>2 DEF CachesOf, g, d

-----------------------------------------------------------------------------
(* Snapshots and the ledger *)

\* Pools that are not retired and registered in one block are db-sync's.
HoldsPools(s, c) ==
  \A p \in Pools : ~RetiredAndRegistered(c, p) => s.pools[p] = DbPool(c, p)

\* A block keeps them so.
LEMMA BlockKeepsPools ==
  ASSUME NEW prev, NEW c \in Seq(Block), NEW b \in Block, IssuersKnown(c),
         HoldsPools(prev, c), NEW lost, NEW fetched
  PROVE  HoldsPools(ApplyBlock(prev, c, b, lost, fetched), Append(c, b))
<1> DEFINE s == ApplyBlock(prev, c, b, lost, fetched)
           d == Append(c, b)
           certs == PoolCertsOf(b.txs)
<1>1. /\ DOMAIN c = 1..Len(c) /\ Len(c) \in Nat /\ DOMAIN d = 1..(Len(c) + 1)
      /\ d[Len(c) + 1] = b /\ \A i \in 1..Len(c) : d[i] = c[i]
  BY LenNat, AppendIs
<1>2. /\ \A i \in 1..Len(c) : i \in 1..(Len(c) + 1)
      /\ Len(c) + 1 \in 1..(Len(c) + 1)
  BY <1>1
<1>3. \A p \in Pools : s.pools[p] = ApplyPoolCerts(prev.pools[p], p, certs, b.issuer)
  BY DEF ApplyBlock
<1> HIDE DEF s, d
<1>4. ASSUME NEW p \in Pools, ~RetiredAndRegistered(d, p)
      PROVE  s.pools[p] = DbPool(d, p)
  <2>1. \A i \in DOMAIN d : ~ \A reg \in BOOLEAN : Names(PoolCertsOf(d[i].txs), p, reg)
    BY <1>4 DEF RetiredAndRegistered, Names
  <2>2. \A i \in DOMAIN c : ~ \A reg \in BOOLEAN : Names(PoolCertsOf(c[i].txs), p, reg)
    BY <1>1, <1>2, <2>1
  <2>3. ~RetiredAndRegistered(c, p)
    BY <2>2 DEF RetiredAndRegistered, Names
  <2>4. ~ \A reg \in BOOLEAN : Names(certs, p, reg)
    BY <1>1, <1>2, <2>1
  <2>5. prev.pools[p] = DbPool(c, p)
    BY <2>3 DEF HoldsPools
  <2>6. ApplyPoolCerts(DbPool(c, p), p, certs, b.issuer) = DbPool(Append(c, b), p)
    BY <2>4, PoolAppend
  <2> QED BY <1>3, <2>5, <2>6 DEF d
<1> QED BY <1>4 DEF HoldsPools, s, d

\* A handle that HandlesMatchLedger speaks of.
Proper(c, h) == WellIssued(c, h) /\ ~BornAndBurned(c, h)

\* What is well issued is one unit, and its outputs name an owner.
LEMMA IssuedIs ==
  ASSUME NEW c, NEW h \in Handles
  PROVE  WellIssued(c, h) <=> OneUnit(TxsOf(c), h) /\ OwnersNamed(TxsOf(c), h)
<1>1. OneUnit(TxsOf(c), h)
        <=> \A n \in 0..Len(TxsOf(c)) :
              \A q, r \in {r \in ToSet(Unspent(SubSeq(TxsOf(c), 1, n))) : OutputAt[r].assets[h] > 0} :
                q = r
  BY DEF OneUnit, Alone, Carries
<1>2. OwnersNamed(TxsOf(c), h)
        <=> (h \in Virtual =>
               \A r \in {r \in ToSet(AllOutputs(TxsOf(c))) : OutputAt[r].assets[h] > 0} :
                 OutputAt[r].datum # Nobody)
  BY DEF OwnersNamed, Carries
<1> QED BY <1>1, <1>2 DEF WellIssued

\* A handle proper to a chain was so before its last block, whose transactions
\* issue it well and leave it with an owner.
LEMMA ProperAppend ==
  ASSUME NEW c \in Seq(Block), NEW b \in Block, NEW h \in Handles, Proper(Append(c, b), h)
  PROVE  /\ Proper(c, h)
         /\ OneUnit(TxsOf(c) \o b.txs, h) /\ OwnersNamed(b.txs, h)
         /\ (\E r \in ToSet(AllOutputs(b.txs)) : Carries(r, h))
              => \E r \in There(Append(c, b)) : Carries(r, h)
<1> DEFINE d == Append(c, b)
           u == TxsOf(c)
           v == b.txs
<1>1. u \in Seq(Txs)
  BY ChainTxsType
<1>2. v \in Seq(Txs)
  BY DEF Block
<1>3. TxsOf(d) = u \o v
  BY ChainAppend
<1>4. /\ d \in Seq(Block) /\ Len(d) = Len(c) + 1 /\ Len(c) \in Nat
      /\ DOMAIN d = 1..(Len(c) + 1) /\ DOMAIN c = 1..Len(c)
      /\ d[Len(c) + 1] = b /\ \A i \in 1..Len(c) : d[i] = c[i]
  BY AppendIs, LenNat
<1>5. /\ SubSeq(d, 1, Len(c) + 1) = d
      /\ \A i \in 1..Len(c) : SubSeq(d, 1, i) = SubSeq(c, 1, i)
  <2>1. SubSeq(d, 1, Len(c) + 1) = d
    BY <1>4, PrefixStep
  <2>2. \A i \in 1..Len(c) : SubSeq(d, 1, i) = SubSeq(c, 1, i)
    BY <1>4
  <2> QED BY <2>1, <2>2
<1>6. (\A i \in 1..Len(c) : i \in 1..(Len(c) + 1)) /\ Len(c) + 1 \in 1..(Len(c) + 1)
  BY <1>4
<1> HIDE DEF d, u, v
<1>7. OneUnit(u \o v, h) /\ OwnersNamed(u \o v, h)
  BY <1>3, IssuedIs DEF Proper, d
<1>8. OneUnit(u, h)
  BY <1>1, <1>2, <1>7, OneUnitStart
<1>9. OwnersNamed(u, h) /\ OwnersNamed(v, h)
  <2>1. AllOutputs(u \o v) = AllOutputs(u) \o AllOutputs(v)
    BY <1>1, <1>2, ListConcat
  <2>2. AllOutputs(u) \in Seq(Refs) /\ AllOutputs(v) \in Seq(Refs)
    BY <1>1, <1>2, ListType
  <2>3. ToSet(AllOutputs(u \o v)) = ToSet(AllOutputs(u)) \cup ToSet(AllOutputs(v))
    BY <2>1, <2>2, ConcatSet
  <2> QED BY <1>7, <2>3 DEF OwnersNamed
<1>10. WellIssued(c, h)
  BY <1>8, <1>9, IssuedIs DEF u
<1> DEFINE lasting(e, i) == (\E r \in ToSet(AllOutputs(e[i].txs)) : Carries(r, h))
                              => \E r \in There(SubSeq(e, 1, i)) : Carries(r, h)
<1>11. \A e : BornAndBurned(e, h) <=> \E i \in DOMAIN e : ~lasting(e, i)
  BY DEF BornAndBurned, Carries, There
<1>12. \A i \in DOMAIN d : lasting(d, i)
  BY <1>11 DEF Proper, d
<1>13. \A i \in DOMAIN c : lasting(c, i)
  <2> SUFFICES ASSUME NEW i \in DOMAIN c PROVE lasting(c, i)
    OBVIOUS
  <2>1. lasting(d, i)
    BY <1>4, <1>6, <1>12
  <2>2. d[i] = c[i] /\ SubSeq(d, 1, i) = SubSeq(c, 1, i)
    BY <1>4, <1>5
  <2> QED BY <2>1, <2>2
<1>14. lasting(d, Len(c) + 1)
  BY <1>4, <1>6, <1>12
<1>15. (\E r \in ToSet(AllOutputs(v)) : Carries(r, h)) => \E r \in There(d) : Carries(r, h)
  BY <1>4, <1>5, <1>14 DEF v
<1> HIDE DEF lasting
<1>16. Proper(c, h)
  BY <1>10, <1>11, <1>13 DEF Proper
<1> QED BY <1>7, <1>9, <1>15, <1>16 DEF d, u, v

\* Handles, as a snapshot of the chain c has them that rests on a reset to db:
\* db-sync's where c holds db, and db's own while the chain is a block short of it.
HoldsHandles(s, c, db) ==
  "input" \notin s.missed =>
    /\ Len(db) <= Len(c) + 1
    /\ IsPrefix(db, c) => \A h \in Handles : Proper(c, h) =>
         s.handles.owner[h] = DbHandleOwner(c, h)
    /\ (IsPrefix(c, db) /\ Len(db) = Len(c) + 1) =>
         \A h \in Handles : s.handles.owner[h] = DbHandleOwner(db, h)

\* A list that starts one more element long, and one that it starts.
LEMMA PrefixOfAppend ==
  ASSUME NEW c \in Seq(Block), NEW b \in Block, NEW db \in Seq(Block), IsPrefix(db, Append(c, b))
  PROVE  Len(db) <= Len(c) + 1 /\
         IF Len(db) <= Len(c) THEN IsPrefix(db, c)
         ELSE db = Append(c, b) /\ IsPrefix(c, db)
<1> DEFINE d == Append(c, b)
<1>1. /\ d \in Seq(Block) /\ Len(d) = Len(c) + 1 /\ Len(c) \in Nat /\ Len(db) \in Nat
      /\ \A i \in 1..Len(c) : d[i] = c[i]
  BY AppendIs, LenNat
<1>2. Len(db) <= Len(d) /\ SubSeq(db, 1, Len(db)) = SubSeq(d, 1, Len(db))
  BY DEF IsPrefix
<1>3. SubSeq(db, 1, Len(db)) = db /\ SubSeq(d, 1, Len(d)) = d /\ SubSeq(c, 1, Len(c)) = c
  BY <1>1, PrefixStep
<1>4. \A n \in 0..Len(c) : SubSeq(d, 1, n) = SubSeq(c, 1, n)
  BY <1>1
<1>5. Len(c) \in 0..Len(c)
  BY <1>1
<1> HIDE DEF d
<1>6. ASSUME Len(db) <= Len(c) PROVE IsPrefix(db, c)
  <2>1. Len(db) \in 0..Len(c)
    BY <1>1, <1>6
  <2> QED BY <1>2, <1>4, <1>6, <2>1 DEF IsPrefix
<1>7. ASSUME ~(Len(db) <= Len(c)) PROVE db = d /\ IsPrefix(c, db)
  <2>1. Len(db) = Len(d)
    BY <1>1, <1>2, <1>7
  <2>2. db = d
    BY <1>2, <1>3, <2>1
  <2>3. Len(c) <= Len(d) /\ SubSeq(d, 1, Len(c)) = SubSeq(c, 1, Len(c))
    BY <1>1, <1>4, <1>5
  <2>4. IsPrefix(c, d)
    BY <2>3 DEF IsPrefix
  <2> QED BY <2>2, <2>4
<1> QED BY <1>1, <1>2, <1>6, <1>7 DEF d

\* A block keeps the handles so.
LEMMA BlockKeepsHandles ==
  ASSUME NEW prev \in GoodSnapshots, NEW c \in Seq(Block), NEW b \in Block,
         LegalOrder(TxsOf(c)), LegalOrder(TxsOf(c) \o b.txs),
         NEW db \in Seq(Block), HoldsHandles(prev, c, db), NEW lost, NEW fetched
  PROVE  HoldsHandles(ApplyBlock(prev, c, b, lost, fetched), Append(c, b), db)
<1> DEFINE s == ApplyBlock(prev, c, b, lost, fetched)
           d == Append(c, b)
<1>1. SUFFICES ASSUME "input" \notin s.missed
               PROVE  HoldsHandles(s, d, db)
  BY DEF HoldsHandles
<1>2. lost = {} /\ "input" \notin prev.missed
  BY <1>1 DEF ApplyBlock
<1>3. /\ d \in Seq(Block) /\ Len(d) = Len(c) + 1 /\ Len(c) \in Nat /\ Len(db) \in Nat
  BY AppendIs, LenNat
<1>4. /\ Len(db) <= Len(c) + 1
      /\ IsPrefix(db, c) => \A h \in Handles : Proper(c, h) =>
           prev.handles.owner[h] = DbHandleOwner(c, h)
      /\ (IsPrefix(c, db) /\ Len(db) = Len(c) + 1) =>
           \A h \in Handles : prev.handles.owner[h] = DbHandleOwner(db, h)
  BY <1>2 DEF HoldsHandles
<1>5. ASSUME IsPrefix(db, d), NEW h \in Handles, Proper(d, h)
      PROVE  s.handles.owner[h] = DbHandleOwner(d, h)
  <2>1. /\ Proper(c, h)
        /\ OneUnit(TxsOf(c) \o b.txs, h) /\ OwnersNamed(b.txs, h)
        /\ (\E r \in ToSet(AllOutputs(b.txs)) : Carries(r, h))
             => \E r \in There(Append(c, b)) : Carries(r, h)
    BY <1>5, ProperAppend
  <2>2. prev.handles.owner[h] \in {DbHandleOwner(c, h), DbHandleOwner(d, h)}
    <3>1. CASE Len(db) <= Len(c)
      <4>1. IsPrefix(db, c)
        BY <1>5, <3>1, PrefixOfAppend
      <4> QED BY <1>4, <2>1, <4>1
    <3>2. CASE ~(Len(db) <= Len(c))
      <4>1. db = d /\ IsPrefix(c, db) /\ Len(db) = Len(c) + 1
        BY <1>3, <1>5, <3>2, PrefixOfAppend
      <4> HIDE DEF d
      <4> QED BY <1>4, <4>1
    <3> QED BY <3>1, <3>2
  <2>3. ApplyBlock(prev, c, b, {}, fetched).handles.owner[h] = DbHandleOwner(Append(c, b), h)
    BY <2>1, <2>2, BlockKeepsHandle
  <2> QED BY <1>2, <2>3
<1>6. Len(db) <= Len(d) + 1 /\ Len(db) # Len(d) + 1
  BY <1>3, <1>4
<1> HIDE DEF s, d
<1> QED BY <1>5, <1>6 DEF HoldsHandles

\* And a reset, where db-sync reached the block.
LEMMA ResetHoldsHandles ==
  ASSUME NEW db \in Seq(Block), NEW c \in Seq(Block), IsPrefix(c, db), Len(db) <= Len(c) + 1,
         NEW slot, NEW missed
  PROVE  HoldsHandles(ResetSnapshot(db, slot, missed), c, db)
<1> DEFINE s == ResetSnapshot(db, slot, missed)
<1>1. \A h \in Handles : s.handles.owner[h] = DbHandleOwner(db, h)
  BY DEF ResetSnapshot, HandleMapsFor
<1>2. ASSUME IsPrefix(db, c) PROVE db = c
  <2>1. Len(db) \in Nat /\ Len(c) \in Nat
    BY LenNat
  <2>2. Len(db) = Len(c) /\ SubSeq(db, 1, Len(db)) = SubSeq(c, 1, Len(db))
    BY <1>2, <2>1 DEF IsPrefix
  <2>3. SubSeq(db, 1, Len(db)) = db /\ SubSeq(c, 1, Len(c)) = c
    BY PrefixStep
  <2> QED BY <2>2, <2>3
<1> HIDE DEF s
<1>3. HoldsHandles(s, c, db)
  BY <1>1, <1>2 DEF HoldsHandles
<1> QED BY <1>3 DEF s

\* What a snapshot owes the ledger of c, and a snapshot that rests on a db-sync,
\* the chain db, which was fresh enough.
Owes(s, c, db) ==
  /\ HoldsMoney(s, c) /\ HoldsMints(s, c)
  /\ HoldsRewards(s, c) /\ HoldsRuns(s, c)
  /\ HoldsPools(s, c) /\ HoldsHandles(s, c, db)
Faithful(s, c, db) == "lag" \notin s.missed => Owes(s, c, db)

\* A legal block keeps its snapshot faithful: what it could not learn, it says.
LEMMA BlockKeepsFaith ==
  ASSUME NEW prev \in GoodSnapshots, NEW c \in Seq(Block), c # <<>>, NEW b \in Block,
         LegalOrder(TxsOf(c)), IssuersKnown(c), LegalBlock(c, b),
         prev.last_epoch = Epoch(Last(c).slot), NEW db \in Seq(Block), Faithful(prev, c, db),
         NEW lost, NEW fetched \in BOOLEAN
  PROVE  Faithful(ApplyBlock(prev, c, b, lost, fetched), Append(c, b), db)
<1> DEFINE s == ApplyBlock(prev, c, b, lost, fetched)
           d == Append(c, b)
<1>1. prev.missed \subseteq s.missed
  BY DEF ApplyBlock
<1>2. LegalOrder(TxsOf(c) \o b.txs)
  BY LegalBlockOrder
<1>3. Last(c).slot \in Nat
  <2>1. Len(c) \in 1..Len(c) /\ Last(c) = c[Len(c)]
    BY LenNat DEF Last
  <2> QED BY <2>1, BlockSlots
<1>4. b.slot > Last(c).slot /\ Epoch(b.slot) <= Epoch(Last(c).slot) + 1
  BY DEF LegalBlock
<1> DEFINE slot == Last(c).slot
<1> HIDE DEF slot, s, d
<1>5. SUFFICES ASSUME "lag" \notin s.missed
               PROVE  Owes(s, d, db)
  BY DEF Faithful, s, d
<1>6. /\ HoldsMoney(prev, c) /\ HoldsMints(prev, c)
      /\ HoldsRewards(prev, c) /\ HoldsRuns(prev, c)
      /\ HoldsPools(prev, c) /\ HoldsHandles(prev, c, db)
  BY <1>1, <1>5 DEF Faithful, Owes
<1>7. HoldsMoney(s, d)
  BY <1>2, <1>6, BlockKeepsMoney DEF s, d
<1>8. HoldsRewards(s, d)
  <2>1. slot \in Nat /\ prev.last_epoch = Epoch(slot) /\ b.slot > slot
        /\ Epoch(b.slot) <= Epoch(slot) + 1
    BY <1>3, <1>4 DEF slot
  <2> QED BY <1>6, <2>1, BlockKeepsRewards DEF s, d
<1>9. HoldsRuns(s, d)
  BY <1>6, BlockKeepsRuns DEF s, d
<1>10. HoldsPools(s, d)
  BY <1>6, BlockKeepsPools DEF s, d
<1>11. HoldsMints(s, d)
  BY <1>2, <1>6, BlockKeepsMints DEF s, d
<1>12. HoldsHandles(s, d, db)
  BY <1>2, <1>6, BlockKeepsHandles DEF s, d
<1> QED BY <1>7, <1>8, <1>9, <1>10, <1>11, <1>12 DEF Owes

\* A snapshot from db-sync is faithful to what db-sync stored by then, a chain
\* that reaches it and at most one block more.
LEMMA ResetIsFaithful ==
  ASSUME NEW db \in Seq(Block), NEW c \in Seq(Block), NEW slot, NEW missed,
         c = SubSeq(db, 1, Len(c)), Len(c) <= Len(db), Len(db) <= Len(c) + 1,
         UpTo(db, slot) = c, LegalOrder(TxsOf(c))
  PROVE  Faithful(ResetSnapshot(db, slot, missed), c, db)
<1> DEFINE s == ResetSnapshot(db, slot, missed)
<1>1. HoldsMoney(s, c)
  BY ResetHoldsMoney
<1>2. HoldsRewards(s, c)
  BY ResetHoldsRewards
<1>3. HoldsRuns(s, c)
  BY ResetHoldsRuns
<1>4. \A p \in Pools : s.pools[p] = DbPool(UpTo(db, slot), p)
  BY DEF ResetSnapshot
<1> HIDE DEF s
<1>5. HoldsPools(s, c)
  BY <1>4 DEF HoldsPools
<1>6. HoldsMints(s, c)
  <2> DEFINE n == Len(c)
  <2>1. n \in 0..Len(db)
    BY LenNat
  <2>2. c = SubSeq(db, 1, n)
    OBVIOUS
  <2> HIDE DEF n
  <2>3. UpTo(db, slot) = SubSeq(db, 1, n) /\ LegalOrder(TxsOf(SubSeq(db, 1, n)))
    BY <2>2
  <2>4. HoldsMints(s, SubSeq(db, 1, n))
    BY <2>1, <2>3, ResetHoldsMints DEF s
  <2> QED BY <2>2, <2>4
<1>7. IsPrefix(c, db)
  <2>1. SubSeq(c, 1, Len(c)) = c
    BY PrefixStep
  <2> QED BY <2>1 DEF IsPrefix
<1>8. HoldsHandles(s, c, db)
  BY <1>7, ResetHoldsHandles DEF s
<1>9. Faithful(s, c, db)
  BY <1>1, <1>2, <1>3, <1>5, <1>6, <1>8 DEF Faithful, Owes
<1> QED BY <1>9 DEF s

\* The blocks a chain of increasing slots has at or before one of them.
LEMMA UpToPrefix ==
  ASSUME NEW c \in Seq(Block), SlotsIncrease(c), NEW n \in 1..Len(c)
  PROVE  UpTo(c, c[n].slot) = SubSeq(c, 1, n)
<1> DEFINE keep == {b \in ToSet(c) : b.slot <= c[n].slot}
           r == Sift(c, keep)
<1>1. /\ Len(c) \in Nat /\ DOMAIN c = 1..Len(c)
      /\ \A i \in 1..Len(c) : c[i].slot \in Nat /\ c[i] \in ToSet(c)
  BY LenNat, BlockSlots DEF ToSet
<1>2. \A i \in 1..Len(c) : c[i] \in keep <=> c[i].slot <= c[n].slot
  BY <1>1
<1>3. ASSUME NEW i \in 1..Len(c) PROVE c[i].slot <= c[n].slot <=> i <= n
  <2>1. CASE i < n
    <3>1. c[i].slot < c[n].slot
      BY <1>1, <2>1 DEF SlotsIncrease
    <3> QED BY <1>1, <2>1, <3>1
  <2>2. CASE i = n
    BY <1>1, <2>2
  <2>3. CASE n < i
    <3>1. c[n].slot < c[i].slot
      BY <1>1, <2>3 DEF SlotsIncrease
    <3> QED BY <1>1, <2>3, <3>1
  <2> QED BY <1>1, <2>1, <2>2, <2>3
<1>4. \A i \in 1..Len(c) : c[i] \in keep <=> i <= n
  BY <1>2, <1>3
<1> HIDE DEF keep
<1>5. n \in 0..Len(c)
  BY <1>1
<1>6. r \in Seq(Block) /\ Len(r) = n /\ \A j \in 1..n : r[j] = c[j]
  BY <1>4, <1>5, SiftPrefix
<1>7. SubSeq(c, 1, n) \in Seq(Block) /\ Len(SubSeq(c, 1, n)) = n
      /\ \A j \in 1..n : SubSeq(c, 1, n)[j] = c[j]
  BY LastOfPrefix
<1> DEFINE q == SubSeq(c, 1, n)
<1> HIDE DEF r, q
<1>8. r \in Seq(Block) /\ q \in Seq(Block) /\ Len(r) = Len(q) /\ \A j \in 1..Len(r) : r[j] = q[j]
  BY <1>6, <1>7 DEF q
<1>9. r = q
  BY <1>8
<1> QED BY <1>9 DEF r, q, keep, UpTo

\* The slots of what db-sync stores increase.
LEMMA DbViewsSlots ==
  ASSUME IInv, NEW n \in DOMAIN chain, NEW db \in DbViews(n)
  PROVE  SlotsIncrease(db)
<1>1. /\ Len(chain) \in Nat /\ DOMAIN chain = 1..Len(chain)
      /\ chain \in Seq(Block) /\ SlotsIncrease(chain)
  BY LenNat DEF IInv
<1>2. \A m \in 1..Len(chain) : SlotsIncrease(Prefix(m))
  BY <1>1, PrefixKeepsSlots DEF Prefix
<1>3. CASE db = Prefix(n)
  BY <1>1, <1>2, <1>3
<1>4. CASE \E b \in NextBlocks(Prefix(n)) : db = Append(Prefix(n), b)
  <2> DEFINE c == Prefix(n)
  <2>1. PICK b \in NextBlocks(c) : db = Append(c, b)
    BY <1>4
  <2>2. c \in Seq(Block) /\ Len(c) = n /\ SlotsIncrease(c)
    BY <1>1, <1>2, LastOfPrefix DEF Prefix
  <2> HIDE DEF c
  <2>3. c # <<>>
    BY <1>1, <2>2
  <2>4. b \in Block /\ b.slot > c[Len(c)].slot
    BY <2>2, <2>3, NextBlocksType
  <2> QED BY <2>1, <2>2, <2>3, <2>4, AppendKeepsSlots
<1>5. CASE n < Len(chain) /\ db = Prefix(n + 1)
  <2>1. n + 1 \in 1..Len(chain)
    BY <1>1, <1>5
  <2> QED BY <1>2, <1>5, <2>1
<1>6. CASE \E m \in 1..(n - 1) : db = Prefix(m)
  <2>1. PICK m \in 1..(n - 1) : db = Prefix(m)
    BY <1>6
  <2>2. m \in 1..Len(chain)
    BY <1>1
  <2> QED BY <1>2, <2>1, <2>2
<1> QED BY <1>3, <1>4, <1>5, <1>6 DEF DbViews

\* db-sync is at most one block ahead of the block it is asked about.
LEMMA DbViewsLength ==
  ASSUME IInv, NEW n \in DOMAIN chain, NEW db \in DbViews(n)
  PROVE  Len(db) <= n + 1
<1>1. /\ Len(chain) \in Nat /\ DOMAIN chain = 1..Len(chain) /\ chain \in Seq(Block)
  BY LenNat DEF IInv
<1>2. \A m \in 1..Len(chain) : Prefix(m) \in Seq(Block) /\ Len(Prefix(m)) = m
  BY <1>1, LastOfPrefix DEF Prefix
<1> DEFINE c == Prefix(n)
<1>3. c \in Seq(Block) /\ Len(c) = n /\ c # <<>>
  BY <1>1, <1>2
<1>4. CASE db = Prefix(n)
  BY <1>1, <1>2, <1>4
<1>5. CASE \E b \in NextBlocks(c) : db = Append(c, b)
  <2>1. PICK b \in NextBlocks(c) : db = Append(c, b)
    BY <1>5
  <2> HIDE DEF c
  <2>2. b \in Block
    BY <1>3, NextBlocksType
  <2>3. Len(db) = n + 1
    BY <1>3, <2>1, <2>2, AppendIs
  <2> QED BY <1>1, <2>3
<1>6. CASE n < Len(chain) /\ db = Prefix(n + 1)
  <2>1. n + 1 \in 1..Len(chain)
    BY <1>1, <1>6
  <2> QED BY <1>1, <1>2, <1>6, <2>1
<1>7. CASE \E m \in 1..(n - 1) : db = Prefix(m)
  <2>1. PICK m \in 1..(n - 1) : db = Prefix(m)
    BY <1>7
  <2>2. m \in 1..Len(chain) /\ m <= n + 1
    BY <1>1
  <2> QED BY <1>2, <2>1, <2>2
<1> QED BY <1>4, <1>5, <1>6, <1>7 DEF DbViews

\* What the chain and the snapshots hold, beside their shape: the chain is one
\* the node can deliver, and each snapshot is faithful to its own chain.
FaithfulTo(h, c, db) == \A i \in DOMAIN h : Faithful(h[i], At(h, c, i), db)

\* A block and its snapshot.
LEMMA AppendKeepsFaith ==
  ASSUME NEW h \in Seq(GoodSnapshots), NEW c \in Seq(Block), Len(h) <= Len(c),
         NEW db, FaithfulTo(h, c, db), NEW s \in GoodSnapshots, NEW b \in Block,
         Faithful(s, Append(c, b), db)
  PROVE  FaithfulTo(Append(h, s), Append(c, b), db)
<1> DEFINE g == Append(h, s)
           d == Append(c, b)
           m == Len(h)
<1>1. m \in Nat /\ DOMAIN h = 1..m
  BY LenNat
<1>2. /\ DOMAIN g = 1..(m + 1) /\ g[m + 1] = s
      /\ At(g, d, m + 1) = d
      /\ \A i \in 1..m : g[i] = h[i] /\ At(g, d, i) = At(h, c, i)
  BY AtAppend
<1>3. \A i \in 1..(m + 1) : i = m + 1 \/ i \in 1..m
  BY <1>1
<1> HIDE DEF g, m
<1>4. ASSUME NEW i \in DOMAIN g PROVE Faithful(g[i], At(g, d, i), db)
  <2>1. CASE i = m + 1
    BY <1>2, <2>1
  <2>2. CASE i \in 1..m
    BY <1>1, <1>2, <2>2 DEF FaithfulTo
  <2> QED BY <1>2, <1>3, <2>1, <2>2
<1> QED BY <1>4 DEF FaithfulTo, g

\* Dropping the oldest snapshot.
LEMMA TrimKeepsFaith ==
  ASSUME NEW h \in Seq(GoodSnapshots), NEW c \in Seq(Block), Len(h) <= Len(c),
         NEW db, FaithfulTo(h, c, db), CachesOf(h, c)
  PROVE  FaithfulTo(Trim(h), c, db) /\ CachesOf(Trim(h), c)
<1>1. CASE Trim(h) = h
  BY <1>1
<1>2. CASE Trim(h) = Tail(h) /\ Len(h) > 0
  <2> DEFINE g == Tail(h)
             m == Len(h) - 1
  <2>1. /\ DOMAIN g = 1..m
        /\ \A i \in 1..m : /\ i + 1 \in 1..Len(h) /\ g[i] = h[i + 1]
                           /\ At(g, c, i) = At(h, c, i + 1)
    BY <1>2, AtTail
  <2>2. DOMAIN h = 1..Len(h)
    BY LenNat
  <2>3. CachesOf(g, c)
    BY <1>2, TailKeepsCaches
  <2> HIDE DEF g, m
  <2>4. FaithfulTo(g, c, db)
    BY <2>1, <2>2 DEF FaithfulTo
  <2> QED BY <1>2, <2>3, <2>4 DEF g
<1>3. Len(h) \in Nat /\ MaxHistory \in Nat \ {0}
  BY LenNat, ChainAssumption
<1>4. Trim(h) = h \/ (Trim(h) = Tail(h) /\ Len(h) > 0)
  BY <1>3 DEF Trim
<1> QED BY <1>1, <1>2, <1>4

\* After a rollback, the snapshots kept are faithful to their own chains.
LEMMA CutKeepsFaith ==
  ASSUME NEW h \in Seq(GoodSnapshots), NEW c \in Seq(Block), Len(h) <= Len(c),
         NEW k \in 1..Len(h), NEW n, n = Len(c) - Len(h) + k,
         NEW db, FaithfulTo(h, c, db)
  PROVE  FaithfulTo(SubSeq(h, 1, k), SubSeq(c, 1, n), db)
<1>1. DOMAIN h = 1..Len(h)
  BY LenNat
<1> DEFINE g == SubSeq(h, 1, k)
           d == SubSeq(c, 1, n)
<1>2. DOMAIN g = 1..k /\ \A i \in 1..k : /\ i \in 1..Len(h) /\ g[i] = h[i]
                                         /\ At(g, d, i) = At(h, c, i)
  BY AtCut
<1> HIDE DEF g, d
<1> QED BY <1>1, <1>2 DEF FaithfulTo, g, d

\* A chain the node can deliver.
LegalChain(c) == LegalOrder(TxsOf(c)) /\ IssuersKnown(c)

\* Up to any of its blocks it still is one.
LEMMA LegalPrefix ==
  ASSUME NEW c \in Seq(Block), LegalChain(c), NEW n \in 1..Len(c)
  PROVE  LegalChain(SubSeq(c, 1, n))
<1>1. n \in 0..Len(c) /\ n \in DOMAIN c
  BY LenNat
<1>2. LegalOrder(TxsOf(SubSeq(c, 1, n)))
  BY <1>1, LegalChainStart DEF LegalChain
<1>3. IssuersKnown(SubSeq(c, 1, n))
  BY <1>1, IssuersStart DEF LegalChain
<1> QED BY <1>2, <1>3 DEF LegalChain

\* And with one more legal block.
LEMMA LegalAppend ==
  ASSUME NEW c \in Seq(Block), LegalChain(c), NEW b \in Block, LegalBlock(c, b)
  PROVE  LegalOrder(TxsOf(c) \o b.txs) /\ LegalChain(Append(c, b))
<1>1. LegalOrder(TxsOf(c) \o b.txs)
  BY LegalBlockOrder DEF LegalChain
<1>2. TxsOf(Append(c, b)) = TxsOf(c) \o b.txs
  BY ChainAppend
<1>3. IssuersKnown(Append(c, b))
  BY IssuersAppend DEF LegalChain
<1> QED BY <1>1, <1>2, <1>3 DEF LegalChain

-----------------------------------------------------------------------------
(* The second inductive invariant *)

\* The second half of the inductive invariant: the chain is legal, and each
\* snapshot is faithful to the chain that ended in its block.
LInv ==
  /\ LegalChain(chain)
  /\ FaithfulTo(history, chain, seen)
  /\ CachesOf(history, chain)

\* At first there is no snapshot.
LEMMA InitLInv == Init => LInv
<1> SUFFICES ASSUME Init PROVE LInv
  OBVIOUS
<1>1. LegalChain(chain)
  BY ChainAssumption DEF Init, LegalChain
<1>2. DOMAIN history = {}
  BY DEF Init
<1> QED BY <1>1, <1>2 DEF LInv, FaithfulTo, CachesOf

\* The last snapshot was taken at the end of the chain.
LEMMA LastIsLatest ==
  ASSUME IInv, history # <<>>
  PROVE  /\ Len(history) \in DOMAIN history /\ Last(history) = history[Len(history)]
         /\ At(history, chain, Len(history)) = chain
         /\ Last(history) \in GoodSnapshots
         /\ Last(history).slot = Last(chain).slot
         /\ Last(history).last_epoch = Epoch(Last(chain).slot)
<1>1. /\ history \in Seq(GoodSnapshots) /\ chain \in Seq(Block)
      /\ Len(history) \in DOMAIN history /\ Last(history) = history[Len(history)]
      /\ Len(history) \in Nat /\ Len(chain) \in Nat
  BY LenNat DEF IInv, Last
<1>2. Last(history) \in GoodSnapshots
  BY <1>1, ElementIn
<1>3. Len(chain) - Len(history) + Len(history) = Len(chain) /\ SubSeq(chain, 1, Len(chain)) = chain
  BY <1>1, PrefixStep
<1>4. At(history, chain, Len(history)) = chain
  BY <1>3 DEF At
<1>5. /\ history[Len(history)].slot = Last(At(history, chain, Len(history))).slot
      /\ history[Len(history)].last_epoch = Epoch(Last(At(history, chain, Len(history))).slot)
  BY <1>1 DEF IInv, TailOf, At
<1> QED BY <1>1, <1>2, <1>4, <1>5

\* So what holds of every snapshot holds of the latest.
LEMMA LatestIsFaithful ==
  ASSUME IInv, LInv, history # <<>>
  PROVE  Faithful(Last(history), chain, seen) /\ Last(history).utxos \subseteq There(chain)
BY LastIsLatest DEF LInv, FaithfulTo, CachesOf

\* A block.
LEMMA ApplyKeepsLInv ==
  ASSUME IInv, LInv, NEW b \in NextBlocks(chain), NEW lost, NEW fetched \in BOOLEAN,
         Apply(b, lost, fetched)
  PROVE  LInv'
<1> DEFINE prev == Last(history)
           s == ApplyBlock(prev, chain, b, lost, fetched)
           h == Append(history, s)
           d == Append(chain, b)
<1>1. /\ chain \in Seq(Block) /\ chain # <<>>
      /\ history \in Seq(GoodSnapshots) /\ history # <<>> /\ Len(history) <= Len(chain)
  BY DEF IInv, TailOf, Apply
<1>2. b \in Block /\ LegalBlock(chain, b)
  BY <1>1, NextBlocksType DEF NextBlocks
<1>3. prev \in GoodSnapshots /\ prev.last_epoch = Epoch(Last(chain).slot)
  BY <1>1, LastIsLatest
<1>4. Faithful(prev, chain, seen) /\ prev.utxos \subseteq There(chain)
  BY <1>1, LatestIsFaithful
<1>5. chain' = d /\ history' = Trim(h) /\ seen' = seen /\ seen \in Seq(Block)
  BY DEF Apply, IInv
<1>6. LegalChain(chain)
  BY DEF LInv
<1>7. LegalOrder(TxsOf(chain) \o b.txs) /\ LegalChain(d)
  BY <1>1, <1>2, <1>6, LegalAppend
<1>8. s \in GoodSnapshots
  BY <1>1, <1>2, <1>3, ApplyBlockKeeps
<1> HIDE DEF prev
<1>9. Faithful(s, d, seen)
  BY <1>1, <1>2, <1>3, <1>4, <1>5, <1>6, BlockKeepsFaith DEF LegalChain
<1>10. /\ s.utxos \subseteq There(d)
       /\ \A old : There(chain) \ old \subseteq prev.utxos => There(d) \ old \subseteq s.utxos
  BY <1>1, <1>2, <1>4, <1>6, <1>7, BlockKeepsUtxos DEF LegalChain
<1> HIDE DEF s
<1>11. FaithfulTo(h, d, seen)
  BY <1>1, <1>2, <1>8, <1>9, AppendKeepsFaith DEF LInv
<1>12. CachesOf(h, d)
  BY <1>1, <1>2, <1>8, <1>10, AppendKeepsCaches DEF LInv, prev
<1>13. h \in Seq(GoodSnapshots) /\ d \in Seq(Block) /\ Len(h) <= Len(d)
  BY <1>1, <1>2, <1>8, AtAppend
<1> HIDE DEF h, d
<1>14. FaithfulTo(Trim(h), d, seen) /\ CachesOf(Trim(h), d)
  BY <1>11, <1>12, <1>13, TrimKeepsFaith
<1> QED BY <1>5, <1>7, <1>14 DEF LInv

\* A rollback within the history.
LEMMA TruncateKeepsLInv ==
  ASSUME IInv, LInv, NEW n \in DOMAIN chain, Truncate(n)
  PROVE  LInv'
<1> DEFINE k == Kept(chain[n].slot)
<1>1. /\ chain \in Seq(Block) /\ history \in Seq(GoodSnapshots)
      /\ Len(history) <= Len(chain) /\ n \in 1..Len(chain)
  BY LenNat DEF IInv, TailOf
<1>2. k \in 1..Len(history) /\ n = Len(chain) - Len(history) + k
  BY KeptIsExact DEF Truncate
<1>3. history' = SubSeq(history, 1, k) /\ chain' = SubSeq(chain, 1, n) /\ seen' = seen
  BY DEF Truncate, Prefix
<1> HIDE DEF k
<1>4. FaithfulTo(history', chain', seen')
  BY <1>1, <1>2, <1>3, CutKeepsFaith DEF LInv
<1>5. CachesOf(history', chain')
  BY <1>1, <1>2, <1>3, CutKeepsCaches DEF LInv
<1>6. LegalChain(chain')
  BY <1>1, <1>3, LegalPrefix DEF LInv
<1> QED BY <1>4, <1>5, <1>6 DEF LInv

\* A rollback beyond it: db-sync had reached the block, or the snapshot says
\* that it had not.
LEMMA ResetKeepsLInv ==
  ASSUME IInv, LInv, NEW n \in DOMAIN chain, NEW db \in DbViews(n), Reset(n, db)
  PROVE  LInv'
<1> DEFINE slot == chain[n].slot
           c == SubSeq(chain, 1, n)
           missed == IF IsPrefix(c, db) THEN {} ELSE {"lag"}
           s == ResetSnapshot(db, slot, missed)
<1>1. chain \in Seq(Block) /\ n \in 1..Len(chain)
  BY LenNat DEF IInv
<1>2. db \in Seq(Block) /\ SlotsIncrease(db)
  BY DbViewsType, DbViewsSlots
<1>3. history' = <<s>> /\ chain' = c /\ seen' = db
  BY DEF Reset, Prefix
<1>4. c \in Seq(Block) /\ Len(c) = n /\ c[n] = chain[n]
  BY <1>1, LastOfPrefix
<1>5. s.missed = missed /\ s.utxos = {}
  BY DEF ResetSnapshot
<1> HIDE DEF s, c
<1>6. LegalChain(c)
  BY <1>1, LegalPrefix DEF LInv, c
<1>7. ASSUME "lag" \notin s.missed
      PROVE  /\ UpTo(db, slot) = c /\ c = SubSeq(db, 1, Len(c))
             /\ Len(c) <= Len(db) /\ Len(db) <= Len(c) + 1
  <2>1. IsPrefix(c, db)
    BY <1>5, <1>7
  <2>2. n \in 1..Len(db) /\ c = SubSeq(db, 1, n)
    <3>1. Len(c) <= Len(db) /\ SubSeq(c, 1, Len(c)) = SubSeq(db, 1, Len(c))
      BY <2>1 DEF IsPrefix
    <3>2. SubSeq(c, 1, Len(c)) = c
      BY <1>4, PrefixStep
    <3>3. Len(db) \in Nat
      BY <1>2, LenNat
    <3> QED BY <1>1, <1>4, <3>1, <3>2, <3>3
  <2>3. db[n] = c[n]
    BY <1>2, <2>2, LastOfPrefix
  <2>4. UpTo(db, db[n].slot) = SubSeq(db, 1, n)
    BY <1>2, <2>2, UpToPrefix
  <2>5. Len(db) <= n + 1
    BY <1>1, DbViewsLength
  <2> QED BY <1>4, <2>2, <2>3, <2>4, <2>5
<1>8. Faithful(s, c, db)
  <2>1. CASE "lag" \in s.missed
    BY <2>1 DEF Faithful
  <2>2. CASE "lag" \notin s.missed
    <3>1. /\ UpTo(db, slot) = c /\ c = SubSeq(db, 1, Len(c))
          /\ Len(c) <= Len(db) /\ Len(db) <= Len(c) + 1
      BY <1>7, <2>2
    <3> HIDE DEF slot, missed
    <3> QED BY <1>2, <1>4, <1>6, <3>1, ResetIsFaithful DEF s, LegalChain
  <2> QED BY <2>1, <2>2
<1> DEFINE h == <<s>>
<1>9. DOMAIN h = {1} /\ h[1] = s /\ Len(h) = 1
  OBVIOUS
<1> HIDE DEF h
<1>10. At(h, c, 1) = c
  <2>1. n - 1 + 1 = n
    BY <1>1
  <2>2. SubSeq(c, 1, Len(c)) = c
    BY <1>4, PrefixStep
  <2> QED BY <1>4, <1>9, <2>1, <2>2 DEF At
<1>11. FaithfulTo(h, c, db) /\ CachesOf(h, c)
  <2>1. \A i, j \in DOMAIN h : ~(j < i)
    BY <1>9
  <2> QED BY <1>5, <1>8, <1>9, <1>10, <2>1 DEF FaithfulTo, CachesOf
<1> QED BY <1>3, <1>6, <1>11 DEF LInv, h

\* Every step.
LEMMA NextKeepsLInv == IInv /\ LInv /\ [Next]_vars => LInv'
<1> SUFFICES ASSUME IInv, LInv, [Next]_vars PROVE LInv'
  OBVIOUS
<1>1. CASE ApplySome
  <2>1. PICK b \in NextBlocks(chain) :
          \E lost \in (IF "input" \in Faults THEN SUBSET NeedDb(Last(history), b)
                       ELSE {{}}),
             fetched \in (IF "reward" \in Faults THEN BOOLEAN ELSE {TRUE}) :
            Apply(b, lost, fetched)
    BY <1>1 DEF ApplySome
  <2>2. PICK lost \in (IF "input" \in Faults THEN SUBSET NeedDb(Last(history), b)
                       ELSE {{}}),
             fetched \in (IF "reward" \in Faults THEN BOOLEAN ELSE {TRUE}) :
               Apply(b, lost, fetched)
    BY <2>1
  <2>3. fetched \in BOOLEAN
    OBVIOUS
  <2> QED BY <2>2, <2>3, ApplyKeepsLInv
<1>2. CASE TruncateSome
  BY <1>2, TruncateKeepsLInv DEF TruncateSome
<1>3. CASE ResetSome
  BY <1>3, ResetKeepsLInv DEF ResetSome
<1>4. CASE UNCHANGED vars
  BY <1>4 DEF vars, LInv
<1> QED BY <1>1, <1>2, <1>3, <1>4 DEF Next

\* Every snapshot is faithful to its own chain throughout, of every chain,
\* every set of names and every MaxHistory.
THEOREM Faithfulness == Spec => []LInv
BY Invariance, InitLInv, NextKeepsLInv, PTL DEF Spec

-----------------------------------------------------------------------------
(* What follows from it *)

\* The cache input resolution reads first holds no spent output, and every
\* unspent one created since the last reset, whatever was rolled back
\* (State.utxos).
THEOREM CachesAreUnspent == Spec => []UtxosAreUnspent
<1>1. IInv /\ LInv => UtxosAreUnspent
  <2> SUFFICES ASSUME IInv, LInv, NEW i \in DOMAIN history
               PROVE  LET now == ToSet(Unspent(TxsOf(ChainAt(i))))
                          before == ToSet(Unspent(TxsOf(ChainAt(1))))
                      IN  /\ history[i].utxos \subseteq now
                          /\ i > 1 => (now \ before) \subseteq history[i].utxos
    BY DEF UtxosAreUnspent
  <2>1. ChainAt(i) = At(history, chain, i) /\ ChainAt(1) = At(history, chain, 1)
    BY DEF ChainAt, At, Prefix
  <2>2. i > 1 => 1 \in DOMAIN history /\ 1 < i
    BY LenNat DEF IInv
  <2>3. CachesOf(history, chain)
    BY DEF LInv
  <2> HIDE DEF ChainAt
  <2> QED BY <2>1, <2>2, <2>3 DEF CachesOf, There
<1> QED BY <1>1, Invariance, Faithfulness, PTL

\* The theorems
LEMMA InformedIs ==
  ASSUME IInv, LInv, NEW kinds, Informed(kinds), "lag" \notin kinds
  PROVE  /\ Latest \in GoodSnapshots
         /\ Owes(Latest, chain, seen)
         /\ Latest.missed \subseteq kinds
<1>1. history # <<>> /\ Latest.missed \subseteq kinds
  BY DEF Informed
<1>2. Latest \in GoodSnapshots /\ Faithful(Latest, chain, seen)
  BY <1>1, LastIsLatest, LatestIsFaithful DEF Latest
<1> HIDE DEF Latest
<1> QED BY <1>1, <1>2 DEF Faithful

\* Balances and token quantities are those of a scan of the unspent outputs,
\* where every input was resolved (apply_block's credits and debits,
\* State::reset).
THEOREM BalancesAreTheLedgers == Spec => []BalancesMatchLedger
<1>1. IInv /\ LInv => BalancesMatchLedger
  <2> SUFFICES ASSUME IInv, LInv, Informed({"reward"})
               PROVE  /\ Latest.address_balances = DbBalances(chain)
                      /\ [a \in Addrs |-> [x \in Assets |-> Latest.asset_holdings[a][x].qty]]
                           = DbUnits(chain)
    BY DEF BalancesMatchLedger
  <2>1. /\ Latest \in GoodSnapshots /\ HoldsMoney(Latest, chain)
        /\ "input" \notin Latest.missed
    BY InformedIs DEF Owes
  <2>2. /\ Latest.address_balances \in [Addrs -> Nat]
        /\ Latest.asset_holdings \in [Addrs -> [Assets -> Held]]
    BY <2>1 DEF GoodSnapshots, Snapshot
  <2>3. DbBalances(chain) \in [Addrs -> Nat] /\ DbUnits(chain) \in [Addrs -> [Assets -> Nat]]
    BY ScanType DEF IInv
  <2>4. /\ \A a \in Addrs : Latest.address_balances[a] = DbBalances(chain)[a]
        /\ \A a \in Addrs, x \in Assets : Latest.asset_holdings[a][x].qty = DbUnits(chain)[a][x]
    BY <2>1 DEF HoldsMoney, Covers
  <2> HIDE DEF Latest
  <2>5. Latest.address_balances = DbBalances(chain)
    BY <2>2, <2>3, <2>4
  <2>6. [a \in Addrs |-> [x \in Assets |-> Latest.asset_holdings[a][x].qty]] = DbUnits(chain)
    BY <2>3, <2>4
  <2> QED BY <2>5, <2>6
<1> QED BY <1>1, Invariance, Faithfulness, PTL

\* Where one was not, they err above: money that is there never disappears
\* (the debits of apply_block, skipped for an unresolved input).
THEOREM BalancesCoverTheLedger == Spec => []BalancesNeverBelowLedger
<1>1. IInv /\ LInv => BalancesNeverBelowLedger
  <2> SUFFICES ASSUME IInv, LInv, Informed({"reward", "input"})
               PROVE  /\ \A a \in Addrs :
                           /\ Latest.address_balances[a] >= DbBalances(chain)[a]
                           /\ \A x \in Assets :
                                Latest.asset_holdings[a][x].qty >= DbUnits(chain)[a][x]
                      /\ \A k \in Creds : Latest.stakes[k] >= DbStakes(chain)[k]
    BY DEF BalancesNeverBelowLedger
  <2>1. HoldsMoney(Latest, chain)
    BY InformedIs DEF Owes
  <2> QED BY <2>1 DEF HoldsMoney, Covers
<1> QED BY <1>1, Invariance, Faithfulness, PTL

\* Live stake and rewards are the ledger's: an epoch's rewards are added once,
\* also where its first block was rolled back (apply_block, the rewards of a
\* new epoch).
THEOREM StakesAreTheLedgers == Spec => []StakesMatchLedger
<1>1. IInv /\ LInv => StakesMatchLedger
  <2> SUFFICES ASSUME IInv, LInv PROVE StakesMatchLedger
    OBVIOUS
  <2>1. ASSUME Informed({"reward"}) PROVE Latest.stakes = DbStakes(chain)
    <3>1. /\ Latest \in GoodSnapshots /\ HoldsMoney(Latest, chain)
          /\ "input" \notin Latest.missed
      BY <2>1, InformedIs DEF Owes
    <3>2. Latest.stakes \in [Creds -> Int] /\ DbStakes(chain) \in [Creds -> Nat]
      BY <3>1, ScanType DEF GoodSnapshots, Snapshot, IInv
    <3>3. \A k \in Creds : Latest.stakes[k] = DbStakes(chain)[k]
      BY <3>1 DEF HoldsMoney, Covers
    <3> HIDE DEF Latest
    <3> QED BY <3>2, <3>3
  <2>2. ASSUME Informed({"input"}), NEW k \in Creds
        PROVE  Latest.rewards[k] = DbRewards(chain, Latest.last_epoch, k)
    <3>1. HoldsRewards(Latest, chain) /\ "reward" \notin Latest.missed
      BY <2>2, InformedIs DEF Owes
    <3> QED BY <3>1 DEF HoldsRewards
  <2> QED BY <2>1, <2>2 DEF StakesMatchLedger
<1> QED BY <1>1, Invariance, Faithfulness, PTL

\* A credential backs whom db-sync says, since the slot db-sync says
\* (apply_delegation_changes).
THEOREM DelegationsAreTheLedgers == Spec => []DelegationsMatchLedger
<1>1. IInv /\ LInv => DelegationsMatchLedger
  <2> SUFFICES ASSUME IInv, LInv, Informed({"reward", "input"}), NEW r \in Roles, NEW k \in Creds
               PROVE  Latest.delegations[r].runs[k] = DbRun(chain, r, k)
    BY DEF DelegationsMatchLedger
  <2>1. HoldsRuns(Latest, chain)
    BY InformedIs DEF Owes
  <2> QED BY <2>1 DEF HoldsRuns
<1> QED BY <1>1, Invariance, Faithfulness, PTL

\* Pending retirements and lifetime blocks are db-sync's, for a pool no block
\* both registers and retires (apply_block, the pool certificates).
THEOREM PoolsAreTheLedgers == Spec => []PoolsMatchLedger
<1>1. IInv /\ LInv => PoolsMatchLedger
  <2> SUFFICES ASSUME IInv, LInv, Informed({"reward", "input"})
               PROVE  \A p \in Pools : ~RetiredAndRegistered(chain, p) =>
                        Latest.pools[p] = DbPool(chain, p)
    BY DEF PoolsMatchLedger
  <2>1. HoldsPools(Latest, chain)
    BY InformedIs DEF Owes
  <2> QED BY <2>1 DEF HoldsPools
<1> QED BY <1>1, Invariance, Faithfulness, PTL

\* A handle resolves to the output db-sync would find, through moves, burns and
\* rollbacks, once the chain holds what db-sync had stored (apply_handle_updates,
\* State::reset).
THEOREM HandlesAreTheLedgers == Spec => []HandlesMatchLedger
<1>1. IInv /\ LInv => HandlesMatchLedger
  <2> SUFFICES ASSUME IInv, LInv, Informed({"reward"}), IsPrefix(seen, chain), NEW h \in Handles,
                      WellIssued(chain, h) /\ ~BornAndBurned(chain, h)
               PROVE  Latest.handles.owner[h] = DbHandleOwner(chain, h)
    BY DEF HandlesMatchLedger
  <2>1. HoldsHandles(Latest, chain, seen) /\ "input" \notin Latest.missed
    BY InformedIs DEF Owes
  <2> QED BY <2>1 DEF HoldsHandles, Proper
<1> QED BY <1>1, Invariance, Faithfulness, PTL

\* A leaf of an asset that one block minted carries that block's slot, wherever
\* the asset went (mint_slots in apply_block).
THEOREM FirstMintsAreTheLedgers == Spec => []MintSlotIsFirstMint
<1>1. IInv /\ LInv => MintSlotIsFirstMint
  <2> SUFFICES ASSUME IInv, LInv, Informed({"reward"}), NEW a \in Addrs, NEW x \in Assets,
                      Latest.asset_holdings[a][x].qty > 0,
                      Cardinality(MintBlocks(chain, x)) = 1
               PROVE  Latest.asset_holdings[a][x].mint_slot = DbFirstMint(chain, x)
    BY DEF MintSlotIsFirstMint
  <2>1. HoldsMints(Latest, chain) /\ "input" \notin Latest.missed
    BY InformedIs DEF Owes
  <2> QED BY <2>1 DEF HoldsMints
<1> QED BY <1>1, Invariance, Faithfulness, PTL

\* What db-sync fails to give leaves the history, and whatever does not rest on
\* the missing answer, as they should be (the fallbacks of process_block and
\* State::init).
THEOREM FaultsDoNotSpread == Spec => []FaultsStayLocal
BY HistoryFollowsChain, StakesAreTheLedgers, HandlesAreTheLedgers, PTL DEF FaultsStayLocal

-----------------------------------------------------------------------------
(* The total staked *)

\* The change of total_staked a block makes.
LEMMA BlockMovesTotal ==
  ASSUME NEW prev \in GoodSnapshots, NEW c \in Seq(Block), NEW b \in Block, ChangesOnce(b),
         NEW lost, NEW fetched \in BOOLEAN
  PROVE  LET s == ApplyBlock(prev, c, b, lost, fetched)
         IN  s.total_staked = prev.total_staked + MembershipDelta(prev, s)
<1> DEFINE s == ApplyBlock(prev, c, b, lost, fetched)
           d == prev.delegations["pool"]
           changes == Changes(b.txs, "pool")
           value == [k \in Creds |-> s.stakes[k] + s.rewards[k]]
           order == SetToSeq(Creds)
           after == ApplyDelegationChanges(d, changes, b.slot)
           shift == Shift(d.runs, after.runs, value)
<1>1. "pool" \in Roles /\ b.slot \in Nat /\ b.txs \in Seq(Txs)
  BY DEF Roles, Block
<1>2. d \in GoodDelegations
  BY <1>1 DEF GoodSnapshots, GoodDelegations, Snapshot
<1>3. changes \in Seq(Change)
  BY <1>1, ListType
<1>4. s \in GoodSnapshots
  BY ApplyBlockKeeps
<1>5. s.total_staked = prev.total_staked + DelegationStakeDelta(d.runs, changes, value)
  BY DEF ApplyBlock
<1>6. s.delegations["pool"] = after
  BY <1>1 DEF ApplyBlock
<1> HIDE DEF s
<1>7. value \in [Creds -> Int]
  BY <1>4 DEF GoodSnapshots, Snapshot
<1>8. Once(Who(changes))
  <2>1. /\ Len(Who(changes)) = Len(changes) /\ DOMAIN changes = 1..Len(changes)
        /\ \A i \in 1..Len(changes) : Who(changes)[i] = changes[i].cred
    BY <1>3, WhoIs
  <2>2. \A i, j \in DOMAIN changes : changes[i].cred = changes[j].cred => i = j
    BY DEF ChangesOnce
  <2> HIDE DEF changes
  <2> QED BY <2>1, <2>2 DEF Once
<1>9. order \in Seq(Creds)
  BY NamesAssumption, SetToSeqIn
<1>10. MembershipDelta(prev, s) = Worth(order, shift)
  <2> DEFINE delta(k) == IF StakedIn(prev, k) = StakedIn(s, k) THEN 0
                         ELSE IF StakedIn(s, k) THEN s.stakes[k] + s.rewards[k]
                         ELSE 0 - (s.stakes[k] + s.rewards[k])
  <2>1. MembershipDelta(prev, s) = SumSeq([i \in DOMAIN order |-> delta(order[i])])
    BY DEF MembershipDelta
  <2>2. \A k \in Creds : shift[k] = delta(k)
    BY <1>6 DEF Shift, StakedIn
  <2>3. \A i \in DOMAIN order : order[i] \in Creds
    BY <1>9, ElementIn
  <2> HIDE DEF delta, order, shift
  <2>4. [i \in DOMAIN order |-> delta(order[i])] = [i \in DOMAIN order |-> shift[order[i]]]
    BY <2>2, <2>3
  <2> QED BY <2>1, <2>4 DEF Worth
<1> HIDE DEF d, changes, value
<1>11. DelegationStakeDelta(d.runs, changes, value) = Worth(order, shift)
  BY <1>1, <1>2, <1>3, <1>7, <1>8, DeltaIsShift
<1> QED BY <1>5, <1>10, <1>11 DEF s

\* The snapshot of a block is the last one, and the chain grows by it.
LEMMA ApplyEnds ==
  ASSUME NEW h \in Seq(GoodSnapshots), NEW s \in GoodSnapshots
  PROVE  Last(Trim(Append(h, s))) = s
<1> DEFINE g == Append(h, s)
<1>1. /\ Len(h) \in Nat /\ Len(g) = Len(h) + 1 /\ g[Len(h) + 1] = s
      /\ g \in Seq(GoodSnapshots) /\ MaxHistory \in Nat \ {0}
  BY LenNat, AppendIs, ChainAssumption
<1>2. Last(g) = s
  BY <1>1 DEF Last
<1> HIDE DEF g
<1>3. CASE ~(Len(g) > MaxHistory)
  BY <1>2, <1>3 DEF Trim, g
<1>4. CASE Len(g) > MaxHistory
  <2>1. /\ Len(Tail(g)) = Len(h) /\ Len(h) \in 1..Len(h)
        /\ \A i \in 1..Len(h) : Tail(g)[i] = g[i + 1]
    BY <1>1, <1>4
  <2>2. Last(Tail(g)) = s
    BY <1>1, <2>1 DEF Last
  <2> QED BY <1>4, <2>2 DEF Trim, g
<1> QED BY <1>3, <1>4

\* A block that names each credential once moves total_staked by the stake of
\* the credentials that entered or left the delegated set.
LEMMA StepMovesTotal ==
  IInv /\ [Next]_vars =>
    [(Len(chain') = Len(chain) + 1 /\ ChangesOnce(Last(chain'))) =>
       Last(history').total_staked =
         Latest.total_staked + MembershipDelta(Latest, Last(history'))]_vars
<1> SUFFICES ASSUME IInv, Next, Len(chain') = Len(chain) + 1, ChangesOnce(Last(chain'))
             PROVE  Last(history').total_staked =
                      Latest.total_staked + MembershipDelta(Latest, Last(history'))
  OBVIOUS
<1>1. chain \in Seq(Block) /\ Len(chain) \in Nat /\ history \in Seq(GoodSnapshots) /\ chain # <<>>
  BY LenNat DEF IInv
<1>2. ASSUME NEW n \in DOMAIN chain, chain' = Prefix(n) PROVE FALSE
  <2>1. n \in 1..Len(chain)
    BY <1>1, LenNat
  <2>2. Len(chain') = n
    BY <1>1, <1>2, <2>1, LastOfPrefix DEF Prefix
  <2> QED BY <1>1, <2>1, <2>2
<1>3. ~TruncateSome
  BY <1>2 DEF TruncateSome, Truncate
<1>4. ~ResetSome
  BY <1>2 DEF ResetSome, Reset
<1>5. ApplySome
  BY <1>3, <1>4 DEF Next
<1>6. PICK b \in NextBlocks(chain) :
        \E lost \in (IF "input" \in Faults THEN SUBSET NeedDb(Last(history), b)
                     ELSE {{}}),
           fetched \in (IF "reward" \in Faults THEN BOOLEAN ELSE {TRUE}) :
          Apply(b, lost, fetched)
  BY <1>5 DEF ApplySome
<1>7. PICK lost \in (IF "input" \in Faults THEN SUBSET NeedDb(Last(history), b)
                     ELSE {{}}),
           fetched \in (IF "reward" \in Faults THEN BOOLEAN ELSE {TRUE}) :
             Apply(b, lost, fetched)
  BY <1>6
<1>8. fetched \in BOOLEAN
  OBVIOUS
<1> DEFINE s == ApplyBlock(Latest, chain, b, lost, fetched)
<1>9. history # <<>> /\ chain' = Append(chain, b) /\ history' = Trim(Append(history, s))
  BY <1>7 DEF Apply, Latest
<1>10. b \in Block
  BY <1>1, NextBlocksType
<1>11. Latest \in GoodSnapshots
  BY <1>9, LastIsLatest DEF Latest
<1>12. s \in GoodSnapshots
  BY <1>1, <1>8, <1>10, <1>11, ApplyBlockKeeps
<1>13. Last(chain') = b
  <2>1. Len(Append(chain, b)) = Len(chain) + 1 /\ Append(chain, b)[Len(chain) + 1] = b
    BY <1>1, <1>10, AppendIs
  <2> QED BY <1>9, <2>1 DEF Last
<1>14. s.total_staked = Latest.total_staked + MembershipDelta(Latest, s)
  BY <1>1, <1>8, <1>10, <1>11, <1>13, BlockMovesTotal
<1> HIDE DEF s
<1>15. Last(history') = s
  BY <1>1, <1>9, <1>12, ApplyEnds
<1> QED BY <1>14, <1>15

\* total_staked moves by the stake of the credentials that enter or leave the
\* delegated set, for a block that names each credential once (the comment on
\* delegation_stake_delta).
THEOREM TotalMovesWithMembers == Spec => SingleChangesMoveTotalStaked
BY Invariance, StepMovesTotal, PTL DEF Spec, SingleChangesMoveTotalStaked
=============================================================================
