------------------------------- MODULE Ledger -------------------------------
(***************************************************************************)
(* The chain the server follows, what a block does to the ledger, and what *)
(* db-sync answers about a stored chain.                                   *)
(*                                                                         *)
(* Every query of state/dbsync.rs that State::reset runs is written here   *)
(* as a function of the stored chain, in the terms of its SQL: a scan of   *)
(* the unspent outputs, a gaps-and-islands pass over the delegation        *)
(* certificates, a count of blocks.  These are the definitions the         *)
(* incremental path of BlockState.tla is held against.                     *)
(*                                                                         *)
(* Maps of the code are total functions here: an absent entry is a zero    *)
(* amount, the target Nobody, or an empty set.                             *)
(***************************************************************************)
EXTENDS Integers, Sequences, FiniteSets, SequencesExt, Sifting

CONSTANTS
  Addrs,        \* payment addresses
  Creds,        \* stake credentials
  NoCred,       \* what an enterprise address has for a credential
  CredOf,       \* the stake credential inside an address
  Assets,       \* native assets
  Handles,      \* the assets minted under an ADA Handle policy
  Virtual,      \* the handles resolved through their output's inline datum
  Pools, DReps, \* what a credential delegates to
  Nobody,       \* no target, no owner
  Unchanged,    \* a certificate that leaves one of the two delegations alone
  Txs, Body,    \* transactions by hash, and their contents
  EpochLength,  \* slots of an epoch
  Earned        \* Earned[k][e]: what k may first spend in epoch e (db-sync reward)

Targets == Pools \cup DReps
Roles == {"pool", "drep"}

Output == [addr : Addrs, ada : Nat, assets : [Assets -> Nat],
           datum : Addrs \cup {Nobody}]
Cert == [cred : Creds, to : [Roles -> Targets \cup {Nobody, Unchanged}]]
PoolCert == [pool : Pools, retiring : Nat]   \* retiring 0: a registration

\* An output reference: the transaction and the output's position.  The
\* collateral return stands after the regular outputs.
Refs == UNION {{t} \X (1..(Len(Body[t].outs) + Len(Body[t].coll_ret))) : t \in Txs}

TxBody == [valid : BOOLEAN, ins : Seq(Refs), outs : Seq(Output),
           coll : Seq(Refs), coll_ret : Seq(Output), certs : Seq(Cert),
           pool_certs : Seq(PoolCert), withdrawals : [Creds -> Nat]]

Change == [cred : Creds, target : Targets \cup {Nobody}]

Block == [slot : Nat, txs : Seq(Txs), issuer : Pools]

ASSUME NamesAssumption ==
  /\ IsFiniteSet(Creds) /\ IsFiniteSet(Handles)
  /\ NoCred \notin Creds
  /\ CredOf \in [Addrs -> Creds \cup {NoCred}]
  /\ Handles \subseteq Assets
  /\ Virtual \subseteq Handles
  /\ Nobody \notin Targets \cup Addrs \cup Creds
  /\ Unchanged \notin Targets \cup {Nobody}

ASSUME TxsAssumption ==
  /\ DOMAIN Body = Txs
  /\ \A t \in Txs : /\ Body[t].outs \in Seq(Output)
                    /\ Body[t].coll_ret \in Seq(Output)
  /\ \A t \in Txs : Body[t] \in TxBody
  /\ \A t \in Txs : IsInjective(Body[t].ins) /\ IsInjective(Body[t].coll)

ASSUME EpochAssumption ==
  /\ EpochLength \in Nat \ {0}
  /\ Earned \in [Creds -> Seq(Nat)]

-----------------------------------------------------------------------------
(* Transactions *)

\* The inputs a transaction spends and the outputs it creates: those of its
\* collateral alone when a script failed (phase 2).
Inputs == [t \in Txs |-> IF Body[t].valid THEN Body[t].ins ELSE Body[t].coll]

Outputs ==
  [t \in Txs |->
     LET regular == Len(Body[t].outs)
     IN  IF Body[t].valid THEN [i \in 1..regular |-> <<t, i>>]
         ELSE [i \in 1..Len(Body[t].coll_ret) |-> <<t, regular + i>>]]

OutputAt ==
  [r \in Refs |->
     LET regular == Len(Body[r[1]].outs)
     IN  IF r[2] <= regular THEN Body[r[1]].outs[r[2]]
         ELSE Body[r[1]].coll_ret[r[2] - regular]]

\* The delegation changes of a transaction, for pools or for DReps: a
\* deregistration is a change to Nobody, in both roles.
TxChanges ==
  [t \in Txs |-> [r \in Roles |->
     LET certs == Body[t].certs
         own == Sift(certs, {c \in ToSet(certs) : c.to[r] # Unchanged})
     IN  IF Body[t].valid
         THEN [i \in DOMAIN own |-> [cred |-> own[i].cred, target |-> own[i].to[r]]]
         ELSE <<>>]]

TxPoolCerts == [t \in Txs |-> IF Body[t].valid THEN Body[t].pool_certs ELSE <<>>]

TxWithdrawals ==
  [t \in Txs |-> IF Body[t].valid THEN Body[t].withdrawals ELSE [k \in Creds |-> 0]]

\* The assets of which a transaction creates or destroys units.
Minted ==
  [t \in Txs |->
     {x \in Assets :
        /\ Body[t].valid
        /\ SumSeq([i \in DOMAIN Body[t].outs |-> Body[t].outs[i].assets[x]])
             # SumSeq([i \in DOMAIN Body[t].ins |-> OutputAt[Body[t].ins[i]].assets[x]])}]

\* A transaction whose script failed returns the tokens of its collateral.
ASSUME CollateralAssumption ==
  \A t \in Txs : ~Body[t].valid => \A x \in Assets :
    SumSeq([i \in DOMAIN Body[t].coll |-> OutputAt[Body[t].coll[i]].assets[x]])
      = SumSeq([i \in DOMAIN Body[t].coll_ret |-> Body[t].coll_ret[i].assets[x]])

-----------------------------------------------------------------------------
(* Lists of transactions *)

AllInputs(txs) == FlattenSeq([i \in DOMAIN txs |-> Inputs[txs[i]]])
AllOutputs(txs) == FlattenSeq([i \in DOMAIN txs |-> Outputs[txs[i]]])
Changes(txs, r) == FlattenSeq([i \in DOMAIN txs |-> TxChanges[txs[i]][r]])
PoolCertsOf(txs) == FlattenSeq([i \in DOMAIN txs |-> TxPoolCerts[txs[i]]])
Withdrawn(txs, k) == SumSeq([i \in DOMAIN txs |-> TxWithdrawals[txs[i]][k]])
TxsOf(c) == FlattenSeq([i \in DOMAIN c |-> c[i].txs])

\* Outputs of txs that no transaction of txs spends, in order.
Unspent(txs) ==
  LET made == AllOutputs(txs)
  IN  Sift(made, ToSet(made) \ ToSet(AllInputs(txs)))

\* What a list of outputs holds: lovelace of an address, of a credential, and
\* units of one asset at an address.
AdaAt(refs, a) ==
  SumSeq([i \in DOMAIN refs |->
            IF OutputAt[refs[i]].addr = a THEN OutputAt[refs[i]].ada ELSE 0])
AdaOf(refs, k) ==
  SumSeq([i \in DOMAIN refs |->
            IF CredOf[OutputAt[refs[i]].addr] = k THEN OutputAt[refs[i]].ada ELSE 0])
UnitsAt(refs, a, x) ==
  SumSeq([i \in DOMAIN refs |->
            IF OutputAt[refs[i]].addr = a THEN OutputAt[refs[i]].assets[x] ELSE 0])

Epoch(slot) == slot \div EpochLength

EarnedIn(k, e) == IF e \in DOMAIN Earned[k] THEN Earned[k][e] ELSE 0
EarnedBy(k, epoch) == SumSeq([e \in 1..epoch |-> EarnedIn(k, e)])

-----------------------------------------------------------------------------
(* What db-sync answers about a stored chain *)

NoRun == [target |-> Nobody, since_slot |-> 0]

\* The scan of the unspent outputs.
DbUnspent(c) == Unspent(TxsOf(c))
DbBalances(c) == LET there == DbUnspent(c) IN [a \in Addrs |-> AdaAt(there, a)]
DbStakes(c) == LET there == DbUnspent(c) IN [k \in Creds |-> AdaOf(there, k)]
DbUnits(c) ==
  LET there == DbUnspent(c)
  IN  [a \in Addrs |-> [x \in Assets |-> UnitsAt(there, a, x)]]

\* MIN(slot) over ma_tx_mint: the first block that mints or burns units of x.
MintBlocks(c, x) == {i \in DOMAIN c : \E t \in ToSet(c[i].txs) : x \in Minted[t]}
DbFirstMint(c, x) ==
  LET minting == MintBlocks(c, x)
  IN  IF minting = {} THEN 0 ELSE c[Min(minting)].slot

\* Gaps and islands: the run a credential is in began with the earliest
\* certificate after which every certificate names the same target.
DelegationEvents(c, r, k) ==
  FlattenSeq([i \in DOMAIN c |->
    LET changes == Changes(c[i].txs, r)
        own == Sift(changes, {e \in ToSet(changes) : e.cred = k})
    IN  [j \in DOMAIN own |-> [target |-> own[j].target, slot |-> c[i].slot]]])
RunOf(ev) ==
  LET island == {i \in DOMAIN ev :
                   \A j \in i..Len(ev) : ev[j].target = Last(ev).target}
  IN  IF ev = <<>> \/ Last(ev).target = Nobody THEN NoRun
      ELSE [target |-> Last(ev).target, since_slot |-> ev[Min(island)].slot]
DbRun(c, r, k) == RunOf(DelegationEvents(c, r, k))

DbRewards(c, epoch, k) ==
  EarnedBy(k, epoch) - Withdrawn(TxsOf(c), k)

\* The epoch of the last of certs that retires p.
Retirements(certs, p) ==
  {i \in DOMAIN certs : certs[i].pool = p /\ certs[i].retiring # 0}
LastRetirement(certs, p) == certs[Max(Retirements(certs, p))].retiring

\* A retirement counts when a later transaction than the pool's latest
\* registration announced it.
DbPool(c, p) ==
  LET txs == TxsOf(c)
      announced(reg) ==
        {i \in DOMAIN txs : \E q \in ToSet(TxPoolCerts[txs[i]]) :
                              q.pool = p /\ (q.retiring = 0) = reg}
      pending == {i \in announced(FALSE) : i > Max(announced(TRUE))}
  IN  IF announced(TRUE) = {} THEN [known |-> FALSE, retiring |-> 0, blocks |-> 0]
      ELSE [known |-> TRUE,
            retiring |-> IF pending = {} THEN 0
                         ELSE LastRetirement(TxPoolCerts[txs[Max(pending)]], p),
            blocks |-> Cardinality({i \in DOMAIN c : c[i].issuer = p})]

\* The owner of a handle named by one output: its holder, or the address in
\* the datum of a virtual handle.
DbOwner(r, h) ==
  IF h \in Virtual /\ OutputAt[r].datum # Nobody THEN OutputAt[r].datum
  ELSE OutputAt[r].addr
DbHandleOwner(c, h) ==
  LET there == DbUnspent(c)
      held == {i \in DOMAIN there : OutputAt[there[i]].assets[h] > 0}
  IN  IF held = {} THEN Nobody ELSE DbOwner(there[Max(held)], h)

-----------------------------------------------------------------------------
(* Chains the node can deliver *)

\* No transaction stands twice in txs, and each spends what the ones before
\* it left unspent.
LegalOrder(txs) ==
  \A i \in DOMAIN txs :
    LET before == SubSeq(txs, 1, i - 1)
    IN  /\ txs[i] \notin ToSet(before)
        /\ ToSet(Inputs[txs[i]]) \subseteq ToSet(Unspent(before))

SlotsIncrease(c) == \A i, j \in DOMAIN c : i < j => c[i].slot < c[j].slot

\* A block is minted by a pool that is registered by then.
IssuersKnown(c) == \A n \in DOMAIN c : DbPool(SubSeq(c, 1, n), c[n].issuer).known

LegalTx(before, t, epoch) ==
  /\ t \notin ToSet(before)
  /\ LET there == ToSet(Unspent(before))
     IN  ToSet(Body[t].ins) \cup ToSet(Body[t].coll) \subseteq there
  /\ \A k \in Creds :
       Body[t].withdrawals[k] > 0 =>
         Body[t].withdrawals[k] = EarnedBy(k, epoch) - Withdrawn(before, k)

\* No epoch passes without a block.
LegalBlock(c, b) ==
  /\ b.slot > Last(c).slot
  /\ Epoch(b.slot) <= Epoch(Last(c).slot) + 1
  /\ \A i \in DOMAIN b.txs :
       LegalTx(TxsOf(c) \o SubSeq(b.txs, 1, i - 1), b.txs[i], Epoch(b.slot))
  /\ DbPool(c, b.issuer).known
=============================================================================
