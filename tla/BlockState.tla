----------------------------- MODULE BlockState -----------------------------
(***************************************************************************)
(* The per-block state of server/src/state: what State::apply_block and    *)
(* apply_handle_updates make of the previous BlockSnapshot and a block,    *)
(* and the snapshot State::reset builds from db-sync.                      *)
(*                                                                         *)
(* A loop of the code is a recursive function over 0..Len(list), one step  *)
(* per iteration.                                                          *)
(***************************************************************************)
EXTENDS Ledger

Run == [target : Targets \cup {Nobody}, since_slot : Nat]
Delegations == [runs : [Creds -> Run], members : [Targets -> SUBSET Creds]]
HandleMaps == [owner : [Handles -> Addrs \cup {Nobody}],
               by_address : [Addrs -> SUBSET Handles],
               by_stake : [Creds -> SUBSET Handles]]
Pool == [known : BOOLEAN, retiring : Nat, blocks : Nat]
Held == [qty : Nat, mint_slot : Nat]

\* BlockSnapshot.  The hash of a block is the chain that ends in it.  missed
\* is not in the code: it records what the snapshot could not learn, an
\* unresolved input, an epoch's rewards that were not fetched, or a db-sync
\* that had not reached the slot it was reset to.
Snapshot ==
  [slot : Nat, hash : Seq(Block), last_epoch : Nat, utxos : SUBSET Refs,
   address_balances : [Addrs -> Nat],
   asset_holdings : [Addrs -> [Assets -> Held]],
   stakes : [Creds -> Int], rewards : [Creds -> Int],
   delegations : [Roles -> Delegations], total_staked : Int,
   pools : [Pools -> Pool], handles : HandleMaps,
   missed : SUBSET {"input", "reward", "lag"}]

-----------------------------------------------------------------------------
(* Delegations and their reverse index *)

\* Mutant: the index keeps those who left.
NeverLeave(index, from, who) == index

Leave(index, from, who) ==
  IF from = Nobody THEN index ELSE [index EXCEPT ![from] = @ \ {who}]
Join(index, to, who) ==
  IF to = Nobody THEN index ELSE [index EXCEPT ![to] = @ \cup {who}]

\* Mutant: a re-delegation to the same target starts a new run.
AlwaysStamp(d, change, slot) ==
  [runs |-> [d.runs EXCEPT ![change.cred] =
               IF change.target = Nobody THEN NoRun
               ELSE [target |-> change.target, since_slot |-> slot]],
   members |-> Join(Leave(d.members, d.runs[change.cred].target, change.cred),
                    change.target, change.cred)]

\* One iteration of apply_delegation_changes.
Delegate(d, change, slot) ==
  LET old == d.runs[change.cred]
      since == IF old.target = change.target THEN old.since_slot ELSE slot
  IN  [runs |-> [d.runs EXCEPT ![change.cred] =
                   IF change.target = Nobody THEN NoRun
                   ELSE [target |-> change.target, since_slot |-> since]],
       members |-> Join(Leave(d.members, old.target, change.cred),
                        change.target, change.cred)]

ApplyDelegationChanges(d, changes, slot) ==
  LET after[i \in 0..Len(changes)] ==
        IF i = 0 THEN d ELSE Delegate(after[i - 1], changes[i], slot)
  IN  after[Len(changes)]

\* Mutant: a deregistration leaves the total alone.
CountJoinsOnly(runs, changes, value) ==
  SumSeq([i \in DOMAIN changes |->
            IF runs[changes[i].cred].target = Nobody /\ changes[i].target # Nobody
            THEN value[changes[i].cred] ELSE 0])

\* Every change is compared with the delegations before the block.
DelegationStakeDelta(runs, changes, value) ==
  SumSeq([i \in DOMAIN changes |->
            LET was == runs[changes[i].cred].target # Nobody
                now == changes[i].target # Nobody
            IN  IF was = now THEN 0
                ELSE IF now THEN value[changes[i].cred]
                ELSE 0 - value[changes[i].cred]])

-----------------------------------------------------------------------------
(* ADA Handles *)

\* The moves a block makes: one per handle in an output.  The owner of a
\* virtual handle is in its output's inline datum; without one, no move.
HandleChanges(refs) ==
  LET owner(r, h) == IF h \in Virtual THEN OutputAt[r].datum ELSE OutputAt[r].addr
      moves(r) == {<<h, owner(r, h)>> :
                     h \in {x \in Handles : OutputAt[r].assets[x] > 0}}
      named(r) == SetToSeq({m \in moves(r) : m[2] # Nobody})
  IN  FlattenSeq([i \in DOMAIN refs |-> named(refs[i])])

ConsumedHandles(refs) ==
  {h \in Handles : \E r \in ToSet(refs) : OutputAt[r].assets[h] > 0}

\* The credential a handle is listed under: that of its owner, if it has one.
StakeOf(a) ==
  IF a = Nobody THEN Nobody ELSE IF CredOf[a] = NoCred THEN Nobody ELSE CredOf[a]

\* The by_stake index follows a handle only from one credential to another.
MoveHandle(m, h, to) ==
  LET from == m.owner[h]
  IN  IF from = to THEN m
      ELSE [owner |-> [m.owner EXCEPT ![h] = to],
            by_address |-> Join(Leave(m.by_address, from, h), to, h),
            by_stake |-> IF StakeOf(from) = StakeOf(to) THEN m.by_stake
                         ELSE Join(Leave(m.by_stake, StakeOf(from), h), StakeOf(to), h)]

ApplyHandleMoves(m, changes) ==
  LET after[i \in 0..Len(changes)] ==
        IF i = 0 THEN m ELSE MoveHandle(after[i - 1], changes[i][1], changes[i][2])
  IN  after[Len(changes)]

\* A handle spent and not produced again in the block is burned.
BurnHandles(m, burned) ==
  [owner |-> [h \in Handles |-> IF h \in burned THEN Nobody ELSE m.owner[h]],
   by_address |-> [a \in Addrs |-> m.by_address[a] \ burned],
   by_stake |-> [k \in Creds |-> m.by_stake[k] \ burned]]

\* Mutant: a burned handle still resolves.
MovesOnly(m, changes, consumed) == ApplyHandleMoves(m, changes)

ApplyHandleUpdates(m, changes, consumed) ==
  LET produced == {changes[i][1] : i \in DOMAIN changes}
      moved == ApplyHandleMoves(m, changes)
      burned == consumed \ produced
  IN  IF burned = {} THEN moved ELSE BurnHandles(moved, burned)

-----------------------------------------------------------------------------
(* Balances, holdings, pools *)

\* Mutant: debits first.
DebitFirst(amount, credit, debit) ==
  credit + (IF amount > debit THEN amount - debit ELSE 0)

\* Mutant: an entry whose old amount is spent goes, its credit with it.
DropDrained(amount, credit, debit) ==
  IF amount > debit THEN amount + credit - debit ELSE 0

\* Credits first, then debits that stop at zero.
Settle(amount, credit, debit) ==
  IF amount + credit > debit THEN amount + credit - debit ELSE 0

\* Mutant: every fresh leaf counts as minted in the block.
MintedNow(holdings, known, x, slot) == slot

\* The slot a fresh leaf of asset x records: that of the first consumed leaf
\* of the asset, or the block's own when none is spent.
MintSlot(holdings, known, x, slot) ==
  LET leaf(i) == holdings[OutputAt[known[i]].addr][x]
      carriers == {i \in DOMAIN known :
                     OutputAt[known[i]].assets[x] > 0 /\ leaf(i).qty > 0}
  IN  IF carriers = {} THEN slot ELSE leaf(Min(carriers)).mint_slot

BumpHolding(holdings, a, x, produced, known, slot) ==
  LET leaf == holdings[a][x]
      credit == UnitsAt(produced, a, x)
      qty == Settle(leaf.qty, credit, UnitsAt(known, a, x))
  IN  IF qty = 0 THEN [qty |-> 0, mint_slot |-> 0]
      ELSE [qty |-> qty,
            mint_slot |-> IF leaf.mint_slot = 0 /\ credit > 0
                          THEN MintSlot(holdings, known, x, slot)
                          ELSE leaf.mint_slot]

\* Mutant: a registration leaves a pending retirement in place.
KeepRetirement(pool, p, certs, issuer) ==
  LET registered == \E i \in DOMAIN certs : certs[i].pool = p /\ certs[i].retiring = 0
  IN  IF ~pool.known /\ ~registered THEN pool
      ELSE [known |-> TRUE,
            retiring |-> IF Retirements(certs, p) # {} THEN LastRetirement(certs, p)
                         ELSE pool.retiring,
            blocks |-> pool.blocks + (IF issuer = p THEN 1 ELSE 0)]

\* The block's registrations first, each clearing a pending retirement; then
\* its retirements; then the issuer's block.
ApplyPoolCerts(pool, p, certs, issuer) ==
  LET registered == \E i \in DOMAIN certs : certs[i].pool = p /\ certs[i].retiring = 0
  IN  IF ~pool.known /\ ~registered THEN pool
      ELSE [known |-> TRUE,
            retiring |-> IF Retirements(certs, p) # {} THEN LastRetirement(certs, p)
                         ELSE IF registered THEN 0 ELSE pool.retiring,
            blocks |-> pool.blocks + (IF issuer = p THEN 1 ELSE 0)]

-----------------------------------------------------------------------------
(* The indexes kept beside the maps *)

MembersAgree(d) ==
  \A t \in Targets : d.members[t] = {k \in Creds : d.runs[k].target = t}

HandlesAgree(m) ==
  /\ \A a \in Addrs : m.by_address[a] = {h \in Handles : m.owner[h] = a}
  /\ \A k \in Creds : m.by_stake[k] = {h \in Handles : StakeOf(m.owner[h]) = k}

-----------------------------------------------------------------------------
(* A block on top of the previous snapshot *)

\* The inputs only db-sync can resolve: not created earlier in the block and
\* not among the outputs seen since the last reset.
NeedDb(prev, b) ==
  ToSet(AllInputs(b.txs)) \ (prev.utxos \cup ToSet(AllOutputs(b.txs)))

\* Mutant: spent outputs come out before the produced ones go in.
SpendFirst(utxos, produced, spent) == (utxos \ spent) \cup produced

\* Produced outputs go in before spent ones come out.
UpdateUtxos(utxos, produced, spent) == (utxos \cup produced) \ spent

\* Mutant: the rewards of the epoch that ended.
LastEpochDelta(k, last_epoch, epoch, fetched) ==
  IF last_epoch # epoch /\ fetched THEN EarnedIn(k, last_epoch) ELSE 0

\* The first block of an epoch adds what db-sync says became spendable in it.
RewardDelta(k, last_epoch, epoch, fetched) ==
  IF last_epoch # epoch /\ fetched THEN EarnedIn(k, epoch) ELSE 0

\* lost: the inputs no lookup resolved.  fetched: at an epoch boundary, that
\* the epoch's rewards came back from db-sync.
ApplyBlock(prev, c, b, lost, fetched) ==
  LET produced == AllOutputs(b.txs)
      inputs == AllInputs(b.txs)
      known == Sift(inputs, ToSet(inputs) \ lost)
      epoch == Epoch(b.slot)
      stakes == [k \in Creds |->
                   prev.stakes[k] + AdaOf(produced, k) - AdaOf(known, k)]
      rewards == [k \in Creds |->
                    prev.rewards[k] - Withdrawn(b.txs, k)
                      + RewardDelta(k, prev.last_epoch, epoch, fetched)]
      certs == PoolCertsOf(b.txs)
  IN  [slot |-> b.slot,
       hash |-> Append(c, b),
       last_epoch |-> epoch,
       utxos |-> UpdateUtxos(prev.utxos, ToSet(produced), ToSet(inputs)),
       address_balances |->
         [a \in Addrs |-> Settle(prev.address_balances[a],
                                 AdaAt(produced, a), AdaAt(known, a))],
       asset_holdings |->
         [a \in Addrs |-> [x \in Assets |->
            BumpHolding(prev.asset_holdings, a, x, produced, known, b.slot)]],
       stakes |-> stakes,
       rewards |-> rewards,
       delegations |->
         [r \in Roles |-> ApplyDelegationChanges(prev.delegations[r],
                                                 Changes(b.txs, r), b.slot)],
       total_staked |->
         prev.total_staked
           + DelegationStakeDelta(prev.delegations["pool"].runs,
                                  Changes(b.txs, "pool"),
                                  [k \in Creds |-> stakes[k] + rewards[k]]),
       pools |-> [p \in Pools |-> ApplyPoolCerts(prev.pools[p], p, certs, b.issuer)],
       handles |-> ApplyHandleUpdates(prev.handles, HandleChanges(produced),
                                      ConsumedHandles(known)),
       missed |-> prev.missed
                    \cup (IF lost # {} THEN {"input"} ELSE {})
                    \cup (IF prev.last_epoch # epoch /\ ~fetched
                          THEN {"reward"} ELSE {})]

-----------------------------------------------------------------------------
(* A snapshot from db-sync *)

DelegationsOf(runs) ==
  [runs |-> runs,
   members |-> [t \in Targets |-> {k \in Creds : runs[k].target = t}]]
DbDelegations(c, r) == DelegationsOf([k \in Creds |-> DbRun(c, r, k)])

\* What the credentials that have a target are worth together.
TotalStaked(runs, value) ==
  LET staked == SetToSeq({k \in Creds : runs[k].target # Nobody})
  IN  SumSeq([i \in DOMAIN staked |-> value[staked[i]]])

HandleMapsFor(owner) ==
  [owner |-> owner,
   by_address |-> [a \in Addrs |-> {h \in Handles : owner[h] = a}],
   by_stake |-> [k \in Creds |-> {h \in Handles : StakeOf(owner[h]) = k}]]

\* The blocks at or before a slot.
UpTo(c, slot) == Sift(c, {b \in ToSet(c) : b.slot <= slot})

\* slot_info: the last transaction at or before the slot, and its block.
\* Every query but the handles' stops there; the block counts stop at the
\* slot.
SlotInfo(c, slot) ==
  LET seen == UpTo(c, slot)
      some == {i \in DOMAIN seen : seen[i].txs # <<>>}
  IN  IF some = {} THEN <<>> ELSE SubSeq(seen, 1, Max(some))

\* State::reset(slot) while db-sync stores the chain c.
ResetSnapshot(c, slot, missed) ==
  LET seen == UpTo(c, slot)
      epoch == Epoch(slot)
      stakes == DbStakes(seen)
      units == DbUnits(seen)
      rewards == [k \in Creds |-> DbRewards(seen, epoch, k)]
      delegations == [r \in Roles |-> DbDelegations(seen, r)]
  IN  [slot |-> slot,
       hash |-> SlotInfo(c, slot),
       last_epoch |-> epoch,
       utxos |-> {},
       address_balances |-> DbBalances(seen),
       asset_holdings |->
         [a \in Addrs |-> [x \in Assets |->
            IF units[a][x] = 0 THEN [qty |-> 0, mint_slot |-> 0]
            ELSE [qty |-> units[a][x], mint_slot |-> DbFirstMint(c, x)]]],
       stakes |-> stakes,
       rewards |-> rewards,
       delegations |-> delegations,
       total_staked |-> TotalStaked(delegations["pool"].runs,
                                    [k \in Creds |-> stakes[k] + rewards[k]]),
       pools |-> [p \in Pools |-> DbPool(seen, p)],
       handles |-> HandleMapsFor([h \in Handles |-> DbHandleOwner(c, h)]),
       missed |-> missed]
=============================================================================
