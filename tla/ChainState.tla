----------------------------- MODULE ChainState -----------------------------
(***************************************************************************)
(* The sink at work: it applies the blocks the node sends, rolls its       *)
(* history back when the node does, and rebuilds its state from db-sync    *)
(* when the history does not reach (sink.rs handle_apply and handle_reset  *)
(* with State of state/mod.rs).                                            *)
(*                                                                         *)
(* chain is the chain the sink was told to follow.  history holds at most  *)
(* MaxHistory snapshots, the last one for the block at the end of chain.   *)
(***************************************************************************)
EXTENDS BlockState

CONSTANTS
  Genesis,      \* the chain before the first block this process applies
  MaxHistory,   \* snapshots kept (2160 in the code)
  MaxBlocks,    \* bound: length of the chain
  BlockSize,    \* bound: transactions of a block
  MaxGap,       \* bound: slots from a block to the next
  Issuers,      \* bound: pools that mint blocks
  Faults        \* what may go wrong with db-sync in this instance

ASSUME ChainAssumption ==
  /\ Genesis \in Seq(Block) \ {<<>>}
  /\ Genesis[1].txs # <<>>
  /\ SlotsIncrease(Genesis)
  /\ LegalOrder(TxsOf(Genesis)) /\ IssuersKnown(Genesis)
  /\ MaxHistory \in Nat \ {0}
  /\ BlockSize \in Nat /\ MaxGap \in Nat
  /\ Issuers \subseteq Pools
  /\ Faults \subseteq {"input", "reward", "lag", "ahead"}

VARIABLES
  chain,    \* the blocks followed, in order
  history,  \* State.history
  seen      \* ghost: what db-sync stored at the last reset

vars == <<chain, history, seen>>

Prefix(n) == SubSeq(chain, 1, n)

NextBlocks(c) ==
  LET fresh == Txs \ ToSet(TxsOf(c))
  IN  {b \in [slot : (Last(c).slot + 1)..(Last(c).slot + MaxGap),
              txs : SeqOf(fresh, BlockSize), issuer : Issuers] : LegalBlock(c, b)}

Init ==
  /\ chain = Genesis
  /\ history = <<>>
  /\ seen = <<>>

-----------------------------------------------------------------------------

\* Mutant: one snapshot too many.
TrimLate(h) == IF Len(h) > MaxHistory + 1 THEN Tail(h) ELSE h

Trim(h) == IF Len(h) > MaxHistory THEN Tail(h) ELSE h

\* handle_apply.  State::apply_block expects an initialized history.
Apply(b, lost, fetched) ==
  /\ history # <<>>
  /\ chain' = Append(chain, b)
  /\ history' = Trim(Append(history,
                            ApplyBlock(Last(history), chain, b, lost, fetched)))
  /\ UNCHANGED seen

\* Mutant: the snapshot of the block rolled back to is dropped.
KeptBefore(slot) ==
  LET old == {i \in DOMAIN history : history[i].slot < slot}
  IN  IF old = {} THEN 0 ELSE Max(old)

\* The snapshots State::rollback(slot) keeps.
Kept(slot) ==
  LET old == {i \in DOMAIN history : history[i].slot <= slot}
  IN  IF old = {} THEN 0 ELSE Max(old)

\* handle_reset to the n-th block, the history reaching back that far.
Truncate(n) ==
  /\ Kept(chain[n].slot) > 0
  /\ history' = SubSeq(history, 1, Kept(chain[n].slot))
  /\ chain' = Prefix(n)
  /\ UNCHANGED seen

\* What db-sync may store when it is asked about the n-th block: the chain up
\* to there, one block more, of this fork or another, or not yet all of it.
DbViews(n) ==
  {Prefix(n)}
    \cup (IF "ahead" \in Faults
          THEN {Append(Prefix(n), b) : b \in NextBlocks(Prefix(n))}
                 \cup (IF n < Len(chain) THEN {Prefix(n + 1)} ELSE {})
          ELSE {})
    \cup (IF "lag" \in Faults THEN {Prefix(m) : m \in 1..(n - 1)} ELSE {})

\* handle_reset to the n-th block, the history too short: State::reset.  The
\* error of slot_info, when db-sync has no transaction so far back, is a panic
\* that ends the process.
Reset(n, db) ==
  LET slot == chain[n].slot
      reached == IsPrefix(Prefix(n), db)
  IN  /\ Kept(slot) = 0
      /\ SlotInfo(db, slot) # <<>>
      /\ history' = <<ResetSnapshot(db, slot, IF reached THEN {} ELSE {"lag"})>>
      /\ chain' = Prefix(n)
      /\ seen' = db

ApplySome ==
  /\ Len(chain) < MaxBlocks
  /\ history # <<>>
  /\ \E b \in NextBlocks(chain) :
       \E lost \in (IF "input" \in Faults THEN SUBSET NeedDb(Last(history), b)
                    ELSE {{}}),
          fetched \in (IF "reward" \in Faults THEN BOOLEAN ELSE {TRUE}) :
         Apply(b, lost, fetched)

TruncateSome == \E n \in DOMAIN chain : Truncate(n)

ResetSome == \E n \in DOMAIN chain : \E db \in DbViews(n) : Reset(n, db)

Next == ApplySome \/ TruncateSome \/ ResetSome

Spec == Init /\ [][Next]_vars

-----------------------------------------------------------------------------
(* Properties *)

\* The chain that ended in the block the i-th snapshot was taken at.
ChainAt(i) == Prefix(Len(chain) - Len(history) + i)

TypeOK ==
  /\ chain \in Seq(Block)
  /\ history \in Seq(Snapshot)
  /\ Len(history) <= MaxHistory
  /\ seen \in Seq(Block)

\* The history is the tail of the chain followed: a snapshot per block, none
\* skipped or kept twice, so that a rollback to any of them finds its own
\* state (State::rollback, the trimming at the end of apply_block).
HistoryIsChainTail ==
  /\ Len(history) <= Len(chain)
  /\ \A i \in DOMAIN history :
       /\ history[i].slot = Last(ChainAt(i)).slot
       /\ history[i].last_epoch = Epoch(Last(ChainAt(i)).slot)
       /\ i > 1 => history[i].hash = ChainAt(i)

\* Every unspent output created since the last reset is still at hand, and
\* nothing spent is: the cache input resolution reads before it asks db-sync.
UtxosAreUnspent ==
  \A i \in DOMAIN history :
    LET now == ToSet(Unspent(TxsOf(ChainAt(i))))
        before == ToSet(Unspent(TxsOf(ChainAt(1))))
    IN  /\ history[i].utxos \subseteq now
        /\ i > 1 => (now \ before) \subseteq history[i].utxos

\* The snapshot the server reads, State.latest, was taken at the end of chain.
Latest == Last(history)

\* The latest snapshot rests on nothing that was not learned, those of kinds
\* excepted.
Informed(kinds) == history # <<>> /\ Latest.missed \subseteq kinds

\* The balances and token quantities kept per block are those a scan of the
\* unspent outputs would give, whatever the order of credits and debits and
\* whether or not a script failed (apply_block's credits and debits).
BalancesMatchLedger ==
  Informed({"reward"}) =>
    /\ Latest.address_balances = DbBalances(chain)
    /\ [a \in Addrs |-> [x \in Assets |-> Latest.asset_holdings[a][x].qty]]
         = DbUnits(chain)

\* When an input was not resolved the balances err on one side only: money
\* that was spent may still show, money that is there never disappears
\* (the debits of apply_block, skipped for an input without an address).
BalancesNeverBelowLedger ==
  Informed({"reward", "input"}) =>
    LET balances == DbBalances(chain)
        units == DbUnits(chain)
        stakes == DbStakes(chain)
    IN  /\ \A a \in Addrs :
             /\ Latest.address_balances[a] >= balances[a]
             /\ \A x \in Assets : Latest.asset_holdings[a][x].qty >= units[a][x]
        /\ \A k \in Creds : Latest.stakes[k] >= stakes[k]

\* Live stake and rewards are those of the ledger at the block: each epoch's
\* rewards are added once, at the first block of the epoch, also when that
\* block was rolled back and another took its place.
StakesMatchLedger ==
  /\ Informed({"reward"}) => Latest.stakes = DbStakes(chain)
  /\ Informed({"input"}) => \A k \in Creds :
       Latest.rewards[k] = DbRewards(chain, Latest.last_epoch, k)

\* Whom a credential backs, and since when, does not depend on whether the
\* certificates were applied one by one or read back from db-sync: a
\* re-delegation to the same target keeps the run, a deregistration ends it.
DelegationsMatchLedger ==
  Informed({"reward", "input"}) =>
    \A r \in Roles : \A k \in Creds :
      Latest.delegations[r].runs[k] = DbRun(chain, r, k)

\* The reverse indexes agree with the maps they invert: the delegators of a
\* pool or DRep, the handles of an address, the handles of a stake credential
\* (apply_delegation_changes, attach_handle and detach_handle).
IndexesAgree ==
  \A i \in DOMAIN history :
    /\ \A r \in Roles : MembersAgree(history[i].delegations[r])
    /\ HandlesAgree(history[i].handles)

\* Some block of c retires a pool and registers it again.
RetiredAndRegistered(c, p) ==
  \E i \in DOMAIN c : \A reg \in BOOLEAN :
    \E q \in ToSet(PoolCertsOf(c[i].txs)) : q.pool = p /\ (q.retiring = 0) = reg

\* Pending retirements and lifetime blocks are those db-sync would report,
\* for a pool that is not retired and registered within one block.
PoolsMatchLedger ==
  Informed({"reward", "input"}) =>
    \A p \in Pools : ~RetiredAndRegistered(chain, p) =>
      Latest.pools[p] = DbPool(chain, p)

\* A re-registration cancels a pending retirement (the comment in
\* apply_block), also within one block.
RegistrationCancelsRetirement ==
  Informed({"reward", "input"}) =>
    \A p \in Pools : Latest.pools[p] = DbPool(chain, p)

\* A handle is created and spent for good within one block of c.
BornAndBurned(c, h) ==
  \E i \in DOMAIN c :
    LET carries(r) == OutputAt[r].assets[h] > 0
    IN  /\ \E r \in ToSet(AllOutputs(c[i].txs)) : carries(r)
        /\ ~ \E r \in ToSet(Unspent(TxsOf(SubSeq(c, 1, i)))) : carries(r)

\* A handle as its policy issues it: one unit, so that at no moment two unspent
\* outputs of c carry it, and a virtual one is never without an owner in its
\* output's datum.
WellIssued(c, h) ==
  LET txs == TxsOf(c)
      carriers(refs) == {r \in ToSet(refs) : OutputAt[r].assets[h] > 0}
  IN  /\ \A n \in 0..Len(txs) :
           \A q, r \in carriers(Unspent(SubSeq(txs, 1, n))) : q = r
      /\ h \in Virtual => \A r \in carriers(AllOutputs(txs)) : OutputAt[r].datum # Nobody

\* Once the sink has applied what db-sync had stored when it was reset, every
\* handle resolves to its holder: moves, burns and rollbacks included
\* (apply_handle_updates).  Two kinds are left out: one created and spent for
\* good within a block, and one not issued as its policy promises.
HandlesMatchLedger ==
  (Informed({"reward"}) /\ IsPrefix(seen, chain)) =>
    \A h \in Handles : (WellIssued(chain, h) /\ ~BornAndBurned(chain, h)) =>
      Latest.handles.owner[h] = DbHandleOwner(chain, h)

\* The faults of the queries stay where they strike: whatever inputs, rewards or
\* fresh rows db-sync fails to give, the history is the tail of the chain, and
\* what does not rest on the missing answer is the ledger's (apply_block, the
\* fallbacks of process_block and State::init).
FaultsStayLocal == HistoryIsChainTail /\ StakesMatchLedger /\ HandlesMatchLedger

\* Every leaf of an asset minted in one block only carries that block's slot,
\* through transfers to addresses that never held it (mint_slots in
\* apply_block).
MintSlotIsFirstMint ==
  Informed({"reward"}) =>
    \A a \in Addrs : \A x \in Assets :
      (/\ Latest.asset_holdings[a][x].qty > 0
       /\ Cardinality(MintBlocks(chain, x)) = 1) =>
        Latest.asset_holdings[a][x].mint_slot = DbFirstMint(chain, x)

\* The change of total_staked that the credentials which entered or left the
\* delegated set account for, at their stake after the block.
StakedIn(s, k) == s.delegations["pool"].runs[k].target # Nobody
MembershipDelta(old, new) ==
  LET order == SetToSeq(Creds)
      value(k) == new.stakes[k] + new.rewards[k]
  IN  SumSeq([i \in DOMAIN order |->
        IF StakedIn(old, order[i]) = StakedIn(new, order[i]) THEN 0
        ELSE IF StakedIn(new, order[i]) THEN value(order[i]) ELSE 0 - value(order[i])])

\* total_staked moves by the stake of the credentials that entered or left
\* the delegated set, and by nothing else (the comment on
\* delegation_stake_delta).
TotalStakedFollowsMembership ==
  [][(Len(chain') = Len(chain) + 1) =>
       Last(history').total_staked =
         Latest.total_staked + MembershipDelta(Latest, Last(history'))]_vars

\* The same, of the blocks in which no credential changes its pool twice.
ChangesOnce(b) ==
  LET changes == Changes(b.txs, "pool")
  IN  \A i, j \in DOMAIN changes : changes[i].cred = changes[j].cred => i = j
SingleChangesMoveTotalStaked ==
  [][(Len(chain') = Len(chain) + 1 /\ ChangesOnce(Last(chain'))) =>
       Last(history').total_staked =
         Latest.total_staked + MembershipDelta(Latest, Last(history'))]_vars
=============================================================================
