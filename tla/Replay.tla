------------------------------- MODULE Replay -------------------------------
(***************************************************************************)
(* The history of one subject's feed as the server cuts it into pages      *)
(* (server/replay.rs, the recent-* queries of state/dbsync.rs).            *)
(*                                                                         *)
(* A history is the sequence of the chain's blocks, oldest first, and a    *)
(* block's slot is its place in it.  A block records                       *)
(*   epoch  the epoch it is in                                             *)
(*   net    the net change of the subject's stake, withdrawals included    *)
(*   wd     what it withdraws of the subject's rewards                     *)
(*   rows   what db-sync has of it for the feed, as sources: "touch" for a *)
(*          stake credential or an address, "block", "vote" and "deleg"    *)
(*          for a pool or a DRep                                           *)
(***************************************************************************)
EXTENDS Integers, SequencesExt, FiniteSetsExt, Sifting

CONSTANTS
  PageSize,  \* STAKE_REPLAY_BLOCKS, MAX_REPLAY_BLOCKS
  Rewards,   \* Rewards[e]: what becomes spendable at the start of epoch e
  Stake0,    \* the subject's stake before the first block
  Top        \* i64::MAX, the place before the newest row

ASSUME ReplayAssumption ==
  /\ PageSize \in Nat \ {0} /\ Top \in Nat
  /\ Rewards \in Seq(Nat) /\ Stake0 \in Int

Sources == {"touch", "block", "vote", "deleg"}

\* Bound: rows of a block.
MaxRows == 3

\* Rows are numbered in chain order within a source.
RowId(slot, i) == MaxRows * slot + i

Rows(history, synced) ==
  UNION {{[slot |-> s, src |-> history[s].rows[i], id |-> RowId(s, i)] :
            i \in DOMAIN history[s].rows} : s \in 1..synced}

\* The sum of a list at some of its places.
Total(f, set) == SumSeq([i \in DOMAIN f |-> IF i \in set THEN f[i] ELSE 0])

-----------------------------------------------------------------------------
(* Stake and addresses: pages of blocks below a slot *)

\* The newest slots of a set, at most PageSize of them.
NewestSlots(slots) ==
  {s \in slots : Cardinality({t \in slots : t > s}) < PageSize}

Touching(history, synced) ==
  {s \in 1..synced : history[s].rows # <<>>}

\* stake_recent_blocks and address_recent_blocks
RecentBlocks(history, synced, before) ==
  NewestSlots({s \in Touching(history, synced) : s < before})

\* The subject's stake before a block, rewards spendable by its epoch included.
StakeBefore(history, slot) ==
  Stake0 + Total([s \in DOMAIN history |-> history[s].net], 1..(slot - 1))
         + Total(Rewards, 1..history[slot].epoch)

\* The live stake the state holds after its last block.
LiveStake(history, applied) ==
  Stake0 + Total([s \in DOMAIN history |-> history[s].net], 1..applied)
         + Total(Rewards, 1..history[applied].epoch)

\* stake_epoch_rewards
RewardsSince(epoch, anchor) ==
  Total(Rewards, {e \in DOMAIN Rewards : e > epoch /\ e <= anchor.epoch})

\* stake_withdrawals_since, without the blocks on the page: what was withdrawn
\* after a slot and is not in the net change of a block of the page.
OffWindow(history, synced, page, slot) ==
  Total([s \in DOMAIN history |-> history[s].wd],
        {s \in (slot + 1)..synced : s \notin page})

\* Mutant: the rewards of later epochs are left in.
PreBlockStakeNow(history, synced, page, walked, anchor) ==
  anchor.stake + OffWindow(history, synced, page, Min(walked))
    - Total([s \in DOMAIN history |-> history[s].net], walked)

\* SubjectReplay::pre_block_stake, at the last of the blocks walked: rewards of
\* later epochs and other withdrawals are undone, and every block's net change.
PreBlockStake(history, synced, page, walked, anchor) ==
  LET oldest == Min(walked)
  IN  anchor.stake - RewardsSince(history[oldest].epoch, anchor)
        + OffWindow(history, synced, page, oldest)
        - Total([s \in DOMAIN history |-> history[s].net], walked)

-----------------------------------------------------------------------------
(* Pools and DReps: three lists of rows, each paged by its own row id *)

NewerRow(r, t) == r.slot > t.slot \/ (r.slot = t.slot /\ r.id > t.id)

NewestRows(rows) ==
  {r \in rows : Cardinality({t \in rows : NewerRow(t, r)}) < PageSize}

\* pool_recent_blocks, -_votes and -_delegations, and those of a DRep
Fetched(rows, before, src) ==
  NewestRows({r \in rows : r.src = src /\ r.id < before[src]})

AllFetched(rows, before) ==
  UNION {Fetched(rows, before, src) : src \in Sources}

\* Mutant: a source goes on below all that was read of it, displayed or not.
CursorBelowFetched(rows, before, page) ==
  [src \in Sources |->
     Min({r.id : r \in Fetched(rows, before, src)} \cup {before[src]})]

\* The place of the next page: below the rows of this one, by source; a source
\* with no row on the page keeps its place.
NextCursor(rows, before, page) ==
  [src \in Sources |-> Min({r.id : r \in {t \in page : t.src = src}} \cup {before[src]})]

\* Mutant: rows that were read and not displayed are not looked at.
HasMoreIfFull(rows, before, page) ==
  \E src \in Sources : Cardinality(Fetched(rows, before, src)) = PageSize

HasMore(rows, before, page) ==
  \/ \E src \in Sources : Cardinality(Fetched(rows, before, src)) = PageSize
  \/ AllFetched(rows, before) # page

\* older_pool_drep: the newest rows of the three lists together.
MergedPage(rows, before) == NewestRows(AllFetched(rows, before))

\* How a slot of a page is shown: whole if its first row is the minted block,
\* else the transactions with one of the page's delegations or with a vote.
First(rows) == CHOOSE r \in rows : \A t \in rows \ {r} : NewerRow(r, t)

Displayed(history, page, slot) ==
  LET here == {r \in page : r.slot = slot}
      all == Rows(history, slot) \ Rows(history, slot - 1)
  IN  IF First(here).src = "block" THEN all
      ELSE {r \in all : r.src = "vote" \/ (r.src = "deleg" /\ r \in here)}
=============================================================================
