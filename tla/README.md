# A TLA+ model of pool-pm-cardano

The server follows a Cardano node block by block, keeps a state per block in
memory, serves it to web pages and pushes events to them. It never waits for
db-sync when a block arrives: whatever a block changes, it works out from the
previous state. db-sync is asked only at a cold start, when a rollback goes
further back than the history in memory, at an epoch boundary, and for inputs
that the state does not know.

That is where its correctness is delicate. What is computed block by block must
be what a scan of the whole ledger would give; a rollback must return to the
state of exactly the block the node names; the snapshot on disk must be one the
node can resume at; and what a page shows, put together from a first answer and
a stream of events, must be what a page opened later shows.

## Inventory

| component | state it keeps | operations | talks to |
| --- | --- | --- | --- |
| source (`source.rs`) | breadcrumbs, the configured point, `at_tip`, `sent_slot` | intersect, roll forward, roll backward, read timeout, reconnect, exit | node (chain-sync), sink (a bounded port) |
| sink (`sink.rs`) | flags `snapshot_saving`, `catching_up`; metadata cursors | `handle_apply`, `handle_reset`, periodic save, off-chain refresh | State (write lock), db-sync, event bus, a writing thread |
| State (`state/mod.rs`) | `history` of at most 2160 `BlockSnapshot`s, feed index, active stake | `apply_block`, `apply_handle_updates`, `rollback`, `reset`, save and load | db-sync, disk |
| db-sync (`state/dbsync.rs`) | none; the queries of a cold start, an epoch, an input, a page | one query each | PostgreSQL |
| transaction reader (`pallas.rs`, `model.rs`) | none | effective inputs and outputs, certificates, withdrawals | |
| event bus (`event_bus.rs`) | last 30 blocks, pending transactions | `send`, `subscribe` | sink, monitor, `/events` streams |
| mempool monitor (`mempool.rs`) | `pending` of the last pass | acquire, next transaction, end of a pass, reconnect | node (tx-monitor), event bus |
| daemon (`daemon.rs`) | stages, watchdog thread, CIP-26 loop | start, supervise, exit | all |
| progress stamps (`state/progress.rs`) | a time per kind of step | stamp, read | sink, source, watchdog |
| feed index (`state/feed_index.rs`) | per-subject block lists, delegation logs | record, rollback, prune, page | sink, replay |
| replay (`server/replay.rs`, `filter.rs`) | N2N permits | page backward, merge, filter, walk the stake back | feed index, node (block-fetch), db-sync |
| endpoints (`server.rs`, `server/`) | caches; per stream what it showed last | read the latest snapshot, live streams with diffs, pages of rows | State (read lock), event bus |
| off-chain metadata (`cip26.rs`, `cip68.rs`) | last commit seen, cursors | refresh, merge | State |
| feed of the web client (`web/src/lib/sse.ts`, `Feed.svelte`) | sections, `pendingPrune`, `feedCursor`, `feedDone`, `scrolledAway` | snapshot, events, trim, older pages, return to the newest edge | `/events`, `/older` endpoints |
| web grids and decoders (`web/src/lib`) | tiles, offset, `hasMore`, a request's generation | load a page, patch by a delta, reset; layout, order recognition, formatting | endpoints |

What is hard about them, and what makes each right:

* **Per-block state.** Two ways to the same thing: `apply_block` from the
  previous snapshot, `reset` from SQL. Outputs may be created and spent within
  one block, a script may fail, a credential may delegate twice in a block, a
  handle may be moved and burned. Right when both ways agree, after any mixture
  of blocks, rollbacks and rebuilds.
* **History.** Bounded, cut by rollbacks, replaced by rebuilds. Right when the
  i-th snapshot is of the i-th block of the chain's tail.
* **Resuming.** Three memories of where the process is (breadcrumbs, history,
  file), each with a depth of its own, against forks of any depth and an end of
  the process at any step. Right when the process ends up at the node's tip.
* **Staying alive.** A connection that is open and silent, a unit of work that
  hangs, flags that two threads store and read around a channel. Right when
  blocks go on being applied and the pages open.
* **Publishing.** Two producers with no common order, a bounded broadcast
  channel, pages that open at any time. Right when an open page and a new one
  agree.
* **Feed index.** Filled before the block is applied, cut at both ends, saved at
  the tip with a snapshot from some blocks back, with positions into a log that
  moves. Right when it is what the blocks of the chain within its reach add up
  to.
* **Paging back.** Three lists with a place each, a db-sync behind or ahead of
  the state, requests that are refused, a page that is trimmed at its far end.
  Right when no block is left out between the newest edge and the reader.
* **Live streams and grids.** An event is taken after the state has moved on, a
  page of rows is cut from a state that has changed since the page before it.
  Right when what is patched together is what a new page would show.
* **Names.** Three sources of names, kept in snapshots that come back, with
  cursors that do not. Right when no name that was read is lost and the source
  that should win does.
* **Monitor.** Polls a mempool whose contents change between passes and forgets
  everything when it reconnects. Right when nothing stays pending for good that
  is gone.

`PROJECT.json` lists the hazards of the code one by one, at their lines.

## Modules

| module | what it is |
| --- | --- |
| `Ledger` | chain, transactions, and what db-sync answers about a stored chain: the reference |
| `BlockState` | `BlockSnapshot` and what `apply_block`, `apply_handle_updates` and `reset` make of it |
| `ChainState` | the sink over time: apply, roll back, rebuild |
| `EventBus` | what an event makes of the bus and of a page, as functions |
| `LiveFeed` | node, port, sink, monitor, channel and pages over time |
| `Resume` | source, breadcrumbs, port, history, snapshot file, crashes |
| `Watch` | read timeout, watchdog, and the flags that end the catch-up, in time |
| `FeedIndex` | the index of what concerns each subject, as functions |
| `SubjectFeeds` | sink, history, file, crashes and the first page of a pool's feed, over time |
| `Replay` | how a subject's history is cut into pages, and the walk back through its stake |
| `PagedReader` | what paging promises a reader: the abstract specification |
| `FeedScroll` | an open feed from the connection to the first block of its history |
| `SubjectFilter` | what of a block belongs to a subject's page, and what it changes there |
| `LiveGrids` | an open page while the chain moves: feed, headers, grids |
| `Metadata` | names from db-sync, datums and the token registry over time |
| `MC...` | instances of the above for TLC (`Watch` needs none) |
| `Sifting` | a selection from a sequence, and a sum, in a form the proofs can unfold |
| `SequenceLemmas` | facts about least and greatest indices, loops, selections and sums that several proofs use |
| `ChainState_proofs` | the proofs about `Ledger`, `BlockState` and `ChainState` |
| `SubjectFeeds_proofs` | the proofs about `FeedIndex` and `SubjectFeeds` |
| `FeedScroll_proofs` | the proofs about `Replay` and `FeedScroll` |
| `LiveFeed_proofs` | the proofs about `EventBus` and `LiveFeed` |
| `Resume_proofs` | the proofs about `Resume` |
| `Metadata_proofs` | the proofs about `Metadata` |
| `LiveGrids_proofs` | the proofs about `SubjectFilter` and `LiveGrids` |

A type invariant, `TypeOK`, is in every module with variables; except in
`ChainState` it is a conjunct of the first property of the module, since it
says little alone. Properties that name a `marks` variable say in it what they
except: each mark is set by the step of the code that causes the exception.

### Ledger, BlockState, ChainState

A transaction of `Ledger` has inputs, outputs, collateral, a verdict on its
scripts, certificates for pools and for DReps, pool registrations and
retirements, and withdrawals; what it is made of is fixed by the constant
`Body`, and a block is a list of transaction hashes with a slot and an issuer.
Every query that `State::reset` runs is a function of the stored chain, in the
terms of its SQL: the unspent outputs (`DbBalances`, `DbStakes`, `DbUnits`), the
first minting block (`DbFirstMint`), the gaps-and-islands pass over delegation
certificates (`DbRun`), the latest retirement announced after the latest
registration (`DbPool`), the latest unspent output with a handle
(`DbHandleOwner`). These are the abstract specification of the state.

`BlockState` is the other way to the same values. `ApplyBlock` is
`State::apply_block` with what the sink puts together for it: a loop of the code
is a recursive function with one step per iteration (`ApplyDelegationChanges`,
`ApplyHandleMoves`), and the order of credits, debits and index updates is kept.
Maps are total functions; an absent entry is a zero, `Nobody` or an empty set.
`ResetSnapshot` is `State::reset`.

`ChainState` has three actions: `Apply` (`handle_apply`), `Truncate`
(`handle_reset` within the history) and `Reset` (`handle_reset` beyond it). Its
variable `chain` is what the node told the sink to follow, and a prefix of it
stands for the hash of its last block. Two ghosts record what the code does not:
`missed` in a snapshot (an input db-sync did not know, an epoch whose rewards
could not be fetched, a db-sync that lagged), and `seen`, what db-sync stored at
the last rebuild. The properties name the ghosts they allow for.

### EventBus, LiveFeed

`Take` is `EventBus::send`, `Show` is `handleEvent` of the page; both are
functions, `LiveFeed` says who calls them when. `SinkSend` publishes the events
of the port in order; the monitor's `Acquire`, `QueryNextTx` and `EndPass` are
the steps of `Worker::execute` between two awaits, so that blocks and pending
transactions interleave as they can in the code. A page's queue is its receiver
of the broadcast channel: at capacity it loses the oldest event, and the ghost
`lost` notes it. The ghost `again` holds the transactions announced again while
the page meant to drop them.

### Resume

A block is the chain that ends in it. `Start` is what `daemon::run` resumes
from, `Connect` is `intersect`, `RollForward` and `RollBackward` are the two
answers of chain-sync with the breadcrumbs and the port; `Apply`, `Truncate`,
`Rebuild` and `RebuildPanics` are the sink's; `SaveEnds` is the end of the
writing thread. The node follows its clients as the protocol says: `pos` is
where it has the client, a fork below `pos` moves it back, and the client is
`told` so with the next message.

Blocks in `Empty` have no transactions, which is all that `slot_info` cares
about. `marks` records three things: `deep`, a fork reached `Depth` blocks back;
`empty`, a rebuild was at an empty block; `astray`, db-sync had taken another
fork than the block the rebuild was told, so that the first snapshot has that
fork's hash. The node, the client library and db-sync (in step with the node
here) are external.

### Watch

Time passes in ticks of the watchdog; a stage that is neither slow nor stuck is
done with all it can do before the next tick. The source is three steps: `Read`
(with the read timeout, which ends in `Reconnect`), the send into the port, and
`Store` of `sent_slot`, `at_tip` and `node_tip` after it, so that the sink may
have the message first. The sink takes a unit of work that is prompt, slow or
stuck for good (`AnyTake`, `Finish`), stamps `BlockApplied` and ends the
catch-up by `CaughtUp`. `Check` is a turn of `spawn_watchdog`: a dump, or an
exit that the supervisor follows with `Start`. `Stall` is a connection that
delivers nothing any more. A block is its slot.

The watchdog does not see a process that is stuck before its first block, which
it takes for one that rebuilds its state: `Wedged` is that state, and both
properties except it. Three more things the model shows as they are: the read
timeout and the restart of the watchdog are the same 300 seconds, so which of
the two answers a silent connection is open; the end of the catch-up is looked
for when a block is applied only, so that a process that starts at the tip waits
for the next block; and `at_tip` is not cleared by a rollback.

### FeedIndex, SubjectFeeds

`FeedIndex` has the structure of `feed_index.rs` and its operations as
functions. The five maps of block references differ only in who is a subject and
when the sink adds one, so they are one map from kinds; the two delegation logs
are one map from roles. `PartitionPoint` is the slice method of that name, which
means something only on a sorted list: that the lists are sorted is part of
`IndexIsTheWindow`. `AddEvent` pushes positions one by one and `Rebuild` starts
over, as the code does; `PositionsFindEvents` says what both must give.

In `SubjectFeeds` a block is a slot and a hash, and constants say what a block of
that hash holds. `Apply` makes the entries from the state before the block, adds
them, prunes and appends; it may save, as every fiftieth block does. `Truncate`
and `Reset` are the two ends of `handle_reset`; `Restart` loads the file, and the
index is then ahead of the chain until `Truncate` or `Reset` answers the node's
first message. `FirstPage` is what `filtered_events` lists for a pool, filled up
from a db-sync that may lag. What a certificate finds delegated is a function of
the chain here: that snapshots agree with it is what `ChainState` shows. The
ghost `reach` says how far back the index is complete: `from` counts the blocks
of the chain that are no longer in it, because the state was rebuilt at
the block numbered `since`, or because the window moved past them for a block of
slot `high`. `RefsOf` and `EventsOf` list what each block of a chain adds, and
`IndexIsTheWindow` says that the index is exactly those lists, from the block
after `from` on and put together. The writing thread is left to `Resume`, here
the file changes at once.

### Replay, PagedReader, FeedScroll

`Replay` has the queries behind a page (`RecentBlocks` for a stake credential or
an address, `Fetched` for each of the three lists of a pool or a DRep), the
merge of the three (`MergedPage`, `NextCursor`, `HasMore`) and the walk that
undoes a block's changes to reach the stake before it (`PreBlockStake`). A
history is a sequence of blocks with the subject's rows, net change and
withdrawals in each; a block's slot is its place. A DRep's feed is a pool's
without minted blocks.

`FeedScroll` is one connection of a page with everything between: `Connect`,
`Query` and `SendBlocks` are `filtered_events` and `send_replay_blocks`, which
take what db-sync had and what the node gives at different moments; `Deliver` is
the next live event; `LoadOlder`, `Answer` and `Refuse` are `loadOlder` with the
endpoint's three ends; `ScrollAway` and `ScrollBack` are the reader's. The state
and db-sync take up the blocks of the chain each at its own pace (`Apply`,
`Sync`), and the node may give any part of a page. The marks name blocks the
node did not give and sections trimmed below the reader's place.

`PagedReader` says what is promised: the reader opens, takes the newest entries
left without skipping one, and is told to stop only when none is left.
`ReadsInOrder` is its specification with the rows not yet read in place of
`unread`; TLC checks it and `FeedReadsInOrder` proves it.

What is as it is in the code: a connection without a permit or a node gets no
history on that connection for a stake credential, since the cursor it seeds is
below every slot (the comment there says the page degrades gracefully and heals
itself); a block that the node does not give in the middle of a page is not asked
for again; and `resetOlder` does not fetch what was trimmed of the first page.

### SubjectFilter, LiveGrids

`SubjectFilter` is `filter.rs`: which transactions of a block a page shows
(`filter_event`), what each changes of the subject's stake
(`Moved`, `StakeChange`: `apply_stake_change`), and the largest change that the
sink records (`Added`, `Magnitude`: `block_stake_change_magnitudes`). The two are
loops of their own in the code and here: the first goes through a transaction for one
subject's members, the second looks up each credential's target and adds to it.

In `LiveGrids` the state applies blocks and rolls back, and the stream takes the
events later, comparing with whatever state it then finds. `Connect`
sends the header and `Seed` is `initial_live`, a second read of the state. An
event is two steps as well, where the code takes the lock twice: `Compare` holds
what is watched against what the last event left, and `Handle` makes the header,
unless nothing changed, and whatever else the event brings. A block between the
two is in the header and not in what the next event is compared with; if it is
rolled back, the header stays. `HeaderShowsState` therefore speaks of
headers that are what was compared (`header = seen`), and says that this is then the
state's.
`Fetch`, `Serve`, `Receive` and `Fail` are a request for a page of a grid, at its
four moments; a `CycleSort` or a reset may come between any two. `Drop` is a lost
connection or a stream that fell behind. A page is one view: a feed, the home
page, a grid of delegators, a grid of owned assets grouped by policy.

The properties compare with a page opened now. What they except, by mark, is how
the code is: the grid is not loaded again when the page reconnects; the first
event after a connection only sets what later ones are compared with; pages are
cut by offset, so that a row may be skipped once a row above it has left; a
delta may overtake the page it patches; a failed request, even one that a reset
has superseded, ends the loading; a stake header is not sent again for rewards
alone; the figures of the home page stay zero for an epoch whose query failed.

### Metadata

`AddRow` and `Commit` are the outside: db-sync fetches a name, the registry has a
new commit. `Apply` is `handle_apply` with the datums of the block and the idle
refresh after it, `RollBack` and `Reset` are `handle_reset`, `RegistryPass` is a
turn of the CIP-26 loop, and `Restart` an end of the process and a start from the
saved snapshot, which goes on from a block that the node has to know (what
happens otherwise is in `Resume`). A snapshot carries the chain up to its block
in the place of that block's hash. Names go into the newest snapshot; cursors and
`last_sha` are the process's. `passed` records the rows that a cursor went by without a snapshot
taking them: those that came while a rebuild ran, since the cursors are read
after the names, and those of subjects that no snapshot had. `apply_block` adds
no DReps to the map of names, so one registered after the last rebuild is never
named. What a pass of the registry wrote is lost by a rollback until the next
commit. A download that fails or is cut short is not modelled.

## Runs

| run | what it asks | bounds |
| --- | --- | --- |
| `ChainState` | do blocks, rollbacks and rebuilds agree with the ledger | 8 transactions, 4 blocks of up to 2, history of 2, 3 epochs |
| `ChainStateFaults` | what is left of it when db-sync fails, lags or is ahead | 3 blocks of one transaction |
| `LiveFeed` | do bus, open pages and new pages agree on blocks and pending transactions | one transaction, chain of 3, bus of 2, channel of 2, one reconnection |
| `Mempool` | does the monitor lose nothing while connected (also as liveness) | 2 transactions, chain of 2 |
| `Resume` | history, breadcrumbs and file across crashes; does it catch up (liveness) | chain of 5, forks of up to 3, depth 2, history of 3, 2 breadcrumbs, window of 2, port of 2, 2 faults |
| `ResumeEmptyBlock` | does it always catch up: refuted | one empty block, one crash, no forks |
| `SubjectFeeds` | is the feed index, and a page made from it, what the chain says | 3 blocks of 3 kinds over up to 6 slots, window and epoch of 3, history of 3, depth 2, one crash |
| `FeedScroll` | is nothing left out on the way back, is the stake walked back the ledger's, do three lists read as one (refinement) | histories of 5 or 6 blocks, pages of 2, db-sync at most one block off, one block on the bus, 2 sections shown |
| `StakeExact` | the comment on `pre_block_stake` for every page: refuted | the same |
| `LiveGrids` | do patched pages agree with new ones | 3 credentials, 4 addresses, 2 targets, 2 blocks, 2 events ahead, one rollback, one drop, pages of 2 |
| `Metadata` | is no name lost, does a datum win where it should | one pool, one DRep, one token, 3 blocks, 2 rows, one commit, 2 rollbacks or restarts, history of 2, depth 2, a save every 2 blocks |
| `Watch` | do blocks get applied and pages open, whatever hangs (liveness) | 4 slots, port of 2, limits of 3, 2 and 3 ticks, one fork, 2 faults |

Why the bounds are enough to meet the cases. The transactions of `MCChainState`
were chosen so that each can only hurt with another: an output created and
spent in one block, a token minted twice, a delegation moved and ended, a handle
moved, minted below another and burned, a script that fails with certificates in
it, a withdrawal of an epoch's reward, a pool retired and registered again. A
history of two with a chain of four makes every rollback either a cut or a
rebuild, and the epochs are two slots long. In `LiveFeed` the chain is longer
than the bus, and the channel shorter than what can be sent. In `Resume` the
history, the breadcrumbs, the saved depth and the cold-start window are all
shorter than the chain, so that forks fall between any two of them. In
`SubjectFeeds` the window equals the epoch, as on mainnet, and is shorter than
the chain; one kind of block delegates away and back, another ends and begins a
delegation, which are the cases where the state before the block and the one
before the certificate differ. In `FeedScroll` a history takes three pages, one
block has rows of all three lists and one several of the same, the page shows
less than it has loaded, and the withdrawals fall on different pages. In
`LiveGrids` a subject's delegators take two pages, a credential has two
addresses, so that a token may move within a subject, and the stream may be two
events behind. In `Metadata` a saved snapshot is older than the newest and a
rollback may be deeper than the history. In `Watch` the port is shorter than the
chain, and the limits of the read and of the restart are equal, as in the code.
The numbers of the code (2160, 30, 100, 8, 4096, five days, 300 seconds) are
constants of the modules.

Deadlock is not checked: each of these systems may stop at its bound, when the
node has no more blocks and the reader nothing more to do.

Fairness. `Resume`: the source and sink stages keep running and the supervisor
starts the process whenever it is down (`gasket`'s loop, the systemd unit the
comments rely on), and a writing thread ends; the node owes nothing, crashes and
lost connections are finitely many. `Watch`: source, sink and watchdog are
threads of their own, so each takes the steps it can, a unit that is not stuck
ends, and time goes on; the node goes on making blocks up to the bound, since the
end of a catch-up is looked for at a block; stalls, forks and stuck units are not
owed. `LiveFeed`: the sink publishes what it has, the monitor goes on polling,
pages read their stream. Only weak fairness is used.

## What the runs found

* A rebuild at a block without transactions saves a point that is on no chain,
  and a restart from it fails for good (`ResumeEmptyBlock`).
* A withdrawal on a newer page is undone once more by the walk of an older one:
  the stake shown there is too high (`StakeExact`).

`PROJECT.json` quotes the lines each of them contradicts. Eight more places where
a comment says more than the code does are stated as properties in the modules,
which the listed runs leave out. Each has a configuration of its own that checks
the property alone, and TLC finds it violated within seconds
(`tlc -config PoolRetirement.cfg MCChainState`):

| property | cfg and module | what the code does |
| --- | --- | --- |
| `RegistrationCancelsRetirement` | `PoolRetirement`, `MCChainState` | all registrations of a block come before all its retirements, so that a pool that retires and registers again in one block stays marked as retiring (`state/mod.rs:2046`); 2030: "a (re-)registration cancels a pending retirement" |
| `TotalStakedFollowsMembership` | `TotalStaked`, `MCChainState` | a credential that deregisters and delegates in one block leaves `total_staked` too low (`state/mod.rs:2181`); 2171: "one leaving (deregistration) subtracts it, and re-delegation pool→pool is a no-op" |
| `GoneTxsLeave` | `MempoolReconnect`, `MCLiveFeed` | a monitor that reconnects has forgotten what it announced: transactions that left meanwhile stay pending for new pages (`mempool.rs:464`); 432: "no state to lose" |
| `CatchesUp` | `ResumeDeepFork`, `MCResume` | after a fork deeper than breadcrumbs and saved snapshot, the process restarts from the same snapshot for good (`source.rs:119`); 103: "resumes from db-sync" |
| `EpochBlocksExact` | `EpochBlocks`, `MCSubjectFeeds` | a rollback into the previous epoch leaves a pool's count of blocks too low: its first slots were pruned by the blocks rolled back (`sink.rs:676`); `server/subject.rs:6-9`: "Exact count", "Rollback-safe" |
| `RefillsContiguously` | `FeedRefill`, `MCFeedScroll` | what newer blocks pushed out of the first page is not fetched again after a return to the newest edge (`sse.ts:136`); 131: "refetches from the seed and refills contiguously" |
| `LossesAreShown` | `LostStake`, `MCLiveGrids` | a page shows no stake that a delegation takes away, if the transaction moves no remaining member's money (`filter.rs:206`); 237: "live_stake gained/lost from delegation certificate changes" |
| `TickersOutrankRegistry` | `RegistryTickers`, `MCMetadata` | the registry's task overwrites a ticker that a token's own datum has set (`daemon.rs:436`); `state/mod.rs:1785`: "a token's own datum outranks the off-chain registry" |

A property of a listed run that leaves out one of these cases says so in its
comment, and the hazard it belongs to in its note. Met while reading, and visible
in the models without a property of their own:

* `source.rs:42` calls a reconnection after the read timeout harmless, without
  loss of state; the watchdog ends the process after the same 300 seconds.
* `replay.rs:981` says that a minted block wins over votes and delegations at its
  slot; the merge keeps the first row.
* A virtual handle whose output has no inline datum resolves to the holder of the
  output after a rebuild (`dbsync.rs:1897`, `state/mod.rs:1807`), and to nobody new
  when its block is applied (`sink.rs:333`): `WellIssued` leaves it out, along with
  a handle of which two unspent outputs exist.
* `state/mod.rs:1373` says that a rollback never crosses an epoch boundary; it
  does whenever a fork is at one, and the active stake is then that of the epoch
  left.
* A header may stay stale after a block that came between its two reads was rolled
  back (`server.rs:505-560`), until the next change.

Everything else holds.

## Proofs

TLC checks the instances above; the theorems hold for every value of the
constants. Each follows from an inductive invariant that TLC checked first.

**Per-block state.** `ChainState_proofs` proves, for every chain, transaction
set, epoch length, history bound and fault set:

* `TypeCorrect`: `Spec => []TypeOK`;
* `HistoryFollowsChain`: `Spec => []HistoryIsChainTail`;
* `IndexesStayExact`: `Spec => []IndexesAgree`.

None of the three is inductive alone. `HistoryIsChainTail` needs the slots of
the chain to increase, since a rollback finds its snapshot by slot; the index of
delegators is exact after a certificate only if it was exact before; and a
snapshot is well typed only if all it is computed from is. `IInv` is their
conjunction: `chain` and `seen` are sequences of blocks with increasing slots,
every snapshot is one of `GoodSnapshots` (well typed, with exact indexes), the
history is no longer than its bound, and it is the tail of the chain.
`InitIInv`, one lemma per action and `NextKeepsIInv` make `Invariance`, from
which the three follow.

Below it, the module shows that a certificate, a list of them, a
handle's move, a block's moves and burns, and a rebuild keep the indexes exact,
and that `ApplyBlock` and `ResetSnapshot` make good snapshots of good ones.

On top of it, the state kept per block is db-sync's:

* `CachesAreUnspent`: `Spec => []UtxosAreUnspent`;
* `BalancesAreTheLedgers`: `Spec => []BalancesMatchLedger`;
* `BalancesCoverTheLedger`: `Spec => []BalancesNeverBelowLedger`;
* `StakesAreTheLedgers`: `Spec => []StakesMatchLedger`;
* `DelegationsAreTheLedgers`: `Spec => []DelegationsMatchLedger`;
* `PoolsAreTheLedgers`: `Spec => []PoolsMatchLedger`;
* `HandlesAreTheLedgers`: `Spec => []HandlesMatchLedger`;
* `FirstMintsAreTheLedgers`: `Spec => []MintSlotIsFirstMint`;
* `FaultsDoNotSpread`: `Spec => []FaultsStayLocal`;
* `TotalMovesWithMembers`: `Spec => SingleChangesMoveTotalStaked`, from `IInv`
  alone.

The properties speak of the latest snapshot, but a rollback makes an older one
the latest. So the second invariant, `LInv` (`Faithfulness: Spec => []LInv`), says
of every snapshot what it owes the ledger of its own chain: `FaithfulTo`, with one
part per kind of data (`HoldsMoney`, `HoldsMints`, `HoldsRewards`, `HoldsRuns`,
`HoldsPools`, `HoldsHandles`) and nothing where db-sync lagged behind. A debit that stops at zero is exact only if
what is spent was there, so `LInv` has the chain legal (`LegalChain`): no
transaction twice, each spending what is unspent, every block of a registered
pool. The cache of outputs is compared between any two snapshots (`CachesOf`),
because the oldest one, which the property measures against, changes when the
history is trimmed.

Handles need more. A rebuild takes them from whatever db-sync has stored, which
may be one block more than the chain it rebuilds at, and the property speaks only
of chains that have caught up with that (`seen`). So `HoldsHandles` is relative to
`seen`: a chain that holds it has its own handles, one that is a block short of it
already has those of `seen`, and the moves and burns of that block must lead to the
same owner from either (`BlockKeepsHandle`). A leaf keeps its slot of the first mint
only as long as it is not empty, so `HoldsMints` says that an empty leaf has none,
and that every unspent unit shows in a leaf.

Each side of such a comparison is a computation over a list: the code's goes
block by block, db-sync's over the whole chain. They are compared through laws of
the lists themselves, in the first part of the module: what a concatenation of transactions
spends, creates, withdraws and certifies (`ListConcat`, `ChainAppend`); what its
unspent outputs are worth (`UnspentWorth`, `BlockWorth`: for a legal order, what
was there, plus what is created, less what is spent); the run of delegations after
one more event (`RunOfAppend`); a pool's announcements after one more block
(`PoolAppend`). `StepMovesTotal` compares two sums over different lists, of
changes and of credentials, through a map from the first into the second.

`SequenceLemmas` has what all of this needs about sums, selections and
concatenations. A loop is a recursive function over an interval, and facts about
it are proved from the well-foundedness of the naturals: the least index at which
the fact fails would have to follow an index at which it holds (`BuiltUp` is that
step for lists).

**Publishing.** `LiveFeed_proofs` proves, for every set of transactions and pages,
every size of port, bus and channel, and forks, reconnections of the monitor and
interleavings of the two producers in any order:

* `BusFollowsNode`: `Spec => []BusHoldsChainEnd`;
* `PagesShowBlocks`: `Spec => []PagesShowSameBlocks`;
* `PagesShowPending`: `Spec => []PagesShowSamePending`;
* `MonitorKnowsPending`: `Spec => []MonitorRemembers`.

All four speak of what is left once something on its way has arrived, so `IInv`
says what is on its way. `PortLeads`: the port's events lead, chain by chain,
from a chain whose end the bus holds to the node's. `PagesWillAgree`: a page that
missed nothing would, after its queue, agree with the bus; `Agrees` is the
relation the page keeps in between, which says of `pendingPrune` what the
property at the end does not need. `MonitorOrder`: a pass never finds twice. One
lemma says what an event does to the end of a chain (`TakeEnds`: the bound drops
the oldest block, a rollback a tail of the blocks), one that the page does the
same (`ShowAgrees`: its blocks are counted by slot, the bus's by place, and both
drop the same one since slots follow the chain).

**Resuming.** `Resume_proofs` proves, for every size of port, history,
breadcrumbs and window, every saved depth, and forks, lost connections and
crashes in any order:

* `HistorySettles`: `Spec => []SettledHistoryIsTheChain`;
* `CrumbsStayOnPath`: `Spec => []CrumbsAreOnPath`;
* `SavedPointStaysOnChain`: `Spec => []SavedPointIsOnChain`.

`SettledHistoryIsTheChain` speaks of moments when the port is empty, so the
invariant has to say what the port holds at the others. `IInv` follows the path
of the source. Its newest breadcrumb is the block `End`, and the older ones are
the blocks before it, one by one (`CrumbPart`). Each event in the port goes on
from where the one before it leaves the sink, and the last leaves it at `End`
(`PortPart`). The history is a run of blocks, one per slot, that ends where the
port begins (`HistoryPart`), and before the first message the history is empty or the
one point the process starts from (`StartPart`). `FilePart` is about the
snapshot: as long as no mark is set, the file, the snapshot being written and
the one that would be saved next are on the node's chain. It is inductive in a
form that speaks of every block the sink may yet reach: what lies `Depth` back
from such a block is before every later one, since a fork that is not marked
abandons fewer than `Depth` blocks.

**Names.** `Metadata_proofs` proves, for every set of pools, DReps, tokens and
registry contents, every history bound, saved depth and number of faults:

* `NamesStayRead`: `Spec => []NamesFollowDbSync`;
* `DatumsStayOnTop`: `Spec => []DatumsOutrankRegistry`.

The two need different things of the older snapshots. A rollback or a restart
reads every name again, so only the newest snapshot has to have what was read
(`Follows`); but the decimals and tickers of an older snapshot are taken as they
are, so each snapshot, the saved one included, ranks the datums of its own chain
first (`Good`), and the snapshots are those of the last blocks, one by one
(`TailOf`). `Follows` alone is not inductive either: a pool that a block brings in
has no name, so a row of it behind the cursor must have been passed over
(`Accounted`). The loop over a block's datums is compared with the last output
of the reference token in the whole chain (`DeclareLoop`, `DatumAppend`,
`DeclaredDecides`): an output without a datum leaves the old decimals, and then
nothing is promised; the next datum replaces them.

**Paging.** `FeedScroll_proofs` proves:

* `MergedPageIsNewest`: whatever the rows, the place and the page's size, the
  page cut from the newest of each of the three lists is the newest of all rows
  left, and the answer says that there is no more only if it is all of them;
* `FeedReadsInOrder`: `Spec => ReadsInOrder`, the refinement of `PagedReader`;
* `FeedIsGapFree`: `Spec => []FeedHasNoGap`;
* `ShownStakeIsTheLedgers`: `Spec => []StakeIsTheLedgers`.

The argument is that of the newest of the newest: a row not among the newest of
its own list is not among the newest of all. The next place of a list that has a
row on the page is below the row, and a list without one keeps its place, so what
is below the places together is what was left, without the page. `ReadInv` is
what the refinement needs of the page's state: a place is below or at the one
the connection was seeded with, and a request's place is not above the cursor.

`PageInv` adds what is on the page. That a place is not past a block that is not
shown (`GapsAreAhead`) has to hold of the seed and of a request's place as well as
of the cursor, because `ScrollBack` goes back to the one and an answer to the
other. The first page comes from two sources that need not agree, db-sync's page
and the bus's snapshot, and what is in neither is what db-sync lacked and the bus
had dropped: `LagIsShown` and `SeedIsKnown` say that there is no such block and
that the places are below all that db-sync had.

`StakeInv` adds, for a stake feed, that a place carries the epoch and the ledger's
stake of its block. A walk from one place to the next takes off the changes of
the blocks it has, and adds the withdrawals of blocks it does not; a block
that is not listed changes nothing else, so that the two sums together
are those of all the blocks on the way (`WalkIs`). The sums are over places of
lists (`Total`), and `TotalSplits` and `TotalCancels` are what is needed of them.
A withdrawal above a page's top is counted again by every page below it, which is
the finding `StakeExact` shows: the invariant asks for none (`Quiet`).

**Feed index.** `SubjectFeeds_proofs` proves, for every chain, every content of
the blocks, every window and epoch not longer than it, every history bound and
saved depth:

* `IndexFollowsChain`: `Spec => []IndexIsTheWindow`;
* `PositionsStayRight`: `Spec => []PositionsFindEvents`;
* `EveryChangeIsLogged`: `Spec => []ChangesAreLogged`;
* `EpochBlocksAreRight`: `Spec => []EpochBlocksWhenReached`;
* `FirstPagesHaveNoGap`: `Spec => []FirstPageHasNoGap`.

`IndexIsTheWindow` says nothing while the process waits for the node's first
message after a restart, and is not inductive for that reason: the file holds the
index of the tip beside a snapshot from some blocks back, and the rollback that
follows has to make one fit the other. So `IndexInv` says of an index, a chain
and a reach, those in memory and those in the file, that they are `Ahead`: the
index is right (`Holds`) for some longer chain, which the code no longer has, and
the chain is its beginning. A rollback of such an index, to any block of
the shorter chain, is right for that chain (`RollbackAhead`); a block is applied
only once the two agree. `Holds` needs the slots to increase along the chain,
since the code finds the ends of every list by binary search over slots
(`PointIs`), and it says what the properties do not: that what was cut off
at the front was cut off for a block as high as `high` (`IsReach`), which is what
makes an epoch's count exact.

The index is cut at both ends, and each list of it, which is the concatenation of
what the blocks add, has to lose whole blocks: `CutKeeps` and `DropKeeps` show
that of any list whose elements carry the slots of the blocks they are from.
That an event of the log says from what to what its block changed a
credential, though each was made from the state before the block, rests on
`LastOwn`: the last certificate of the credential decides what is delegated after
the block, and its event is dropped only if it brings the credential back to where
it was.

**Open pages.** `LiveGrids_proofs` proves, for every set of pages, blocks and
addresses, every first snapshot, page size and length of the queue, whatever
blocks, rollbacks, lost connections, failed requests and changes of the sort:

* `HeaderIsTheStates`: `Spec => []HeaderShowsState`;
* `MagnitudesAreShown`: `Spec => []MagnitudesAreChanges`;
* `ChangesAreSums`: `Spec => []ChangesAddUp`;
* `DelegatorsAreShown`: `Spec => []GridShowsDelegators`;
* `AssetsAreShown`: `Spec => []GridShowsAssets`.

All rest on `TypeCorrect`, whose `TypeInv` is more than types: no stake is
negative, no list of tiles has an id twice, and a request that is not from before
a reset asks for the place the grid is at. That the rows of a page are those of
its members, once each, is `SortedIs`: in an order that is total, the number of
elements below one is its place.

`HeaderIsTheStates` rests on `ComparedInv`: what an event was compared with is what
is watched in the state, or one more event is on its way that will compare again.
`MagnitudesAreShown` compares two loops: `AddedIs` says that what the sink adds to a
target is what `Moved` counts for the target's members.

What a feed adds up is `TallyInv`: the tally is right for every block that will be
left when the rollbacks on their way are taken, and a page with a block's event
behind another is given up, as it will be marked (`Doomed`). `LastInv` says that
the event of a block is of the state's last step, so that the members it is
compared with are those after that block. The sum itself is exchanged three times
(`WorthExchange`, `WorthSplits`): what a block moves to a credential is summed over its
addresses (`CredMoves`), what it moves to a set of credentials over these
(`GroupMoves`), and the same over its transactions, which is what the feed shows
(`BlockMoves`, `BlockJoins`). With each credential certified at most once,
the certificates bring the stake of those that have come and take that of those
that have gone (`MembersJoin`); money is then counted for the members after
the block. `BlockAddsUp` puts this together.

The two grids share `Shows`, which relates tiles, cursor, request and the listing
that the state would give now, at every moment of a request: the rows above the
cursor are shown, with those of an answer on its way the rows above its next
place are, and what is to be shown is, if there is no more to load. Its
parameters are what a tile may be (`good`) and whose tile has to be there in the
end (`goal`): while an event is on its way these are not quite the state's.

For delegators (`DelegInv`, `PrevInv`) the difference is one event: a page that is
still right (`Open`) has at most one event to take, and what that event did not
touch (`Hit`) is in the state before it what it is after (`UntouchedIs`): a
credential keeps its stake unless its money moved or an epoch began, and its
target unless a certificate named it. So a delta that patches what the block
touched makes the tiles those of the state. For assets (`AssetInv`, `AheadInv`) the
tiles are compared with the holdings the stream last saw (`Base`) and not with
the state, which is why the state may be past the event: the next delta takes what
is left. A delta takes tokens one by one, so `LoseAllExact` and `GainAllExact` go
through sets of tokens that are partly gone, by way of `Exact`: one tile per
policy, each with the count of its tokens.

Assumed: `NamesAssumption`, `TxsAssumption`, `EpochAssumption`,
`CollateralAssumption` and `ChainAssumption`; `MetadataAssumption`; `BusAssumption` and `FeedAssumption` (sizes are natural
numbers, those of bus, port and channel not zero); `ResumeAssumption`; `ReplayAssumption`, `ScrollAssumption` and
`FeedsAssumption` of `FeedScroll`; `SubjectAssumption` and `FeedsAssumption` of
`SubjectFeeds`, all evaluated by TLC on the runs. The first five ask for sets
that do not overlap, finitely many credentials and handles, transactions that are
well formed and list no input twice (the ledger's inputs are a set), and a first
chain that the node could have delivered: increasing slots, a legal order of
transactions, blocks of registered pools; and that a transaction whose script
failed gives back the tokens of its collateral, as the ledger demands. Of `ResumeAssumption` three
parts carry weight: the depth of the saved snapshot is at most the history's
bound and at most one more than the window, and the chain is longer than the
window at the start.

`FeedScroll` asks for a bus that is no longer than the page (`MAX_BLOCKS` is 30 on
both sides), so that db-sync lags by less than the page shows; for a `Top` above
every row's id (`i64::MAX`); for epochs that do not go down along the chain; and,
for a stake credential, that a block which is not listed changes its stake by no
more than what it withdraws. The code promises more: every block with an output, an
input or a withdrawal of the credential is listed (`stake_recent_blocks`), so that
both are zero.

`FeedsAssumption` of `SubjectFeeds` gives the kinds of what a block holds, and asks for a block to be
minted by at most one pool, for an epoch no longer than the window (the constants
of the code are equal on mainnet), and for a saved depth within the history's
bound; the root block, from which a cold start counts, concerns nobody.
`MetadataAssumption` gives the kinds of what db-sync, datums and the registry
hold, and no pool is a DRep. For `LiveGrids`, `FilterAssumption` asks for finitely
many credentials, `GridAssumption` for a page size and bounds above zero, and
`ViewsAssumption` gives the kinds of pages, snapshots and blocks: holdings are
finite, a delegation is of a credential, and a grid is opened for a subject that
has one.

Every invariant that a passing run checks is stated by a theorem. Only
model-checked: all liveness, that of `LiveFeed` and `Watch` included.

## Not modelled, and what is left

Parts of modelled components:

* DReps: registration, activity, votes and their scores per block, titles.
* Reward capsules and delegation labels in a feed, and the threshold above which
  a change of stake is worth recording.
* The assets of one policy, filters by name, sorting by time in the grids.
* A registry that answers in part, which the code takes for its whole content.

Left out for good: drawing, formatting, CSS, layout, recognition of DEX orders by
their datum's shape, the Prometheus gauges, command-line parsing, network
constants, and the queries of endpoints that compute an answer from one snapshot
and change nothing.
