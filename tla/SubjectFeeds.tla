----------------------------- MODULE SubjectFeeds -----------------------------
(***************************************************************************)
(* The feed index beside the history: filled block by block before the     *)
(* block is applied, cut back with the history, emptied when the state is  *)
(* rebuilt, saved as it is at the tip next to a snapshot from some blocks  *)
(* back, and read by the feed of a pool (sink.rs, State of state/mod.rs,   *)
(* daemon.rs, filtered_events of server.rs).                               *)
(*                                                                         *)
(* A block is a slot and a hash; Marks and Certs say what a block of that  *)
(* hash holds.  What a certificate finds delegated is read from the chain: *)
(* ChainState shows that the snapshots agree with it.                      *)
(***************************************************************************)
EXTENDS FeedIndex, FiniteSetsExt

CONSTANTS
  Hashes,      \* what tells blocks of one slot apart
  Marks,       \* Marks[h][k]: the subjects of kind k a block concerns
  Certs,       \* Certs[h][r]: its delegation certificates, in order
  Window,      \* FEED_INDEX_WINDOW: five days of slots
  EpochLength, \* slots of an epoch (five days on mainnet)
  Depth,       \* snapshot_depth
  MaxHistory,  \* snapshots in memory
  MaxReplay,   \* MAX_REPLAY_BLOCKS (30)
  MaxBlocks,   \* bound: length of the chain
  MaxGap,      \* bound: slots from a block to the next
  MaxCrashes   \* bound: crashes

Cert == [cred : Creds, to : Subjects \cup {Nobody}]
NoMarks == [k \in Kinds |-> {}]
NoCerts == [r \in Roles |-> <<>>]

ASSUME FeedsAssumption ==
  /\ Hashes \subseteq STRING /\ "root" \in Hashes
  /\ Marks["root"] = NoMarks /\ Certs["root"] = NoCerts
  /\ Marks \in [Hashes -> [Kinds -> SUBSET Subjects]]
  /\ \A h \in Hashes : Cardinality(Marks[h]["minted"]) <= 1
  /\ Certs \in [Hashes -> [Roles -> Seq(Cert)]]
  /\ Window \in Nat /\ EpochLength \in 1..Window
  /\ {Depth, MaxHistory, MaxReplay} \subseteq Nat \ {0} /\ Depth <= MaxHistory
  /\ {MaxBlocks, MaxGap, MaxCrashes} \subseteq Nat

VARIABLES
  chain,    \* the blocks followed; a cold start begins at the first
  oldest,   \* how many of them the oldest snapshot in memory is for
  index,    \* State.feed_index
  aligned,  \* the node has named the point the process is to go on from
  disk,     \* snapshot.bin: the chain its snapshot is for, and its index
  crashes,
  reach     \* ghost: the chain the state was last rebuilt at has `since`
            \* blocks, the first `from` are not in the index, and it was pruned
            \* for a block of slot `high`

vars == <<chain, oldest, index, aligned, disk, crashes, reach>>

Prefix(c, n) == SubSeq(c, 1, n)
Start(slot) == (slot \div EpochLength) * EpochLength  \* slot_for_epoch

Root == [slot |-> 0, hash |-> "root"]

Init ==
  /\ chain = <<Root>> /\ oldest = 1
  /\ index = EmptyIndex /\ aligned = TRUE
  /\ reach = [since |-> 1, from |-> 1, high |-> 0]
  /\ disk = [chain |-> chain, index |-> index, reach |-> reach]
  /\ crashes = 0

-----------------------------------------------------------------------------

\* pool_delegations or drep_delegations of the snapshot for chain c.
Target(c, r, cred) ==
  LET certs == FlattenSeq([i \in DOMAIN c |-> Certs[c[i].hash][r]])
      own == Sift(certs, [cred : {cred}, to : Subjects \cup {Nobody}])
  IN  IF own = <<>> THEN Nobody ELSE Last(own).to

\* The events of block b, its certificates compared with the snapshot for c.
EventsAgainst(c, b, r) ==
  LET event(cert) == [slot |-> b.slot, cred |-> cert.cred,
                      from |-> Target(c, r, cert.cred), to |-> cert.to]
      all == [i \in DOMAIN Certs[b.hash][r] |-> event(Certs[b.hash][r][i])]
  IN  Sift(all, {e \in ToSet(all) : e.from = Nobody \/ e.from # e.to})

\* Mutant: the block is applied first.
EventsAfter(c, b, r) == EventsAgainst(Append(c, b), b, r)

\* feed_delegations and drep_feed_delegations of block b on chain c: every
\* certificate is compared with the state before the block.
Events(c, b, r) == EventsAgainst(c, b, r)

\* slot.saturating_sub(FEED_INDEX_WINDOW)
Boundary(slot) == Max({0, slot - Window})

\* clone_for_save, of a history that reaches from the first-th block of c on.
Saved(c, first, ix, r) ==
  [chain |-> Prefix(c, first + Max({0, Len(c) - first + 1 - Depth})),
   index |-> ix, reach |-> r]

\* Mutant: one snapshot too many.
OldestLate(first, n) == Max({first, n - MaxHistory})

\* The oldest snapshot of n blocks' history, the first-th's before that.
Oldest(first, n) == Max({first, n + 1 - MaxHistory})

\* handle_apply.
Apply(b, save) ==
  LET events == [r \in Roles |-> Events(chain, b, r)]
  IN  /\ aligned
      /\ chain' = Append(chain, b)
      /\ oldest' = Oldest(oldest, Len(chain) + 1)
      /\ index' = Prune(Record(index, b, Marks[b.hash], events), Boundary(b.slot))
      /\ reach' = [reach EXCEPT !.from = Max({@, PartitionPoint(chain', Boundary(b.slot))}),
                                !.high = Max({@, b.slot})]
      /\ disk' = IF save THEN Saved(chain', oldest', index', reach') ELSE disk
      /\ UNCHANGED <<aligned, crashes>>

\* The index State::reset leaves.
ResetIndex(ix) == EmptyIndex

\* handle_reset to the n-th block, a snapshot that old at hand: State::rollback.
Truncate(n) ==
  /\ n >= oldest
  /\ chain' = Prefix(chain, n) /\ aligned' = TRUE
  /\ index' = RollbackIndex(index, chain[n].slot)
  /\ reach' = [reach EXCEPT !.from = Min({@, n})]
  /\ UNCHANGED <<oldest, disk, crashes>>

\* handle_reset to an older block: State::reset too, and what it made is saved.
Reset(n) ==
  /\ n < oldest
  /\ chain' = Prefix(chain, n) /\ aligned' = TRUE
  /\ index' = ResetIndex(RollbackIndex(index, chain[n].slot))
  /\ oldest' = n
  /\ reach' = [since |-> n, from |-> n, high |-> chain[n].slot]
  /\ disk' = Saved(chain', n, index', reach')
  /\ UNCHANGED crashes

\* The process ends and starts again from the file (daemon::run): the index is
\* ahead of the snapshot until the node's first message, a rollback.
Restart ==
  /\ crashes < MaxCrashes
  /\ crashes' = crashes + 1
  /\ chain' = disk.chain /\ oldest' = Len(disk.chain)
  /\ index' = disk.index /\ reach' = disk.reach
  /\ aligned' = FALSE
  /\ UNCHANGED disk

ApplySome ==
  /\ Len(chain) < MaxBlocks
  /\ \E gap \in 1..MaxGap, h \in Hashes \ {"root"}, save \in BOOLEAN :
       Apply([slot |-> Last(chain).slot + gap, hash |-> h], save)

TruncateSome == \E n \in DOMAIN chain : Truncate(n)

ResetSome == \E n \in DOMAIN chain : Reset(n)

Next == ApplySome \/ TruncateSome \/ ResetSome \/ Restart

Spec == Init /\ [][Next]_vars

-----------------------------------------------------------------------------
(* The first page of a pool's feed, filtered_events *)

Newest(k, list) == SubSeq(list, Max({1, Len(list) - k + 1}), Len(list))

\* db-sync's blocks of a kind, or with a delegation to s, when it has chain c.
DbRefs(c, k, s) == Sift(c, {b \in ToSet(c) : s \in Marks[b.hash][k]})
DbGains(c, r, s) ==
  FlattenSeq([i \in DOMAIN c |->
    LET gains == Sift(Certs[c[i].hash][r], [cred : Creds, to : {s}])
    IN  [j \in DOMAIN gains |-> c[i]]])

Slots(list) == {list[i].slot : i \in DOMAIN list}

\* Mutant: db-sync's blocks replace what the index has.
FillInstead(listed, filled) == IF filled = {} THEN listed ELSE filled

Fill(listed, filled) == listed \cup filled

\* The slots of the blocks the first page asks the node for, when db-sync has
\* chain c: those the pool minted, whole, and the others for what concerns it.
FirstPage(s, r, c) ==
  LET entries == EntriesOf(index.logs[r], s)
      sure == Len(index.refs["minted"][s]) + Len(entries)
                + Len(index.refs["votes"][s])
      db(list) == IF sure < MaxReplay THEN Slots(Newest(MaxReplay, list)) ELSE {}
      minted == Slots(index.refs["minted"][s])
      others == Slots(index.refs["changes"][s]) \cup Slots(entries)
                  \cup Slots(index.refs["votes"][s])
      whole == Fill(minted, db(DbRefs(c, "minted", s)) \ others)
  IN  [whole |-> whole,
       others |-> (others \cup db(DbRefs(c, "votes", s)) \cup db(DbGains(c, r, s)))
                    \ whole]

-----------------------------------------------------------------------------
(* Properties *)

TypeOK ==
  /\ chain \in Seq([slot : Nat, hash : Hashes])
  /\ oldest \in DOMAIN chain /\ Len(chain) < oldest + MaxHistory
  /\ index \in Index /\ disk.index \in Index
  /\ aligned \in BOOLEAN /\ crashes \in 0..MaxCrashes
  /\ reach \in [since : Nat, from : Nat, high : Nat]

\* The blocks the index reaches back to.
Reached == (reach.from + 1)..Len(chain)

\* What such lists, one for each block of a chain, add up to over those blocks.
Since(lists) == FlattenSeq(SubSeq(lists, reach.from + 1, Len(lists)))

\* The references to each block of c, and its events.
RefsOf(c, k, s) ==
  [i \in DOMAIN c |-> IF s \in Marks[c[i].hash][k] THEN <<c[i]>> ELSE <<>>]
EventsOf(c, r) == [i \in DOMAIN c |-> Events(Prefix(c, i - 1), c[i], r)]

\* Once the node has said where to go on, the index is what the last blocks of the
\* chain followed add up to: nothing of an abandoned fork, nothing twice, in order
\* of slots (which partition_point needs), also when the process died and the
\* index it loaded was ahead of the snapshot loaded with it.  What is missing is
\* from before the last rebuild or the prune boundary of the highest block, and
\* nothing is older than the tip's.
IndexIsTheWindow ==
  /\ TypeOK
  /\ aligned =>
       /\ \A k \in Kinds, s \in Subjects :
            index.refs[k][s] = Since(RefsOf(chain, k, s))
       /\ \A r \in Roles : index.logs[r].events = Since(EventsOf(chain, r))
       /\ \A i \in DOMAIN chain :
            IF i \in Reached THEN chain[i].slot >= Boundary(Last(chain).slot)
            ELSE i <= reach.since \/ chain[i].slot < Boundary(reach.high)

\* The positions kept for a target are those of the events that name it,
\* whatever was cut off at either end of the log (rebuild_delegation_index).
PositionsFindEvents ==
  \A r \in Roles, s \in Subjects :
    LET log == index.logs[r]
        naming == {i \in DOMAIN log.events : s \in {log.events[i].from, log.events[i].to}}
        at == log.at[s]
    IN  /\ ToSet(at) = naming
        /\ \A i, j \in DOMAIN at : i < j => at[i] < at[j]

\* When a block changed what a credential delegates to, the last event the
\* block left for the credential says from what to what, though every event was
\* made from the state before the block (the loops over raw_deleg_certs).
ChangesAreLogged ==
  aligned => \A r \in Roles, i \in Reached, cred \in Creds :
    LET before == Target(Prefix(chain, i - 1), r, cred)
        after == Target(Prefix(chain, i), r, cred)
        events == index.logs[r].events
        own == Sift(events, {e \in ToSet(events) : e.slot = chain[i].slot /\ e.cred = cred})
    IN  before # after =>
          /\ own # <<>>
          /\ Last(own).from = before /\ Last(own).to = after

\* The blocks of the tip's epoch a pool minted.
MintedThisEpoch(s) ==
  Cardinality({i \in DOMAIN chain : /\ s \in Marks[chain[i].hash]["minted"]
                                    /\ chain[i].slot >= Start(Last(chain).slot)})

ShownEpochBlocks(s) == EpochBlocks(index, s, Start(Last(chain).slot))

\* The block count in a pool's header is never too high; it is exact unless the
\* state was rebuilt in this epoch or the node rolled back from a later one.
EpochBlocksWhenReached ==
  aligned => \A s \in Subjects :
    /\ ShownEpochBlocks(s) <= MintedThisEpoch(s)
    /\ (/\ chain[reach.since].slot < Start(Last(chain).slot)
        /\ Start(reach.high) = Start(Last(chain).slot))
         => ShownEpochBlocks(s) = MintedThisEpoch(s)

\* The comment on pool_epoch_blocks: an exact count, and rollback-safe.
EpochBlocksExact ==
  aligned => \A s \in Subjects : ShownEpochBlocks(s) = MintedThisEpoch(s)

\* The first page of a pool's feed lists blocks of the chain only, and of those
\* the pool minted it leaves out none that is newer than one it lists, however
\* far behind the sink db-sync is within the index's reach.
FirstPageHasNoGap ==
  aligned => \A s \in Subjects, r \in Roles, n \in Reached :
    LET page == FirstPage(s, r, Prefix(chain, n))
        minted == Slots(DbRefs(chain, "minted", s))
    IN  /\ page.whole \cup page.others \subseteq Slots(chain)
        /\ \A slot \in minted :
             (\E shown \in page.whole : shown < slot) => slot \in page.whole
=============================================================================
