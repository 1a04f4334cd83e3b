------------------------------ MODULE LiveGrids ------------------------------
(***************************************************************************)
(* An open page of a subject while the chain moves: the changes that its   *)
(* feed shows, the header, and the grids of delegators and of owned assets *)
(* with their pages and live deltas (build_live_stream, asset_feed_events, *)
(* delegator_feed_events and events in server.rs, server/delegators.rs,    *)
(* server/assets.rs, DelegatorsGrid.svelte, AssetsGrid.svelte).            *)
(*                                                                         *)
(* The stream takes a block's event after the state has applied it, and    *)
(* reads whatever state it then finds: once to compare with what the header *)
(* was made from, and again to make a header and the rest.                 *)
(***************************************************************************)
EXTENDS SubjectFilter

CONSTANTS
  Views,      \* pages: records of a view and a subject
  Genesis,    \* the snapshot before the first block
  Blocks,     \* Blocks[v]: the blocks that may come under a view
  Reward,     \* what an epoch credits to a credential that delegates
  PageSize,   \* DELEGATORS_PAGE_SIZE, GROUP_PAGE_SIZE
  MaxBlocks,  \* bound: blocks in the chain
  MaxAhead,   \* bound: events the stream has not taken
  MaxRolls,   \* bound: rollbacks
  MaxDrops    \* bound: connections lost, requests failed, sort changes

ASSUME GridAssumption ==
  /\ {Reward, PageSize, MaxBlocks, MaxAhead} \subseteq Nat \ {0}
  /\ {MaxRolls, MaxDrops} \subseteq Nat

Addr == DOMAIN CredOf

\* A token is a pair of a policy and a name.
Holdings == {holds \in SUBSET (Addr \X (Nat \X Nat)) : IsFiniteSet(holds)}

Snapshot ==
  [bal : [Addr -> Nat], reward : [Creds -> Nat], deleg : [Creds -> Targets \cup {NoTarget}],
   since : [Creds -> Nat], holds : Holdings, epoch : Nat]

Transaction ==
  [ins : Seq(Addr \X Nat), outs : Seq(Addr \X Nat), wds : Seq(Creds \X Nat),
   certs : Seq(Creds \X (Targets \cup {NoTarget})), votes : SUBSET Targets]

Block == [txs : Seq(Transaction), epoch : Nat, issuer : Targets, gained : Holdings, lost : Holdings]

\* A home page has no subject; a pool or a DRep has delegators, a credential or
\* an address has tokens.
ASSUME ViewsAssumption ==
  /\ Genesis \in Snapshot /\ \A v \in DOMAIN Blocks : Blocks[v] \subseteq Block
  /\ \A p \in Views :
       /\ p.view \in DOMAIN Blocks
       /\ p.f.kind \in {"pool", "drep", "stake", "address"}
       /\ Delegates(p.f) => p.f.id \in Targets
       /\ p.f.kind = "stake" => p.f.id \in Creds
       /\ p.f.kind = "address" => p.f.id \in Addr
       /\ p.view = "delegators" => Delegates(p.f)
       /\ p.view = "assets" => ~Delegates(p.f)

VARIABLES
  page,     \* the page that is open
  chain,    \* the snapshots of the state, oldest first
  queue,    \* events the stream has not taken
  rolls,    \* rollbacks so far
  drops,    \* connections lost, requests failed and sort changes so far
  up,       \* how far the connection is: "down", "header" (sent), "live"
  stage,    \* what comparing said of the event at hand: "none" yet, "same" or "changed"
  seen,     \* LiveState: what the header is compared with
  header,   \* the header the page shows
  tally,    \* the stake before each block, as the feed's changes add up
  prev,     \* prev_holdings or prev_delegators, if any
  cache,    \* cardano_cache, if any
  tiles,    \* the tiles of the grid, in order
  cursor,   \* the offset of the next page
  more,     \* hasMore
  request,  \* the request for a page under way, if any
  order,    \* whether the sort descends
  marks     \* history: what has happened since the grid's last reset

world == <<page, chain, queue, rolls, drops>>
stream == <<up, stage, seen, header, tally, prev, cache>>
grid == <<tiles, cursor, more, request, order>>
vars == <<world, stream, grid, marks>>

F == page.f
Now == Last(chain)

-----------------------------------------------------------------------------
(* Snapshots *)

StakeOf(snap, cred) ==
  SumSeq([a \in DOMAIN snap.bal |-> IF CredOf[a] = cred THEN snap.bal[a] ELSE 0])

\* stakes + rewards
Live(snap, cred) == StakeOf(snap, cred) + snap.reward[cred]

\* The live stake of some credentials together.
LiveOf(snap, creds) ==
  LET list == SetToSeq(creds)
  IN  SumSeq([i \in DOMAIN list |-> Live(snap, list[i])])

\* pool_live_stake, drep_live_stake, and the balance of a credential or address
LiveStake(f, snap) ==
  IF f.kind = "address" THEN snap.bal[f.id]
  ELSE LiveOf(snap, Members(f, snap))

\* The tokens a subject holds: address_held_assets, stake_held_assets
Held(f, snap) ==
  {h[2] : h \in {k \in snap.holds : IF f.kind = "address" THEN k[1] = f.id
                                    ELSE CredOf[k[1]] = f.id}}

Policies(tokens) == {t[1] : t \in tokens}

CountOf(policy, tokens) == Cardinality({t \in tokens : t[1] = policy})

\* The delegations of a transaction with the target and the stake before.
Resolved(tx, snap) ==
  [tx EXCEPT !.certs =
     [i \in DOMAIN tx.certs |->
        LET c == tx.certs[i][1]
        IN  [cred |-> c, from |-> snap.deleg[c], to |-> tx.certs[i][2],
             stake |-> Live(snap, c)]]]

ResolvedBlock(block, snap) ==
  [block EXCEPT !.txs = [i \in DOMAIN block.txs |-> Resolved(block.txs[i], snap)]]

All(block, field) == FlattenSeq([i \in DOMAIN block.txs |-> block.txs[i][field]])

\* The target of a credential after a block: its last certificate's.
Target(snap, block, c) ==
  LET certs == All(block, "certs")
      mine == Sift(certs, {d \in ToSet(certs) : d[1] = c})
  IN  IF mine = <<>> THEN snap.deleg[c] ELSE Last(mine)[2]

\* The snapshot after a block, as the state's apply leaves it.
After(snap, block, slot) ==
  LET Credit(c) == IF block.epoch > snap.epoch /\ snap.deleg[c] # NoTarget
                   THEN Reward ELSE 0
  IN  [bal |-> [a \in DOMAIN snap.bal |->
                  snap.bal[a] + Amounts(All(block, "outs"), {a})
                    - Amounts(All(block, "ins"), {a})],
       reward |-> [c \in Creds |->
                     snap.reward[c] + Credit(c) - Amounts(All(block, "wds"), {c})],
       deleg |-> [c \in Creds |-> Target(snap, block, c)],
       since |-> [c \in Creds |->
                    IF Target(snap, block, c) = snap.deleg[c] THEN snap.since[c] ELSE slot],
       holds |-> (snap.holds \cup block.gained) \ block.lost,
       epoch |-> block.epoch]

\* A block the chain can have next: nobody spends or withdraws what is not there.
Valid(snap, block) ==
  LET next == After(snap, block, 1)
  IN  /\ block.epoch \in {snap.epoch, snap.epoch + 1}
      /\ \A a \in DOMAIN next.bal : next.bal[a] >= 0
      /\ \A c \in Creds : next.reward[c] >= 0
      /\ block.lost \subseteq snap.holds /\ block.gained \cap snap.holds = {}

-----------------------------------------------------------------------------
(* What is shown *)

\* Whether a header is sent again: LiveState, and for a credential or address
\* its balance without the rewards.
Watched(f, snap) ==
  IF Delegates(f) THEN [stake |-> LiveStake(f, snap), count |-> 0]
  ELSE [stake |-> IF f.kind = "stake" THEN StakeOf(snap, f.id) ELSE snap.bal[f.id],
        count |-> Cardinality(Held(f, snap))]

\* cardano_stats: the total of the state, and figures of db-sync that are kept
\* for the epoch, also when they could not be had.
TotalStaked(snap) == LiveOf(snap, {c \in Creds : snap.deleg[c] # NoTarget})

Kept(was, epoch) == was # <<>> /\ Head(was).epoch = epoch

Figures(was, epoch) ==
  IF Kept(was, epoch) THEN {was}
  ELSE {<<[epoch |-> epoch, figure |-> n]>> : n \in {0, epoch}}

Stats(snap, figures) == [staked |-> TotalStaked(snap), figure |-> Head(figures).figure]

\* A tile of the delegators' grid, and one of the assets' grid: a policy with
\* the count of its tokens.
DelegatorTile(snap, cred) == [id |-> cred, n |-> Live(snap, cred)]
GroupTile(tokens, policy) == [id |-> policy, n |-> CountOf(policy, tokens)]

\* The elements of a set, by an order given as the pairs <<earlier, later>>.
Sorted(set, pairs) ==
  [i \in 1..Cardinality(set) |->
     CHOOSE x \in set : Cardinality({y \in set : <<y, x>> \in pairs}) = i - 1]

\* sort_rows: by stake, then since, then the credential
Less(snap, c, d) ==
  \/ Live(snap, c) < Live(snap, d)
  \/ Live(snap, c) = Live(snap, d) /\ snap.since[c] < snap.since[d]
  \/ Live(snap, c) = Live(snap, d) /\ snap.since[c] = snap.since[d] /\ c < d

\* subject_delegators: all rows, sorted
Rows(f, snap, desc) ==
  LET creds == Members(f, snap)
      sorted == Sorted(creds, {p \in creds \X creds :
                                 IF desc THEN Less(snap, p[2], p[1]) ELSE Less(snap, p[1], p[2])})
  IN  [i \in DOMAIN sorted |-> DelegatorTile(snap, sorted[i])]

\* owned_assets: all groups, sorted
Groups(f, snap, desc) ==
  LET tokens == Held(f, snap)
      policies == Policies(tokens)
      sorted == Sorted(policies, {p \in policies \X policies :
                                    IF desc THEN p[1] > p[2] ELSE p[1] < p[2]})
  IN  [i \in DOMAIN sorted |-> GroupTile(tokens, sorted[i])]

Listing(snap, desc) ==
  IF page.view = "delegators" THEN Rows(F, snap, desc) ELSE Groups(F, snap, desc)

Ids(seq) == {seq[i].id : i \in DOMAIN seq}

IsGrid == page.view \in {"delegators", "assets"}

Init ==
  /\ page \in Views
  /\ chain = <<Genesis>> /\ queue = <<>> /\ rolls = 0 /\ drops = 0
  /\ up = "down" /\ stage = "none" /\ seen = <<>> /\ header = <<>> /\ tally = <<>>
  /\ prev = <<>> /\ cache = <<>>
  /\ tiles = <<>> /\ cursor = 0 /\ more = TRUE /\ request = <<>> /\ order = TRUE
  /\ marks = {}

-----------------------------------------------------------------------------
(* The chain *)

\* A page of the grid has been read from the state; the grid has anything.
Loaded == cursor # 0 \/ ~more \/ (request # <<>> /\ Head(request).reply # <<>>)
Stocked == Loaded \/ tiles # <<>>

\* The state moves, and without a connection the page does not come to know.
Move(event) ==
  /\ queue' = IF up = "down" THEN queue ELSE Append(queue, event)
  /\ marks' = marks \cup IF up = "down" /\ Stocked THEN {"gap"} ELSE {}

\* The block is in the state, and its event is on the bus.
Apply ==
  /\ Len(chain) <= MaxBlocks /\ Len(queue) < MaxAhead
  /\ \E block \in Blocks[page.view] :
       /\ Valid(Now, block)
       /\ chain' = Append(chain, After(Now, block, Len(chain)))
       /\ Move([n |-> Len(chain) + 1, block |-> <<ResolvedBlock(block, Now)>>,
                was |-> Now.epoch])
  /\ UNCHANGED <<page, rolls, drops, stream, grid>>

Roll ==
  /\ rolls < MaxRolls /\ Len(chain) > 1 /\ Len(queue) < MaxAhead
  /\ rolls' = rolls + 1
  /\ \E n \in 1..(Len(chain) - 1) :
       /\ chain' = SubSeq(chain, 1, n)
       /\ Move([n |-> n, block |-> <<>>, was |-> 0])
  /\ UNCHANGED <<page, drops, stream, grid>>

-----------------------------------------------------------------------------
(* The connection *)

\* The subscription, then the header from the state.
Connect ==
  /\ up = "down"
  /\ up' = "header" /\ seen' = <<>> /\ prev' = <<>>
  /\ IF page.view = "home"
     THEN \E figures \in Figures(cache, Now.epoch) :
            cache' = figures /\ header' = Stats(Now, figures)
     ELSE cache' = cache /\ header' = Watched(F, Now)
  /\ tally' = IF page.view = "feed" THEN [i \in DOMAIN chain |-> LiveStake(F, chain[i])]
              ELSE tally
  /\ UNCHANGED <<world, stage, grid, marks>>

\* initial_live: the stake is read from the state after the header, the count of
\* tokens is the header's; the home page and the grid of delegators take all that
\* the header has.
Seed ==
  /\ up = "header"
  /\ up' = "live"
  /\ seen' = IF page.view \in {"home", "delegators"} THEN header
             ELSE [Watched(F, Now) EXCEPT !.count = header.count]
  /\ UNCHANGED <<world, stage, header, tally, prev, cache, grid, marks>>

\* The connection is lost, or the stream has fallen behind the bus; the page
\* connects again, and the grid keeps its tiles.
Drop ==
  /\ up # "down" /\ drops < MaxDrops
  /\ drops' = drops + 1
  /\ up' = "down" /\ stage' = "none" /\ queue' = <<>>
  /\ marks' = IF ~IsGrid THEN {}
              ELSE marks \cup IF queue # <<>> /\ Stocked THEN {"gap"} ELSE {}
  /\ UNCHANGED <<page, chain, rolls, seen, header, tally, prev, cache, grid>>

-----------------------------------------------------------------------------
(* The grid's pages: loadMore, resetAndReload *)

\* loadMore
Fetch ==
  /\ IsGrid /\ request = <<>> /\ more
  /\ request' = <<[at |-> cursor, desc |-> order, old |-> FALSE, reply |-> <<>>]>>
  /\ UNCHANGED <<world, stream, tiles, cursor, more, order, marks>>

\* subject_delegators, owned_assets: the page at an offset of the state's rows.
\* A later page is cut from rows that may have changed since the first.
Serve ==
  /\ request # <<>> /\ Head(request).reply = <<>>
  /\ LET r == Head(request)
         all == Listing(Now, r.desc)
         last == Max({r.at, Min({r.at + PageSize, Len(all)})})
     IN  request' = <<[r EXCEPT !.reply =
                         <<[tiles |-> SubSeq(all, r.at + 1, last), next |-> last,
                            more |-> last < Len(all)]>>]>>
  /\ marks' = marks \cup IF queue # <<>> /\ (page.view = "assets" \/ Head(request).at > 0)
                       THEN {"offset"} ELSE {}
  /\ UNCHANGED <<world, stream, tiles, cursor, more, order>>

\* Mutant: a tile that a delta has added is appended once more.
AppendAll(page1) == tiles \o page1

\* A tile that is there already is not added.
AppendFresh(page1) == tiles \o Sift(page1, {t \in ToSet(page1) : t.id \notin Ids(tiles)})

\* The response; that of a query from before a reset is dropped.
Receive ==
  /\ request # <<>> /\ Head(request).reply # <<>>
  /\ request' = <<>>
  /\ LET r == Head(request)
         reply == Head(r.reply)
     IN  IF r.old THEN UNCHANGED <<tiles, cursor, more>>
         ELSE /\ tiles' = AppendFresh(reply.tiles)
              /\ cursor' = reply.next /\ more' = reply.more
  /\ UNCHANGED <<world, stream, order, marks>>

\* The request fails, even one from before a reset: there is no more to load.
Fail ==
  /\ request # <<>> /\ drops < MaxDrops
  /\ drops' = drops + 1
  /\ request' = <<>> /\ more' = FALSE
  /\ marks' = marks \cup {"failed"}
  /\ UNCHANGED <<page, chain, queue, rolls, stream, tiles, cursor, order>>

\* What a reset leaves of a request under way: its response is not for the new list.
Superseded == IF request = <<>> THEN <<>> ELSE <<[Head(request) EXCEPT !.old = TRUE]>>

\* resetAndReload; the page is asked for by the next Fetch.
Reset ==
  /\ tiles' = <<>> /\ cursor' = 0 /\ more' = TRUE
  /\ request' = Superseded

CycleSort ==
  /\ IsGrid /\ drops < MaxDrops
  /\ drops' = drops + 1
  /\ order' = ~order
  /\ Reset
  /\ marks' = {}
  /\ UNCHANGED <<page, chain, queue, rolls, stream>>

-----------------------------------------------------------------------------
(* The stream: build_live_stream *)

\* What the block itself touched.
Touched(block) ==
  UNION {StakeCredentials(tx) \cup {d.cred : d \in ToSet(tx.certs)} : tx \in ToSet(block.txs)}

SetTiles(snap, creds) == {DelegatorTile(snap, c) : c \in creds}

\* handleLive: tiles leave, are brought up to date, and come in first.
Patch(removed, updated, added) ==
  LET kept == Sift(tiles, {t \in ToSet(tiles) : t.id \notin removed})
      fresh == {t \in added : t.id \notin Ids(kept)}
  IN  SetToSeq(fresh)
        \o [i \in DOMAIN kept |->
              IF \E u \in updated : u.id = kept[i].id
              THEN CHOOSE u \in updated : u.id = kept[i].id ELSE kept[i]]

\* What a delta finds that it may not set right: a state past its event, a
\* page on its way to the grid, or pages still to come.
DeltaMarks(event) ==
  (IF Len(queue) > 1 THEN {"ahead"} ELSE {})
    \cup (IF request # <<>> /\ Head(request).reply # <<>> THEN {"race"} ELSE {})
    \cup (IF more /\ (Loaded \/ page.view = "assets") THEN {"offset"} ELSE {})

\* delegator_delta_event
DelegatorDelta(event) ==
  LET creds == Members(F, Now)
      before == Head(prev).members
      hit == Touched(Head(event.block))
  IN  /\ prev' = <<[members |-> creds, epoch |-> Now.epoch]>>
      /\ order' = order
      /\ IF prev = <<>>
         THEN /\ UNCHANGED <<tiles, cursor, more, request>>
              /\ marks' = marks \cup IF Stocked THEN {"first"} ELSE {}
         ELSE IF event.block = <<>> \/ Head(prev).epoch # Now.epoch
         THEN /\ Reset
              /\ marks' = {}
         ELSE /\ tiles' = Patch(hit \cap (before \ creds),
                                SetTiles(Now, hit \cap before \cap creds),
                                SetTiles(Now, hit \cap (creds \ before)))
              /\ marks' = marks \cup DeltaMarks(event)
              /\ UNCHANGED <<cursor, more, request>>

\* handleLiveGrouped on a token that is gone, and on one that has come.
LoseToken(groups, token) ==
  LET left == [i \in DOMAIN groups |->
                 IF groups[i].id = token[1] THEN [groups[i] EXCEPT !.n = @ - 1] ELSE groups[i]]
  IN  Sift(left, {g \in ToSet(left) : g.n > 0})

GainToken(groups, token) ==
  IF token[1] \in Ids(groups)
  THEN [i \in DOMAIN groups |->
          IF groups[i].id = token[1] THEN [groups[i] EXCEPT !.n = @ + 1] ELSE groups[i]]
  ELSE <<[id |-> token[1], n |-> 1]>> \o groups

\* The tokens one after the other.
LoseAll(groups, tokens) ==
  LET left[i \in 0..Len(tokens)] ==
        IF i = 0 THEN groups ELSE LoseToken(left[i - 1], tokens[i])
  IN  left[Len(tokens)]

GainAll(groups, tokens) ==
  LET with[i \in 0..Len(tokens)] ==
        IF i = 0 THEN groups ELSE GainToken(with[i - 1], tokens[i])
  IN  with[Len(tokens)]

\* Mutant: a credential's token is gone when one of its addresses has lost it.
AddressDiff(before, now) ==
  LET mine(holds) == {h \in holds : CredOf[h[1]] = F.id \/ h[1] = F.id}
  IN  [added |-> {h[2] : h \in mine(now) \ mine(before)},
       removed |-> {h[2] : h \in mine(before) \ mine(now)}]

\* address_tile_diff and stake_tile_diff: tokens that the subject has got or
\* has no more, at any of its addresses.
TileDiff(before, now) ==
  LET Own(holds) == Held(F, [holds |-> holds])
  IN  [added |-> Own(now) \ Own(before), removed |-> Own(before) \ Own(now)]

\* asset_delta_event
AssetDelta(event) ==
  /\ prev' = <<Now.holds>>
  /\ IF prev = <<>>
     THEN /\ tiles' = tiles
          /\ marks' = marks \cup IF Stocked THEN {"first"} ELSE {}
     ELSE LET diff == TileDiff(Head(prev), Now.holds)
          IN  /\ tiles' = GainAll(LoseAll(tiles, SetToSeq(diff.removed)),
                                  SetToSeq(diff.added))
              /\ marks' = marks \cup IF diff.added \cup diff.removed = {} THEN {}
                                     ELSE DeltaMarks(event)
  /\ UNCHANGED <<cursor, more, request, order>>

\* The feed: filter_event with the members the state has now.
FeedTally(event) ==
  IF event.block = <<>> THEN SubSeq(tally, 1, event.n)
  ELSE LET block == Head(event.block)
           changes == FilterBlock(F, block, Members(F, Now))
       IN  Append(SubSeq(tally, 1, event.n - 1),
                  tally[event.n - 1]
                    + SumSeq([i \in DOMAIN block.txs |->
                                IF i \in DOMAIN changes THEN changes[i] ELSE 0]))

\* What the changes of a block leave out or count twice.
FeedMarks(event) ==
  IF event.block = <<>> THEN {}
  ELSE LET block == Head(event.block)
           certs == All(block, "certs")
       IN  (IF Len(queue) > 1 THEN {"ahead"} ELSE {})
             \cup (IF MatchesBlock(F, block) THEN {"whole"} ELSE {})
             \cup (IF \E i, j \in DOMAIN certs : i # j /\ certs[i].cred = certs[j].cred
                   THEN {"again"} ELSE {})
             \cup (IF \E tx \in ToSet(block.txs) :
                        Joined(F, tx) # 0 /\ ~MatchesTx(F, tx, Members(F, Now))
                   THEN {"unmatched"} ELSE {})
             \cup (IF block.epoch > event.was THEN {"credit"} ELSE {})

\* Mutant: a rollback is not compared.
WatchedOnBlock == IF Head(queue).block = <<>> THEN seen ELSE Watched(F, Now)

\* What an event is compared by.
WatchedNow == Watched(F, Now)

\* The stream takes up an event.  A pool's header is made under the guard that
\* it is compared under.
Compare ==
  /\ up = "live" /\ queue # <<>> /\ page.view # "home" /\ stage = "none"
  /\ seen' = WatchedNow
  /\ stage' = IF WatchedNow = seen THEN "same" ELSE "changed"
  /\ header' = IF F.kind = "pool" /\ WatchedNow # seen THEN WatchedNow ELSE header
  /\ UNCHANGED <<world, up, tally, prev, cache, grid, marks>>

\* Another header is made from the state read once more; the count of tokens in
\* it is the one compared.
Reheader ==
  /\ seen' = seen
  /\ header' = IF stage = "changed" /\ F.kind # "pool"
                THEN [Watched(F, Now) EXCEPT !.count = seen.count] ELSE header

\* The figures of the home page are worked out again after a block.
Restat(event) ==
  IF event.block = <<>> THEN UNCHANGED <<cache, seen, header>>
  ELSE \E figures \in Figures(cache, Now.epoch) :
         cache' = figures /\ header' = Stats(Now, figures) /\ seen' = header'

\* The rest of the event's turn; the home page compares nothing.
Handle ==
  /\ up = "live" /\ queue # <<>> /\ (stage = "none" <=> page.view = "home")
  /\ queue' = Tail(queue) /\ stage' = "none"
  /\ LET event == Head(queue)
     IN  \/ /\ page.view = "feed"
            /\ Reheader
            /\ tally' = FeedTally(event)
            /\ marks' = marks \cup FeedMarks(event)
            /\ UNCHANGED <<prev, cache, grid>>
         \/ page.view = "delegators" /\ Reheader /\ DelegatorDelta(event)
              /\ UNCHANGED <<tally, cache>>
         \/ page.view = "assets" /\ Reheader /\ AssetDelta(event)
              /\ UNCHANGED <<tally, cache>>
         \/ /\ page.view = "home"
            /\ Restat(event)
            /\ marks' = IF event.block = <<>> THEN {"rolled"} ELSE {}
            /\ UNCHANGED <<prev, tally, grid>>
  /\ UNCHANGED <<page, chain, rolls, drops, up>>

Next ==
  \/ Apply \/ Roll
  \/ Connect \/ Seed \/ Drop \/ Compare \/ Handle
  \/ Fetch \/ Serve \/ Receive \/ Fail \/ CycleSort

Spec == Init /\ [][Next]_vars

-----------------------------------------------------------------------------
(* Properties *)

TypeOK ==
  /\ page \in Views
  /\ Len(chain) \in 1..(MaxBlocks + 1) /\ Len(queue) <= MaxAhead
  /\ \A snap \in ToSet(chain) : \A c \in Creds : Live(snap, c) >= 0
  /\ up \in {"down", "header", "live"} /\ stage \in {"none", "same", "changed"}
  /\ Len(prev) <= 1 /\ Len(cache) <= 1 /\ Len(request) <= 1
  /\ cursor \in Nat /\ more \in BOOLEAN /\ order \in BOOLEAN

InStep == up = "live" /\ queue = <<>>

\* A feed's changes add up: with its events taken, the changes shown since the
\* page was opened make the subject's live stake what it now is
\* (apply_stake_change on the members that the state has after the block), over
\* rollbacks and reconnections, except where the code leaves a change out: of a
\* block the pool minted, of a transaction with a delegation that moves no
\* member's money, of an epoch's rewards, of a credential that delegates twice
\* in a block, and when the state was past the event.
ChangesAddUp ==
  /\ TypeOK
  /\ (page.view = "feed" /\ InStep /\ marks = {}) => Last(tally) = LiveStake(F, Now)

\* The comment on apply_stake_change: the impact of delegations is in, stake
\* that was lost by one too.
LossesAreShown ==
  (page.view = "feed" /\ InStep /\ marks \subseteq {"unmatched"}) =>
    Last(tally) = LiveStake(F, Now)

\* What the sink takes for a block's largest change of a target's stake is what
\* the feed shows of it, in a block without delegations
\* (block_stake_change_magnitudes and apply_stake_change).
MagnitudesAreChanges ==
  \A i \in DOMAIN queue :
    queue[i].block # <<>> =>
      LET block == Head(queue[i].block)
          was == chain[queue[i].n - 1]
      IN  (Len(queue) = 1 /\ \A tx \in ToSet(block.txs) : tx.certs = <<>>) =>
            \A t \in Targets :
              LET f == [kind |-> "drep", id |-> t]
                  changes == FilterBlock(f, block, Members(f, was))
              IN  Magnitude(t, block, was) =
                    Max({0} \cup {Abs(changes[j]) : j \in DOMAIN changes})

\* A header that shows what was compared shows the state, however the state moved
\* while the events were taken: the first header, and those made from a later
\* read than the one compared, are what may differ (build_live_stream,
\* initial_live); that of the home page shows the state's total and the epoch's
\* figures, if they could be had, unless the last event was a rollback (events,
\* cardano_stats).
HeaderShowsState ==
  InStep =>
    IF page.view = "home"
    THEN marks = {} => header \in [staked : {TotalStaked(Now)}, figure : {0, Now.epoch}]
    ELSE header = seen => header = Watched(F, Now)

Complete == InStep /\ request = <<>> /\ ~more /\ marks = {}

\* A grid of delegators never shows one twice, and when its pages have all come
\* it shows each of the subject's delegators with its live stake, through blocks,
\* rollbacks, epochs, reconnections and changes of the sort
\* (delegator_delta_event, handleLive, loadMore, resetAndReload), unless the state
\* was past an event, a delta came between a page's reading and its arrival or
\* between two pages, or a change was not sent: before the connection or as its
\* first.
GridShowsDelegators ==
  page.view = "delegators" =>
    /\ Len(tiles) = Cardinality(Ids(tiles))
    /\ Complete => ToSet(tiles) = SetTiles(Now, Members(F, Now))

\* A grid of owned assets shows each policy with the count of its tokens, also
\* when the state was past the events (stake_tile_diff, handleLiveGrouped).
GridShowsAssets ==
  (page.view = "assets" /\ InStep /\ request = <<>> /\ ~more /\ marks \subseteq {"ahead"}) =>
    LET tokens == Held(F, Now)
    IN  /\ ToSet(tiles) = {GroupTile(tokens, p) : p \in Policies(tokens)}
        /\ Len(tiles) = Cardinality(Policies(tokens))
=============================================================================
