------------------------------ MODULE FeedScroll ------------------------------
(***************************************************************************)
(* A page that shows a subject's feed, from the connection to the first    *)
(* block of its history: the first blocks come with the event stream       *)
(* (filtered_events, send_replay_blocks), older ones by requests           *)
(* (older_blocks, older_pool_drep), each from the place the last left off. *)
(* The page's side is in web/src/lib/sse.ts and Feed.svelte.               *)
(*                                                                         *)
(* The chain the subject will have is chosen at the start; the state and   *)
(* db-sync take its blocks up each at its own pace.  The node may refuse   *)
(* the connection or not give a block, and all permits may be taken.       *)
(***************************************************************************)
EXTENDS Replay

CONSTANTS
  Feeds,     \* the feeds: records of a kind and a history
  Start,     \* bound: blocks taken up when the page is opened, at least
  MaxLag,    \* bound: blocks db-sync is behind the state or ahead of it
  Retained,  \* blocks the event bus keeps for new connections
  MaxShown   \* MAX_BLOCKS of the page

ASSUME ScrollAssumption ==
  /\ Start \in Nat \ {0} /\ Retained \in Nat /\ MaxShown \in Nat \ {0}
  /\ MaxLag \in 0..Retained /\ MaxLag <= MaxShown

Blocks == [epoch : Nat, net : Int, wd : Nat, rows : Seq(Sources)]

\* A feed by slot has a block once, whatever the subject does in it.  A block
\* that is not listed for a stake credential changes its stake by no more than
\* what it withdraws.
ASSUME FeedsAssumption ==
  \A f \in Feeds :
    /\ f.history \in Seq(Blocks)
    /\ RowId(Len(f.history), MaxRows) < Top
    /\ \A s \in DOMAIN f.history :
         LET block == f.history[s]
         IN  /\ Len(block.rows) <= IF f.kind \in {"stake", "address"} THEN 1 ELSE MaxRows
             /\ \A t \in 1..s : f.history[t].epoch <= block.epoch
             /\ (f.kind = "stake" /\ block.rows = <<>>) => block.net + block.wd = 0

VARIABLES
  feed,     \* the subject's feed
  applied,  \* blocks in the state
  synced,   \* blocks in db-sync
  task,     \* what the connection's replay does next, or "live"
  page,     \* the blocks of the first page, until they are sent
  upto,     \* synced when they were asked for
  sent,     \* blocks applied at the subscription, or sent since
  shown,    \* sections of the page: what each shows of its slot
  cursor,   \* feedCursor, if any
  seed,     \* feedCursorSeed, if any
  done,     \* feedDone
  pending,  \* the cursor of the request under way, if any: loadingOlder
  away,     \* scrolledAway
  marks     \* history: what has happened that the properties except

chain == <<feed, applied, synced>>
stream == <<task, page, upto, sent>>
client == <<shown, cursor, seed, done, pending, away>>
vars == <<chain, stream, client, marks>>

History == feed.history

\* Stake and address feeds page by slot; a stake feed's place has a stake.
BySlot == feed.kind \in {"stake", "address"}

Unknown == -100

Section(slot, pre, rows) == [slot |-> slot, pre |-> pre, rows |-> rows]

RowsOf(slot) == {r \in Rows(History, slot) : r.slot = slot}

Whole(slot) == Section(slot, Unknown, RowsOf(slot))

Slots(sections) == {sec.slot : sec \in sections}

\* A place to read from, for a stake feed with the stake and the epoch that the
\* walk goes on from.
Place(before, epoch, stake) == [before |-> before, epoch |-> epoch, stake |-> stake]

Below(slot) == [src \in Sources |-> slot]

\* A row is behind a place.
Ahead(r, place) ==
  IF BySlot THEN r.slot < place.before[r.src] ELSE r.id < place.before[r.src]

\* No page from a place on will have a block; without a place there are none.
Passed(slot, place) ==
  place = <<>> \/ \A r \in RowsOf(slot) : ~Ahead(r, Head(place))

Init ==
  /\ feed \in Feeds
  /\ applied \in Start..Len(History) /\ synced = applied
  /\ task = "closed" /\ page = {} /\ upto = 0 /\ sent = 0
  /\ shown = {} /\ cursor = <<>> /\ seed = <<>> /\ done = FALSE
  /\ pending = <<>> /\ away = FALSE
  /\ marks = {}

-----------------------------------------------------------------------------
(* The sections of the page *)

\* insertOlderBlock: a slot that is shown keeps what it shows.
InsertOlder(new) == shown \cup {sec \in new : sec.slot \notin Slots(shown)}

\* The $effect on blockCount: the newest sections stay, and all of them while
\* the reader is scrolled away.
Trimmed(sections) ==
  IF away THEN sections
  ELSE {sec \in sections :
          Cardinality({t \in sections : t.slot > sec.slot}) < MaxShown}

\* What trimming marks: sections the reader will not come by again, from the
\* place it is at ("top" at the seed) or asks from.
TrimMark(sections, place, top) ==
  LET gone == Slots(sections) \ Slots(Trimmed(sections))
      lost == {s \in gone : Passed(s, place)}
  IN  (IF lost = {} THEN {} ELSE IF place = top THEN {"top"} ELSE {"deep"})
        \cup IF pending # <<>> /\ \E s \in gone : Passed(s, pending) THEN {"deep"} ELSE {}

\* What a page marks: blocks it did not get and a later page may not have, for
\* they are behind its place or not yet in db-sync.
FetchMark(slots, walked, next) ==
  IF \E s \in slots \ walked : Passed(s, next) \/ s > synced
  THEN {"fetch"} ELSE {}

-----------------------------------------------------------------------------
(* The chain, as the state and db-sync have it *)

Apply ==
  /\ applied < Len(History) /\ applied - synced < MaxLag
  /\ applied' = applied + 1
  /\ UNCHANGED <<feed, synced, stream, client, marks>>

Sync ==
  /\ synced < Len(History) /\ synced - applied < MaxLag
  /\ synced' = synced + 1
  /\ UNCHANGED <<feed, applied, stream, client, marks>>

-----------------------------------------------------------------------------
(* The pages' blocks *)

\* process_replay_block on the blocks of a page that the node gave, walked
\* newest first.
StakeSections(slots, walked, anchor) ==
  {Section(s, IF feed.kind = "stake"
              THEN PreBlockStake(History, synced, slots,
                                 {w \in walked : w >= s}, anchor)
              ELSE Unknown, RowsOf(s)) : s \in walked}

\* SubjectReplay::cursor: the last block walked; the slot is 0 if none was.
WalkPlace(slots, walked, anchor) ==
  IF walked = {} THEN Place(Below(0), 0, anchor.stake)
  ELSE Place(Below(Min(walked)), History[Min(walked)].epoch,
             PreBlockStake(History, synced, slots, walked, anchor))

\* The place below a full page of blocks; a short page is the last.
SlotPlace(slots, walked, anchor) ==
  IF Cardinality(slots) < PageSize THEN <<>>
  ELSE IF feed.kind = "stake" THEN <<WalkPlace(slots, walked, anchor)>>
  ELSE <<Place(Below(Min(slots)), 0, 0)>>

-----------------------------------------------------------------------------
(* The connection: filtered_events *)

\* connectSSE, also after a connection was lost, and the subscription.
Connect ==
  /\ task' = "query" /\ sent' = applied
  /\ page' = {} /\ upto' = 0
  /\ shown' = {} /\ cursor' = <<>> /\ seed' = <<>> /\ done' = FALSE
  /\ pending' = <<>> /\ away' = FALSE /\ marks' = {}
  /\ UNCHANGED chain

\* The blocks of the first page: db-sync's by slot; for a pool or a DRep the
\* feed index's, which is as far as the state, topped up from db-sync.
FirstPage ==
  IF BySlot THEN RecentBlocks(History, synced, Top)
  ELSE NewestSlots({r.slot : r \in AllFetched(Rows(History, applied), Below(Top))})

Query ==
  /\ task = "query"
  /\ task' = "send"
  /\ page' = FirstPage /\ upto' = synced
  /\ UNCHANGED <<chain, sent, client, marks>>

\* ReplayCursor: a pool's or a DRep's pages start over from the tip.
Seed(walked, anchor) ==
  IF BySlot THEN SlotPlace(page, walked, anchor) ELSE <<Place(Below(Top), 0, 0)>>

FirstSections(walked, anchor) ==
  IF BySlot THEN StakeSections(page, walked, anchor) ELSE {Whole(s) : s \in walked}

\* send_filtered_snapshot: what the bus kept, without the blocks of the page.
SnapshotSections ==
  {Whole(s) : s \in {t \in Touching(History, sent) :
                       t > sent - Retained /\ t \notin page}}

\* What build_subject_replay starts from: the stake and epoch of the state.
Anchor == [stake |-> LiveStake(History, applied), epoch |-> History[applied].epoch]

\* send_replay_blocks, with the blocks the node gives (none without a permit or
\* a connection); then the cursor and the snapshot.
Send(walked) ==
  LET sections == FirstSections(walked, Anchor) \cup SnapshotSections
      place == Seed(walked, Anchor)
  IN  /\ task = "send"
      /\ task' = "live"
      /\ page' = {} /\ upto' = 0
      /\ shown' = Trimmed(sections)
      /\ seed' = place /\ cursor' = place
      /\ marks' = TrimMark(sections, place, place)
                    \cup FetchMark(page, walked, place)
                    \cup IF applied # upto \/ synced # upto THEN {"lag"} ELSE {}
      /\ UNCHANGED <<chain, sent, done, pending, away>>

\* The stream's next event: a block that the state has applied.
Deliver ==
  LET sections == InsertOlder(IF History[sent + 1].rows = <<>> THEN {}
                              ELSE {Whole(sent + 1)})
  IN  /\ task = "live" /\ sent < applied
      /\ sent' = sent + 1
      /\ shown' = Trimmed(sections)
      /\ marks' = marks \cup TrimMark(sections, cursor, seed)
      /\ UNCHANGED <<chain, task, page, upto, cursor, seed, done,
                     pending, away>>

-----------------------------------------------------------------------------
(* Older pages *)

\* loadOlder
LoadOlder ==
  /\ task = "live" /\ pending = <<>> /\ ~done /\ cursor # <<>>
  /\ pending' = cursor
  /\ UNCHANGED <<chain, stream, shown, cursor, seed, done, away, marks>>

\* The response: sections are inserted, the place is the response's, and the
\* loop of loadOlder goes on as long as nothing was added.
Take(slots, walked, sections, next) ==
  /\ shown' = InsertOlder(sections)
  /\ cursor' = next /\ done' = (next = <<>>)
  /\ pending' = IF shown' = shown THEN next ELSE <<>>
  /\ marks' = marks \cup FetchMark(slots, walked, next)
  /\ UNCHANGED <<chain, stream, seed, away>>

\* older_blocks, for a stake credential or an address
OlderBlocks ==
  /\ task = "live" /\ pending # <<>> /\ BySlot
  /\ LET from == Head(pending)
         slots == RecentBlocks(History, synced, from.before["touch"])
     IN  \E walked \in SUBSET slots :
           Take(slots, walked, StakeSections(slots, walked, from),
                SlotPlace(slots, walked, from))

\* older_pool_drep
OlderPoolDrep ==
  /\ task = "live" /\ pending # <<>> /\ ~BySlot
  /\ LET rows == Rows(History, synced)
         before == Head(pending).before
         cut == MergedPage(rows, before)
     IN  \E walked \in SUBSET {r.slot : r \in cut} :
           Take({r.slot : r \in cut}, walked,
                {Section(s, Unknown, Displayed(History, cut, s)) : s \in walked},
                IF HasMore(rows, before, cut)
                THEN <<Place(NextCursor(rows, before, cut), 0, 0)>> ELSE <<>>)

Answer == OlderBlocks \/ OlderPoolDrep

\* No database, no permit, no connection in time: the place is kept.
Refuse ==
  /\ task = "live" /\ pending # <<>>
  /\ pending' = <<>>
  /\ UNCHANGED <<chain, stream, shown, cursor, seed, done, away, marks>>

-----------------------------------------------------------------------------
(* The reader *)

ScrollAway ==
  /\ task = "live" /\ ~away
  /\ away' = TRUE
  /\ UNCHANGED <<chain, stream, shown, cursor, seed, done, pending, marks>>

\* handleScroll at the newest edge: resetOlder
ScrollBack ==
  /\ away
  /\ away' = FALSE
  /\ IF seed = <<>> THEN UNCHANGED <<cursor, done, marks>>
     ELSE /\ cursor' = seed /\ done' = FALSE
          /\ marks' = IF BySlot \/ pending # <<>> THEN marks ELSE marks \ {"deep"}
  /\ UNCHANGED <<chain, stream, shown, seed, pending>>

SendBlocks == \E walked \in SUBSET page : Send(walked)

Next ==
  \/ Apply \/ Sync
  \/ Connect \/ Query \/ SendBlocks \/ Deliver
  \/ LoadOlder \/ Answer \/ Refuse
  \/ ScrollAway \/ ScrollBack

Spec == Init /\ [][Next]_vars

-----------------------------------------------------------------------------
(* Properties *)

TypeOK ==
  /\ feed \in Feeds
  /\ applied \in 1..Len(History) /\ synced \in 1..Len(History)
  /\ task \in {"closed", "query", "send", "live"}
  /\ sent \in 0..applied
  /\ page \subseteq 1..Len(History)
  /\ \A sec \in shown : sec.slot \in 1..Len(History) /\ sec.rows \subseteq RowsOf(sec.slot)
  /\ \A sec, t \in shown : sec.slot = t.slot => sec = t
  /\ \A place \in {cursor, seed, pending} : Len(place) <= 1
  /\ away \in BOOLEAN /\ done \in BOOLEAN
  /\ marks \subseteq {"top", "deep", "fetch", "lag"}

\* The stake that a stake feed shows before a block is the ledger's, rewards
\* and withdrawals undone at the right blocks and across pages
\* (pre_block_stake), if db-sync was as far as the state when the page was
\* opened, every block was got, and, below the first page, nothing was
\* withdrawn in a newer block.
StakeIsTheLedgers ==
  /\ TypeOK
  /\ (feed.kind = "stake" /\ marks \cap {"lag", "fetch"} = {}) =>
       \A sec \in shown :
         sec.pre = Unknown \/ sec.pre = StakeBefore(History, sec.slot)
           \/ (seed # <<>> /\ ~Passed(sec.slot, seed)
               /\ \E s \in (sec.slot + 1)..synced : History[s].wd > 0)

\* The comment on pre_block_stake: the exact stake, on any page.
StakeIsExact ==
  (feed.kind = "stake" /\ marks \cap {"lag", "fetch"} = {}) =>
    \A sec \in shown : sec.pre \in {Unknown, StakeBefore(History, sec.slot)}

Covered(slot) ==
  \E sec \in shown :
    sec.slot = slot /\ \A r \in RowsOf(slot) : r.src = "vote" => r \in sec.rows

\* Between the newest block and the place the reader is at, the feed shows
\* every block of the subject, with its votes (filtered_events, loadOlder,
\* insertOlderBlock): through lags of db-sync, refused requests, reconnections
\* and returns to the newest edge, unless the node did not give a block or the
\* page was trimmed below the place of its reader.
FeedHasNoGap ==
  (task = "live" /\ marks \cap {"fetch", "top", "deep"} = {}) =>
    \A slot \in Touching(History, Min({sent, applied})) :
      Passed(slot, cursor) /\ pending = <<>> => Covered(slot)

\* The comment on resetOlder: back at the newest edge, where the feed is
\* trimmed, a later scroll refetches from the seed and refills contiguously.
\* What the place to go on from is past is shown.
RefillsContiguously ==
  [][(/\ away /\ ~away' /\ task' = "live" /\ pending = <<>>
      /\ cursor' # <<>> /\ "fetch" \notin marks) =>
       \A slot \in Touching(History, Min({sent, applied})) :
         Passed(slot, cursor') => Covered(slot)']_vars

\* What the reader is still to get, from the place it asks from.
Unread ==
  LET place == IF pending # <<>> THEN pending ELSE cursor
  IN  IF task # "live" \/ done \/ place = <<>> THEN {}
      ELSE {r \in Rows(History, synced) : Ahead(r, Head(place))}

Reader == INSTANCE PagedReader WITH
  Entries <- [slot : Nat, src : Sources, id : Nat], Newer <- NewerRow,
  Limit <- PageSize, open <- task = "live", unread <- Unread, done <- done

\* The places of the three lists of rows, or of the walk, together are one
\* place in the subject's history: a page takes the newest rows left and skips
\* none (older_pool_drep, older_blocks).
ReadsInOrder == Reader!Spec
=============================================================================
