------------------------------- MODULE EventBus -------------------------------
(***************************************************************************)
(* The event bus (event_bus.rs) and the home feed of the web client that   *)
(* listens to it (web/src/lib/sse.ts), as functions: what an event makes   *)
(* of the state the bus keeps for new subscribers, and of the sections a   *)
(* page shows.                                                             *)
(*                                                                         *)
(* An event is a record of one of four kinds: "MempoolTx", "Block",        *)
(* "Rollback" and "MempoolPrune".                                          *)
(***************************************************************************)
EXTENDS Integers, Sequences, FiniteSets, SequencesExt, Sifting

CONSTANTS
  Txs,        \* transactions
  MaxBlocks   \* MAX_BLOCKS, of the bus and of the page (30 in the code)

ASSUME BusAssumption == MaxBlocks \in Nat \ {0}

Block == [slot : Nat, txs : SUBSET Txs]
Event == [kind : {"MempoolTx"}, tx : Txs]
           \cup [kind : {"Block"}, block : Block]
           \cup [kind : {"Rollback"}, slot : Nat]
           \cup [kind : {"MempoolPrune"}, removed : SUBSET Txs]

\* The bus's Inner: blocks from oldest to newest, mempool in order of arrival.
Bus == [blocks : Seq(Block), mempool : Seq(Txs)]

Without(txs, gone) == Sift(txs, ToSet(txs) \ gone)

\* Mutant: a rollback keeps one block too many.
RetainLate(blocks, slot) == Sift(blocks, {b \in ToSet(blocks) : b.slot <= slot + 1})

\* What a rollback to a slot leaves.
Retain(blocks, slot) == Sift(blocks, {b \in ToSet(blocks) : b.slot <= slot})

\* Mutant: the newest block is the one dropped.
DropNewest(blocks) ==
  IF Len(blocks) > MaxBlocks THEN SubSeq(blocks, 1, MaxBlocks) ELSE blocks

DropOldest(blocks) == IF Len(blocks) > MaxBlocks THEN Tail(blocks) ELSE blocks

\* Mutant: a block leaves the mempool alone.
KeepMempool(bus, block) ==
  [bus EXCEPT !.blocks = DropOldest(Append(@, block))]

TakeBlock(bus, block) ==
  [blocks |-> DropOldest(Append(bus.blocks, block)),
   mempool |-> Without(bus.mempool, block.txs)]

\* EventBus::send, but for the broadcast.
Take(bus, e) ==
  CASE e.kind = "MempoolTx" -> [bus EXCEPT !.mempool = Append(@, e.tx)]
    [] e.kind = "Block" -> TakeBlock(bus, e.block)
    [] e.kind = "Rollback" -> [bus EXCEPT !.blocks = Retain(@, e.slot)]
    [] e.kind = "MempoolPrune" -> [bus EXCEPT !.mempool = Without(@, e.removed)]

-----------------------------------------------------------------------------
(* The page.  Sections are ordered by slot and no two have the same one, so *)
(* a set holds them.  again and lost are not in the code: the transactions  *)
(* announced again while the page still meant to drop them, and whether the *)
(* stream skipped an event.                                                 *)

View == [blocks : SUBSET Block, mempool : SUBSET Txs, pendingPrune : SUBSET Txs,
         again : SUBSET Txs, lost : BOOLEAN]

\* handleSnapshot of what EventBus::subscribe returns.
Opened(bus) ==
  [blocks |-> ToSet(bus.blocks), mempool |-> ToSet(bus.mempool),
   pendingPrune |-> {}, again |-> {}, lost |-> FALSE]

\* The sections Feed.svelte keeps after a block: the MaxBlocks newest.
Newest(blocks) ==
  {b \in blocks : Cardinality({c \in blocks : c.slot > b.slot}) < MaxBlocks}

\* A block newer than those shown: the mempool section becomes its section,
\* and what it does not include moves to a new one, but for what was pruned.
Finalize(view, block) ==
  [view EXCEPT !.blocks = Newest(@ \cup {block}),
               !.mempool = (@ \ block.txs) \ view.pendingPrune,
               !.pendingPrune = {},
               !.again = @ \ block.txs]

ShowBlock(view, block) ==
  IF \E b \in view.blocks : b.slot = block.slot THEN view
  ELSE IF \A b \in view.blocks : b.slot < block.slot THEN Finalize(view, block)
  ELSE [view EXCEPT !.blocks = Newest(@ \cup {block})]

\* handleEvent.
Show(view, e) ==
  CASE e.kind = "MempoolTx" ->
         [view EXCEPT !.mempool = @ \cup {e.tx},
                      !.again = @ \cup ({e.tx} \cap view.pendingPrune)]
    [] e.kind = "Block" -> ShowBlock(view, e.block)
    [] e.kind = "Rollback" ->
         [view EXCEPT !.blocks = {b \in @ : b.slot <= e.slot}]
    [] e.kind = "MempoolPrune" ->
         [view EXCEPT !.pendingPrune = @ \cup e.removed]
=============================================================================
