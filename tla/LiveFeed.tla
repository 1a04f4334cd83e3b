------------------------------- MODULE LiveFeed -------------------------------
(***************************************************************************)
(* From the node to the page: the sink and the mempool monitor publish on  *)
(* the event bus, each at its own pace, and pages come and go             *)
(* (sink.rs, mempool.rs, event_bus.rs, the /events stream of server.rs).   *)
(*                                                                         *)
(* The node is the environment: it adopts blocks, switches to other forks, *)
(* and takes transactions into its mempool and out of it.                  *)
(***************************************************************************)
EXTENDS EventBus

CONSTANTS
  Pages,        \* open pages
  MaxHeight,    \* bound: length of the node's chain
  PortSize,     \* capacity of the port between source and sink (100)
  Buffer,       \* events a page may be behind (4096)
  MaxRestarts   \* bound: reconnections of the monitor

ASSUME FeedAssumption ==
  /\ MaxHeight \in Nat /\ PortSize \in Nat \ {0} /\ Buffer \in Nat \ {0}
  /\ MaxRestarts \in Nat

VARIABLES
  chain,      \* the node's chain
  pool,       \* the node's mempool
  port,       \* chain events on their way to the sink
  pending,    \* Worker.pending of the monitor
  passing,    \* a pass is under way
  found,      \* its local pending
  todo,       \* what the acquired mempool snapshot still has to give
  acquired,   \* the mempool last acquired on this connection, if any
  restarts,   \* reconnections so far
  bus,        \* EventBus.inner
  queue,      \* queue[p]: the events sent since p subscribed, not yet shown
  view        \* view[p]: what p shows

node == <<chain, pool>>
monitor == <<pending, passing, found, todo, acquired, restarts>>
pages == <<queue, view>>
vars == <<node, port, monitor, bus, pages>>

OnChain(c) == UNION {c[i].txs : i \in DOMAIN c}

Init ==
  /\ chain = <<>> /\ pool = {} /\ port = <<>>
  /\ pending = {} /\ passing = FALSE /\ found = {} /\ todo = {} /\ acquired = {}
  /\ restarts = 0
  /\ bus = [blocks |-> <<>>, mempool |-> <<>>]
  /\ queue = [p \in Pages |-> <<>>]
  /\ view = [p \in Pages |-> Opened(bus)]

-----------------------------------------------------------------------------
(* The node *)

Submit(t) ==
  /\ t \notin pool \cup OnChain(chain)
  /\ pool' = pool \cup {t}
  /\ UNCHANGED <<chain, port, monitor, bus, pages>>

Evict(t) ==
  /\ t \in pool
  /\ pool' = pool \ {t}
  /\ UNCHANGED <<chain, port, monitor, bus, pages>>

Mint(txs) ==
  LET block == [slot |-> Len(chain) + 1, txs |-> txs]
  IN  /\ Len(chain) < MaxHeight /\ Len(port) < PortSize
      /\ txs \cap OnChain(chain) = {}
      /\ chain' = Append(chain, block)
      /\ pool' = pool \ txs
      /\ port' = Append(port, [kind |-> "Block", block |-> block])
      /\ UNCHANGED <<monitor, bus, pages>>

SwitchFork(n) ==
  /\ n < Len(chain) /\ Len(port) < PortSize
  /\ chain' = SubSeq(chain, 1, n)
  /\ port' = Append(port, [kind |-> "Rollback", slot |-> n])
  /\ UNCHANGED <<pool, monitor, bus, pages>>

-----------------------------------------------------------------------------
(* The bus.  A page more than Buffer events behind loses the oldest. *)

\* Mutant: the channel has no bound.
NeverDrop(q, e) == Append(q, e)

Deliver(q, e) == IF Len(q) < Buffer THEN Append(q, e) ELSE Append(Tail(q), e)

Send(e) ==
  /\ bus' = Take(bus, e)
  /\ queue' = [p \in Pages |-> Deliver(queue[p], e)]
  /\ view' = [p \in Pages |-> [view[p] EXCEPT !.lost = @ \/ Len(queue[p]) = Buffer]]

\* The sink publishes the event it has just applied.
SinkSend ==
  /\ port # <<>>
  /\ Send(Head(port))
  /\ port' = Tail(port)
  /\ UNCHANGED <<node, monitor>>

-----------------------------------------------------------------------------
(* The monitor, Worker::execute *)

\* A second acquire on a connection waits for the mempool to change.
Acquire ==
  /\ ~passing /\ pool \notin acquired
  /\ passing' = TRUE /\ found' = {} /\ todo' = pool /\ acquired' = {pool}
  /\ UNCHANGED <<node, port, pending, restarts, bus, pages>>

QueryNextTx(t) ==
  /\ t \in todo
  /\ IF t \in pending THEN UNCHANGED <<bus, pages>>
     ELSE Send([kind |-> "MempoolTx", tx |-> t])
  /\ found' = found \cup {t} /\ todo' = todo \ {t}
  /\ UNCHANGED <<node, port, pending, passing, acquired, restarts>>

\* Mutant: only what the pass announced is remembered.
KeepNew(old, new) == new \ old

\* Mutant: what was seen once is remembered.
KeepAll(old, new) == old \cup new

Remembered(old, new) == new

EndPass ==
  /\ passing /\ todo = {}
  /\ IF pending \ found = {} THEN UNCHANGED <<bus, pages>>
     ELSE Send([kind |-> "MempoolPrune", removed |-> pending \ found])
  /\ pending' = Remembered(pending, found) /\ passing' = FALSE /\ found' = {}
  /\ UNCHANGED <<node, port, todo, acquired, restarts>>

\* A connection error or a read that timed out: Restart, and bootstrap makes a
\* Worker that remembers nothing.
Reconnect ==
  /\ restarts < MaxRestarts
  /\ pending' = {} /\ passing' = FALSE /\ found' = {} /\ todo' = {} /\ acquired' = {}
  /\ restarts' = restarts + 1
  /\ UNCHANGED <<node, port, bus, pages>>

-----------------------------------------------------------------------------
(* A page *)

\* EventBus::subscribe, under the bus's lock: what it keeps, and a receiver.
Connect(p) ==
  /\ view' = [view EXCEPT ![p] = Opened(bus)]
  /\ queue' = [queue EXCEPT ![p] = <<>>]
  /\ UNCHANGED <<node, port, monitor, bus>>

ShowNext(p) ==
  /\ queue[p] # <<>>
  /\ view' = [view EXCEPT ![p] = Show(@, Head(queue[p]))]
  /\ queue' = [queue EXCEPT ![p] = Tail(@)]
  /\ UNCHANGED <<node, port, monitor, bus>>

-----------------------------------------------------------------------------

Node ==
  \/ \E t \in Txs : Submit(t) \/ Evict(t)
  \/ \E txs \in SUBSET Txs : Mint(txs)
  \/ \E n \in 0..MaxHeight : SwitchFork(n)

Pass == Acquire \/ (\E t \in Txs : QueryNextTx(t)) \/ EndPass

Next ==
  \/ Node
  \/ SinkSend
  \/ Pass \/ Reconnect
  \/ \E p \in Pages : Connect(p) \/ ShowNext(p)

\* The stages and the pages' streams keep running; the node owes nothing.
Spec ==
  /\ Init /\ [][Next]_vars
  /\ WF_vars(SinkSend)
  /\ WF_vars(Pass)
  /\ \A p \in Pages : WF_vars(ShowNext(p))

-----------------------------------------------------------------------------
(* Properties *)

TypeOK ==
  /\ chain \in Seq(Block) /\ port \in Seq(Event)
  /\ pool \subseteq Txs /\ pending \subseteq Txs /\ todo \subseteq Txs
  /\ passing \in BOOLEAN /\ found \subseteq Txs /\ acquired \in SUBSET (SUBSET Txs)
  /\ bus \in Bus /\ Len(port) <= PortSize
  /\ queue \in [Pages -> Seq(Event)] /\ \A p \in Pages : Len(queue[p]) <= Buffer
  /\ view \in [Pages -> View]

\* The bus once it has taken these events.
After(b, events) ==
  LET taken[i \in 0..Len(events)] ==
        IF i = 0 THEN b ELSE Take(taken[i - 1], events[i])
  IN  taken[Len(events)]

\* With what is on its way to the sink, the blocks a new subscriber is given are
\* the end of the node's chain: no block of an abandoned fork, none missing in
\* between (EventBus::send).
BusHoldsChainEnd ==
  /\ TypeOK
  /\ IsSuffix(After(bus, port).blocks, chain)
  /\ Len(bus.blocks) <= MaxBlocks

\* A page that has shown all it was sent shows the blocks a page opened now
\* would show, unless its stream skipped an event.
PagesShowSameBlocks ==
  \A p \in Pages : (queue[p] = <<>> /\ ~view[p].lost) =>
    view[p].blocks = ToSet(bus.blocks)

\* Such a page also shows the pending transactions a page opened now would
\* show, and those it is about to drop; but it may drop a transaction that was
\* announced again after it was pruned (pendingPrune of sse.ts).
PagesShowSamePending ==
  \A p \in Pages : (queue[p] = <<>> /\ ~view[p].lost) =>
    /\ ToSet(bus.mempool) \ view[p].again \subseteq view[p].mempool
    /\ view[p].mempool \ view[p].pendingPrune \subseteq ToSet(bus.mempool)

\* A pending transaction is kept once, and the monitor remembers it: the next
\* passes can announce that it is gone.  Holds until the monitor reconnects.
MonitorRemembers ==
  restarts = 0 =>
    /\ IsInjective(bus.mempool)
    /\ ToSet(bus.mempool) \subseteq pending \cup found

\* A transaction that left the node's mempool for good is not shown as pending
\* to new subscribers for good (the comment on MEMPOOL_READ_TIMEOUT: a
\* reconnection has no state to lose).
GoneTxsLeave ==
  \A t \in Txs : <>[](t \notin pool) => <>[](t \notin ToSet(bus.mempool))

\* A transaction that stays in the node's mempool, and was in no block, ends
\* up announced.
PendingTxsShow ==
  \A t \in Txs :
    ([](t \notin OnChain(chain)) /\ <>[](t \in pool)) => <>[](t \in ToSet(bus.mempool))
=============================================================================
