------------------------------- MODULE Watch -------------------------------
(***************************************************************************)
(* What keeps the pipeline going, and when its pages open: the source's    *)
(* read timeout, the watchdog that ends a process in which no block is      *)
(* applied, and the flags by which source and sink agree that the server    *)
(* has caught up with the node (source.rs, sink.rs, state/progress.rs,      *)
(* daemon.rs, serve in server.rs).                                         *)
(*                                                                         *)
(* Time passes in ticks of the watchdog.  A stage that is neither stuck nor *)
(* slow is done with all it can do before the next tick.  A block is its    *)
(* slot.  Forks deeper than the breadcrumbs, and what the sink does with a  *)
(* block, are in Resume and ChainState.                                    *)
(***************************************************************************)
EXTENDS Integers, SequencesExt, FiniteSetsExt

CONSTANTS
  PortSize,      \* capacity of the port between source and sink (100)
  ReadLimit,     \* READ_TIMEOUT, in ticks
  DumpAfter,     \* STALL_DUMP_AFTER_SECS, in ticks
  RestartAfter,  \* STALL_RESTART_AFTER_SECS, in ticks
  MaxSlot,       \* bound: slot of the last block
  MaxForks,      \* bound: forks
  MaxFaults      \* bound: connections that stall, units that are slow or stuck

ASSUME WatchAssumption ==
  /\ {PortSize, ReadLimit, DumpAfter, RestartAfter, MaxSlot} \subseteq Nat \ {0}
  /\ {MaxForks, MaxFaults} \subseteq Nat

VARIABLES
  chain,     \* the node's chain, as slots
  clock,     \* the last slot with a block on any fork
  client,    \* the node's side: how far it has answered
  stalled,   \* the connection is half-alive: it delivers nothing
  pc,        \* the source: "read", "send" (a message), "store" (its flags)
  msg,       \* the message it is at, if any
  crumbs,    \* breadcrumbs
  port,      \* messages on their way to the sink
  unit,      \* the message the sink is at, if any
  mode,      \* how it works on it: "prompt", "slow", "stuck"
  applied,   \* slot of the state's newest snapshot
  nodeTip,   \* node_tip
  atTip,     \* at_tip
  sentSlot,  \* sent_slot
  catching,  \* catching_up: the pages wait
  age,       \* ticks since BlockApplied was stamped, if it was
  quiet,     \* ticks that the source has been reading
  due,       \* the watchdog's sleep is over
  dumped,    \* it has dumped this stall
  forks,     \* forks so far
  faults     \* faults so far

node == <<chain, clock, forks>>
source == <<pc, msg, crumbs, quiet>>
sink == <<unit, mode, applied, catching>>
flags == <<nodeTip, atTip, sentSlot>>
dog == <<age, due, dumped>>
vars == <<node, client, stalled, source, port, sink, flags, dog, faults>>

Tip == Last(chain)

\* The node's side of a connection that was intersected at a block: it answers
\* with a rollback to it first.
From(i) == [at |-> i, roll |-> TRUE, await |-> FALSE]

\* A process as daemon::run starts it, from a snapshot at a block of the chain.
\* Whether it has to catch up depends on the wall clock.
Start(i) ==
  /\ client' = From(i) /\ stalled' = FALSE
  /\ pc' = "read" /\ msg' = <<>> /\ crumbs' = {} /\ quiet' = 0
  /\ port' = <<>> /\ unit' = <<>> /\ mode' = "prompt"
  /\ applied' = chain[i]
  /\ nodeTip' = 0 /\ atTip' = FALSE /\ sentSlot' = 0
  /\ catching' \in BOOLEAN
  /\ age' = <<>> /\ due' = FALSE /\ dumped' = FALSE

Init ==
  /\ chain = <<1, 2>> /\ clock = 2 /\ forks = 0
  /\ client = From(1) /\ stalled = FALSE
  /\ pc = "read" /\ msg = <<>> /\ crumbs = {} /\ quiet = 0
  /\ port = <<>> /\ unit = <<>> /\ mode = "prompt"
  /\ applied = 1
  /\ nodeTip = 0 /\ atTip = FALSE /\ sentSlot = 0
  /\ catching \in BOOLEAN
  /\ age = <<>> /\ due = FALSE /\ dumped = FALSE
  /\ faults = 0

-----------------------------------------------------------------------------
(* The node *)

Mint ==
  /\ clock < MaxSlot
  /\ clock' = clock + 1
  /\ chain' = Append(chain, clock + 1)
  /\ UNCHANGED <<forks, client, stalled, source, port, sink, flags, dog, faults>>

\* The last fork is followed by a block.
SwitchFork(n) ==
  /\ forks < MaxForks /\ clock < MaxSlot /\ n < Len(chain)
  /\ forks' = forks + 1
  /\ chain' = SubSeq(chain, 1, n)
  /\ client' = IF client.at > n THEN From(n) ELSE client
  /\ UNCHANGED <<clock, stalled, source, port, sink, flags, dog, faults>>

Stall ==
  /\ faults < MaxFaults /\ ~stalled
  /\ faults' = faults + 1 /\ stalled' = TRUE
  /\ UNCHANGED <<node, client, source, port, sink, flags, dog>>

-----------------------------------------------------------------------------
(* The source *)

Forward == client.at < Len(chain)

\* Whether request_next or recv_while_must_reply returns.
CanRead == pc = "read" /\ ~stalled /\ (client.roll \/ Forward \/ ~client.await)

\* schedule, and the Await of process_next
Read ==
  /\ CanRead
  /\ quiet' = 0
  /\ \/ /\ client.roll
        /\ client' = [client EXCEPT !.roll = FALSE, !.await = FALSE]
        /\ msg' = <<[kind |-> "Reset", slot |-> chain[client.at], tip |-> Tip]>>
        /\ pc' = "send" /\ atTip' = atTip
     \/ /\ ~client.roll /\ Forward
        /\ client' = [client EXCEPT !.at = @ + 1, !.await = FALSE]
        /\ msg' = <<[kind |-> "Apply", slot |-> chain[client.at + 1], tip |-> Tip]>>
        /\ pc' = "send" /\ atTip' = atTip
     \/ /\ ~client.roll /\ ~Forward
        /\ client' = [client EXCEPT !.await = TRUE]
        /\ atTip' = TRUE
        /\ UNCHANGED <<msg, pc>>
  /\ UNCHANGED <<node, stalled, crumbs, port, sink, nodeTip, sentSlot, dog, faults>>

\* output.send, which waits for room without a limit
CanSend == pc = "send" /\ Len(port) < PortSize

Send ==
  /\ CanSend
  /\ port' = port \o msg
  /\ pc' = "store"
  /\ UNCHANGED <<node, client, stalled, msg, crumbs, quiet, sink, flags, dog, faults>>

\* The rest of process_next; the sink may have the message by now.
Store ==
  /\ pc = "store"
  /\ pc' = "read" /\ msg' = <<>>
  /\ LET m == Head(msg)
     IN  /\ crumbs' = crumbs \cup {m.slot}
         /\ nodeTip' = m.tip
         /\ sentSlot' = IF m.kind = "Apply" THEN m.slot ELSE sentSlot
         /\ atTip' = (atTip /\ m.kind # "Apply")
  /\ UNCHANGED <<node, client, stalled, quiet, port, sink, dog, faults>>

\* Mutant: the read has no limit.
Never == FALSE

TimesOut == pc = "read" /\ quiet = ReadLimit

\* Restart, bootstrap and intersect: a new connection, at the newest breadcrumb
\* on chain, or where the process started from.
Reconnect ==
  /\ TimesOut
  /\ client' = From(Max({1} \cup {i \in DOMAIN chain : chain[i] \in crumbs}))
  /\ stalled' = FALSE /\ quiet' = 0
  /\ UNCHANGED <<node, pc, msg, crumbs, port, sink, flags, dog, faults>>

-----------------------------------------------------------------------------
(* The sink *)

\* recv; the unit may be a rebuild, or wait for a query or a lock, for long or
\* for good.
CanTake == unit = <<>> /\ port # <<>>

Take(m) ==
  /\ CanTake
  /\ m = "prompt" \/ faults < MaxFaults
  /\ faults' = IF m = "prompt" THEN faults ELSE faults + 1
  /\ unit' = <<Head(port)>> /\ port' = Tail(port) /\ mode' = m
  /\ UNCHANGED <<node, client, stalled, source, applied, catching, flags, dog>>

\* Mutant: only a block past the tip ends the catch-up.
PastTip(slot) == nodeTip > 0 /\ slot > nodeTip

\* The block is at the tip that the source has stored, or the last one that
\* the node had when it had nothing more.
CaughtUp(slot) ==
  (nodeTip > 0 /\ slot >= nodeTip) \/ (atTip /\ slot >= sentSlot)

\* handle_apply or handle_reset comes to its end.
Finish ==
  /\ unit # <<>> /\ mode # "stuck"
  /\ unit' = <<>> /\ mode' = "prompt"
  /\ LET u == Head(unit)
         block == u.kind = "Apply"
     IN  /\ applied' = u.slot
         /\ age' = IF block THEN <<0>> ELSE age
         /\ catching' = (catching /\ ~(block /\ CaughtUp(u.slot)))
  /\ UNCHANGED <<node, client, stalled, source, port, flags, due, dumped, faults>>

-----------------------------------------------------------------------------
(* The watchdog *)

\* What will have happened before the next tick.
Prompt ==
  \/ CanRead \/ CanSend \/ pc = "store" \/ TimesOut
  \/ CanTake \/ (unit # <<>> /\ mode = "prompt")

Tick ==
  /\ ~due /\ ~Prompt
  /\ due' = TRUE
  /\ age' = IF age = <<>> THEN age ELSE <<Min({Head(age) + 1, RestartAfter})>>
  /\ quiet' = IF pc = "read" THEN Min({quiet + 1, ReadLimit}) ELSE quiet
  /\ UNCHANGED <<node, client, stalled, pc, msg, crumbs, port, sink, flags, dumped, faults>>

\* secs_since(BlockApplied) is None until the process's first block.
Silent(limit) == age # <<>> /\ Head(age) >= limit

\* The watchdog's turn, at any moment between the stages' steps.  The process
\* that the supervisor starts after an exit resumes some blocks back.
Check ==
  /\ due
  /\ \/ /\ Silent(RestartAfter)
        /\ \E i \in DOMAIN chain : (chain[i] < applied \/ i = 1) /\ Start(i)
        /\ UNCHANGED <<node, faults>>
     \/ /\ ~Silent(RestartAfter)
        /\ due' = FALSE
        /\ dumped' = Silent(DumpAfter)
        /\ UNCHANGED <<node, client, stalled, source, port, sink, flags, age, faults>>

-----------------------------------------------------------------------------

Source == Read \/ Send \/ Store \/ Reconnect
AnyTake == \E m \in {"prompt", "slow", "stuck"} : Take(m)

Next ==
  \/ Mint \/ (\E n \in 1..MaxSlot : SwitchFork(n)) \/ Stall
  \/ Source
  \/ AnyTake \/ Finish
  \/ Tick \/ Check

\* The stages and the watchdog are threads of their own; the chain goes on up
\* to the bound.
Spec ==
  /\ Init /\ [][Next]_vars
  /\ WF_vars(Mint)
  /\ WF_vars(Source)
  /\ WF_vars(AnyTake) /\ WF_vars(Finish)
  /\ WF_vars(Tick) /\ WF_vars(Check)

-----------------------------------------------------------------------------
(* Properties *)

TypeOK ==
  /\ chain \in Seq(1..MaxSlot) /\ chain # <<>> /\ clock \in 1..MaxSlot
  /\ client.at \in DOMAIN chain
  /\ pc \in {"read", "send", "store"} /\ Len(msg) <= 1 /\ Len(unit) <= 1
  /\ Len(port) <= PortSize /\ mode \in {"prompt", "slow", "stuck"}
  /\ applied \in 1..MaxSlot /\ {nodeTip, sentSlot} \subseteq 0..MaxSlot
  /\ quiet \in 0..ReadLimit /\ Len(age) <= 1

\* A process that is stuck before it has applied a block: the watchdog takes it
\* for one that is rebuilding its state.
Wedged == mode = "stuck" /\ age = <<>>

\* Whatever stalls, takes long or is stuck, the state comes to the end of the
\* node's chain, by a new connection or a new process (READ_TIMEOUT and
\* spawn_watchdog), unless the process was stuck before its first block.
BlocksGetApplied == []TypeOK /\ ([]<>(applied = Tip) \/ <>[]Wedged)

\* Catching up comes to an end, so that the pages open, also across forks,
\* reconnections and restarts while it goes on, and whichever of source and
\* sink is first with a block (the end of catch-up in handle_apply, serve).
PagesOpen == []<>~catching \/ <>[]Wedged
=============================================================================
