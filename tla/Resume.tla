-------------------------------- MODULE Resume --------------------------------
(***************************************************************************)
(* How the process keeps its place on the node's chain: breadcrumbs across *)
(* lost connections (source.rs), the history across rollbacks (sink.rs),   *)
(* the snapshot file across crashes (State::save_snapshot, write_snapshot, *)
(* load_snapshot, daemon.rs run).                                          *)
(*                                                                         *)
(* A block is the chain that ends in it, a sequence of labels; its slot is *)
(* its height.  A point is a slot and the hash that should go with it.     *)
(* The supervisor starts the process whenever it is down.                  *)
(***************************************************************************)
EXTENDS Integers, Sequences, FiniteSetsExt, SequencesExt

CONSTANTS
  Labels,       \* what tells the blocks of one height apart
  Empty,        \* the labels of blocks without transactions
  Genesis,      \* the chain at first
  Depth,        \* snapshot_depth (8 by default)
  MaxHistory,   \* snapshots in memory (2160)
  MaxCrumbs,    \* BREADCRUMB_CAP (100)
  Window,       \* how far back a cold start begins (five days)
  PortSize,     \* capacity of the port (100)
  MaxHeight,    \* bound: length of the node's chain
  MaxFork,      \* bound: blocks a fork of the node abandons
  Faults,       \* what goes wrong: "crash", "drop"
  MaxFaults     \* bound: crashes and lost connections

ASSUME ResumeAssumption ==
  /\ Empty \subseteq Labels
  /\ Genesis \in Seq(Labels) /\ Len(Genesis) > Window
  /\ {Depth, MaxHistory, MaxCrumbs, Window, PortSize} \subseteq Nat \ {0}
  /\ Depth <= MaxHistory /\ Depth <= Window + 1
  /\ {MaxHeight, MaxFork, MaxFaults} \subseteq Nat

VARIABLES
  chain,     \* the node's chain, and db-sync's
  phase,     \* of the process: "down", "connecting" or "up"
  point,     \* where a first connection begins
  pos,       \* where the node has the client
  told,      \* the client was sent back to pos after the intersection
  crumbs,    \* Stage.breadcrumbs, newest first
  port,      \* chain events on their way to the sink
  history,   \* State.history, as points
  job,       \* the snapshot a blocking thread is writing, if any
  file,      \* the point of snapshot.bin, if it is there and readable
  faults,    \* crashes and lost connections so far
  marks      \* history: what has happened that the properties except

process == <<phase, point, pos, told, crumbs, port, history, job>>
vars == <<chain, process, file, faults, marks>>

Point == [slot : Nat, hash : Seq(Labels)]
PointOf(block) == [slot |-> Len(block), hash |-> block]
OnChain(p) == IsPrefix(p.hash, chain) /\ p.slot = Len(p.hash)
Prefix(n) == SubSeq(chain, 1, n)

Init ==
  /\ chain = Genesis
  /\ phase = "down"
  /\ point = PointOf(<<>>) /\ pos = <<>> /\ told = FALSE
  /\ crumbs = <<>> /\ port = <<>> /\ history = <<>> /\ job = <<>>
  /\ file = <<>> /\ faults = 0 /\ marks = {}

-----------------------------------------------------------------------------
(* The node *)

Extend(l) ==
  /\ Len(chain) < MaxHeight
  /\ chain' = Append(chain, l)
  /\ UNCHANGED <<process, file, faults, marks>>

\* A fork wins by being longer.  A client beyond it is told to go back to it,
\* even if the node returns.  Marked if it is Depth blocks back.
SwitchFork(n, l) ==
  /\ Len(chain) < MaxHeight
  /\ n \in (Len(chain) - MaxFork)..(Len(chain) - 1) /\ n > 0
  /\ l # chain[n + 1]
  /\ chain' = Prefix(n) \o [i \in 1..(Len(chain) - n + 1) |-> l]
  /\ IF phase = "up" /\ Len(pos) > n THEN pos' = Prefix(n) /\ told' = FALSE
     ELSE UNCHANGED <<pos, told>>
  /\ marks' = marks \cup IF n < Len(chain) - (Depth - 1) THEN {"deep"} ELSE {}
  /\ UNCHANGED <<phase, point, crumbs, port, history, job, file, faults>>

-----------------------------------------------------------------------------
(* The source *)

\* daemon::run: the saved snapshot, or a block some days back from db-sync.
Start ==
  /\ phase = "down"
  /\ phase' = "connecting"
  /\ history' = file
  /\ point' = IF file # <<>> THEN file[1] ELSE PointOf(Prefix(Len(chain) - Window))
  /\ UNCHANGED <<chain, pos, told, crumbs, port, job, file, faults, marks>>

Gone ==
  /\ phase' = "down" /\ point' = PointOf(<<>>) /\ pos' = <<>> /\ told' = FALSE
  /\ crumbs' = <<>> /\ port' = <<>> /\ history' = <<>> /\ job' = <<>>

At(block) ==
  /\ phase' = "up" /\ pos' = block /\ told' = FALSE
  /\ UNCHANGED <<point, crumbs, port, history, job>>

\* intersect: at the newest breadcrumb on chain, or exit; on a first
\* connection at the configured point, or at the origin when it is not found.
Connect ==
  /\ phase = "connecting"
  /\ LET known == {i \in DOMAIN crumbs : OnChain(crumbs[i])}
     IN  IF crumbs # <<>>
         THEN IF known # {} THEN At(crumbs[Min(known)].hash) ELSE Gone
         ELSE At(IF OnChain(point) THEN point.hash ELSE <<>>)
  /\ UNCHANGED <<chain, file, faults, marks>>

\* Mutant: a rollback keeps the breadcrumbs beyond it.
TrackAll(p) == SubSeq(<<p>> \o crumbs, 1, Min({MaxCrumbs, Len(crumbs) + 1}))

\* Breadcrumbs::track: the older ones, which are last, are retained.
Track(p) ==
  LET old == {i \in DOMAIN crumbs : crumbs[i].slot < p.slot}
      older == IF old = {} THEN <<>> ELSE SubSeq(crumbs, Min(old), Len(crumbs))
  IN  SubSeq(<<p>> \o older, 1, Min({MaxCrumbs, Len(older) + 1}))

Emit(kind, block) ==
  /\ phase = "up" /\ Len(port) < PortSize
  /\ port' = Append(port, [kind |-> kind, block |-> block])
  /\ pos' = block /\ told' = TRUE
  /\ crumbs' = Track(PointOf(block))
  /\ UNCHANGED <<chain, phase, point, history, job, file, faults, marks>>

RollBackward == ~told /\ Emit("Reset", pos)

RollForward == told /\ Len(pos) < Len(chain) /\ Emit("Apply", Prefix(Len(pos) + 1))

\* No message within READ_TIMEOUT, or a connection error.
LoseConnection ==
  /\ phase = "up" /\ "drop" \in Faults /\ faults < MaxFaults
  /\ phase' = "connecting" /\ faults' = faults + 1
  /\ UNCHANGED <<chain, point, pos, told, crumbs, port, history, job, file, marks>>

-----------------------------------------------------------------------------
(* The sink *)

Recv(kind) == phase # "down" /\ port # <<>> /\ Head(port).kind = kind

\* Mutant: the snapshot at the tip is saved.
SaveTip(h) == Last(h)

\* The snapshot to persist.
Saved(h) == h[IF Len(h) > Depth THEN Len(h) - Depth + 1 ELSE 1]

\* Mutant: one snapshot too many is kept.
TrimLate(h) == IF Len(h) > MaxHistory + 1 THEN Tail(h) ELSE h

\* At most MaxHistory snapshots.
Trim(h) == IF Len(h) > MaxHistory THEN Tail(h) ELSE h

\* handle_apply, and the periodic save: due every so many blocks and when a
\* catch-up completes, skipped while one is under way.
Apply(due) ==
  /\ Recv("Apply")
  /\ LET h == Trim(Append(history, PointOf(Head(port).block)))
     IN  /\ history' = h
         /\ job' = IF due /\ job = <<>> THEN <<[at |-> Saved(h), mixed |-> FALSE]>>
                   ELSE job
  /\ port' = Tail(port)
  /\ UNCHANGED <<chain, phase, point, pos, told, crumbs, file, faults, marks>>

\* Mutant: the block rolled back to is dropped as well.
KeptBefore(slot) ==
  LET old == {i \in DOMAIN history : history[i].slot < slot}
  IN  IF old = {} THEN 0 ELSE Max(old)

\* How many snapshots State::rollback keeps.
Kept(slot) ==
  LET old == {i \in DOMAIN history : history[i].slot <= slot}
  IN  IF old = {} THEN 0 ELSE Max(old)

\* handle_reset within the history.
Truncate ==
  /\ Recv("Reset") /\ Kept(Len(Head(port).block)) > 0
  /\ history' = SubSeq(history, 1, Kept(Len(Head(port).block)))
  /\ port' = Tail(port)
  /\ UNCHANGED <<chain, phase, point, pos, told, crumbs, job, file, faults, marks>>

\* Mutant: the block of the slot itself is left out.
SlotInfoBefore(slot) ==
  LET full == {n \in DOMAIN chain : n < slot /\ chain[n] \notin Empty}
  IN  IF full = {} THEN <<>> ELSE Prefix(Max(full))

\* slot_info: the last block with transactions at or before the slot.
SlotInfo(slot) ==
  LET full == {n \in DOMAIN chain : n <= slot /\ chain[n] \notin Empty}
  IN  IF full = {} THEN <<>> ELSE Prefix(Max(full))

\* handle_reset beyond the history: rebuild from db-sync and save at once.  A
\* save already under way writes to the same scratch file: either snapshot may
\* end up in place, or a mixture that loads as neither.  Marked if the block
\* has no transactions, or if db-sync has taken another fork by now.
Rebuild ==
  LET slot == Len(Head(port).block)
      new == [slot |-> slot, hash |-> SlotInfo(slot)]
  IN  /\ Recv("Reset") /\ Kept(slot) = 0 /\ new.hash # <<>>
      /\ history' = <<new>>
      /\ file' \in IF job = <<>> THEN {<<new>>} ELSE {<<new>>, <<>>}
      /\ job' = IF job = <<>> THEN job ELSE <<[job[1] EXCEPT !.mixed = TRUE]>>
      /\ port' = Tail(port)
      /\ marks' = marks \cup (IF slot # Len(new.hash) THEN {"empty"} ELSE {})
                        \cup (IF IsPrefix(new.hash, Head(port).block) THEN {} ELSE {"astray"})
      /\ UNCHANGED <<chain, phase, point, pos, told, crumbs, faults>>

\* State::reset fails: the worker panics and the process ends.
RebuildPanics ==
  /\ Recv("Reset") /\ Kept(Len(Head(port).block)) = 0
  /\ SlotInfo(Len(Head(port).block)) = <<>>
  /\ Gone
  /\ UNCHANGED <<chain, file, faults, marks>>

\* write_snapshot ends: its rename puts the snapshot in place.
SaveEnds ==
  /\ job # <<>>
  /\ file' \in IF job[1].mixed THEN {<<job[1].at>>, <<>>, file} ELSE {<<job[1].at>>}
  /\ job' = <<>>
  /\ UNCHANGED <<chain, phase, point, pos, told, crumbs, port, history, faults, marks>>

Crash ==
  /\ phase # "down" /\ "crash" \in Faults /\ faults < MaxFaults
  /\ faults' = faults + 1
  /\ Gone
  /\ UNCHANGED <<chain, file, marks>>

-----------------------------------------------------------------------------

Node == \E l \in Labels : Extend(l) \/ \E n \in 1..MaxHeight : SwitchFork(n, l)
Source == Start \/ Connect \/ RollBackward \/ RollForward
Sink == (\E due \in BOOLEAN : Apply(due)) \/ Truncate \/ Rebuild \/ RebuildPanics

Next == Node \/ Source \/ Sink \/ SaveEnds \/ LoseConnection \/ Crash

\* The supervisor restarts the process, the stages and the writer run on; the
\* node owes nothing, and crashes and lost connections come to an end.
Spec ==
  /\ Init /\ [][Next]_vars
  /\ WF_vars(Source) /\ WF_vars(Sink) /\ WF_vars(SaveEnds)

-----------------------------------------------------------------------------
(* Properties *)

Points(s) == ToSet(s) \subseteq Point

TypeOK ==
  /\ chain \in Seq(Labels) /\ pos \in Seq(Labels)
  /\ phase \in {"down", "connecting", "up"} /\ told \in BOOLEAN
  /\ point \in Point
  /\ Points(crumbs) /\ Len(crumbs) <= MaxCrumbs
  /\ Points(history) /\ Len(history) <= MaxHistory
  /\ Points(file) /\ Len(file) <= 1
  /\ Len(job) <= 1 /\ Len(port) <= PortSize
  /\ marks \subseteq {"deep", "empty", "astray"}

\* The sink has taken all that the source was sent, and the node has no
\* rollback in store for the source.
Settled == phase = "up" /\ told /\ port = <<>>

\* Across forks, lost connections and restarts, a sink with nothing left to take
\* is where the node has the client, and its history is the blocks up to there
\* without a gap; only the first snapshot may name an older block than its slot,
\* or one of another fork if db-sync had taken that fork during the rebuild.
SettledHistoryIsTheChain ==
  /\ TypeOK
  /\ Settled =>
       /\ history # <<>> /\ Last(history).slot = Len(pos)
       /\ \A i \in DOMAIN history :
            /\ (i > 1 \/ "astray" \notin marks) => IsPrefix(history[i].hash, pos)
            /\ i > 1 => history[i].slot = history[i - 1].slot + 1
            /\ i > 1 => history[i].slot = Len(history[i].hash)

\* A reconnection resumes at a block the sink went through: the breadcrumbs are
\* the path of the source, so that the events that follow connect to it.
CrumbsAreOnPath ==
  \A i \in DOMAIN crumbs :
    /\ crumbs[i].slot = Len(crumbs[i].hash)
    /\ IsPrefix(crumbs[i].hash, crumbs[1].hash)
    /\ i > 1 => crumbs[i].slot < crumbs[i - 1].slot

\* While no fork goes Depth blocks deep and the state is rebuilt at blocks with
\* transactions only, the snapshot on disk is of a block of the node's chain: a
\* restart can resume at it.
SavedPointIsOnChain == marks = {} => \A i \in DOMAIN file : OnChain(file[i])

Synced == Settled /\ pos = chain

\* Whatever crashes, lost connections and forks come in between, the process
\* ends up at the node's tip if the snapshot it would resume at stays on chain.
CatchesUpFromChainPoint ==
  [](\A i \in DOMAIN file : OnChain(file[i])) => <>[]Synced

\* The same of any snapshot: a restart resumes from the snapshot in the output
\* directory (README.md), and after a rollback too deep for the breadcrumbs from
\* db-sync (the comment on intersect in source.rs).
CatchesUp == <>[]Synced
=============================================================================
