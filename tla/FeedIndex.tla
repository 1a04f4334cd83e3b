------------------------------ MODULE FeedIndex ------------------------------
(***************************************************************************)
(* The feed index (state/feed_index.rs): for every subject of a feed, the  *)
(* blocks of the last days that concern it, and two logs of delegations    *)
(* with the positions at which each target is named.                       *)
(*                                                                         *)
(* A hash map's missing key is an empty list here: every reader takes it   *)
(* so, and the code drops the keys it empties.                             *)
(***************************************************************************)
EXTENDS Integers, SequencesExt, Sifting

CONSTANTS
  Subjects,  \* pools and DReps
  Creds,     \* stake credentials
  Nobody,    \* no target: not delegated, or deregistered
  Kinds,     \* the maps of block references, pool_minted to drep_votes
  Roles      \* the delegation logs: to pools, to DReps

ASSUME SubjectAssumption ==
  /\ Nobody \notin Subjects
  /\ {"minted", "changes", "votes"} \subseteq Kinds

BlockRef == [slot : Nat, hash : STRING]
Entry == [slot : Nat, cred : Creds, from : Subjects \cup {Nobody},
          to : Subjects \cup {Nobody}]
DelegationLog == [events : Seq(Entry), at : [Subjects -> Seq(Nat)]]
Index == [refs : [Kinds -> [Subjects -> Seq(BlockRef)]],
          logs : [Roles -> DelegationLog]]

EmptyLog == [events |-> <<>>, at |-> [s \in Subjects |-> <<>>]]

\* FeedIndex::new
EmptyIndex == [refs |-> [k \in Kinds |-> [s \in Subjects |-> <<>>]],
               logs |-> [r \in Roles |-> EmptyLog]]

\* add_delegation_event and add_drep_delegation_event.  The sink logs no event
\* from a target to itself.
AddEvent(log, e) ==
  [events |-> Append(log.events, e),
   at |-> [s \in Subjects |->
             IF s \in {e.from, e.to} THEN Append(log.at[s], Len(log.events) + 1)
             ELSE log.at[s]]]

AddEvents(log, events) ==
  LET after[i \in 0..Len(events)] ==
        IF i = 0 THEN log ELSE AddEvent(after[i - 1], events[i])
  IN  after[Len(events)]

\* rebuild_delegation_index and its twin.
Rebuild(events) == AddEvents(EmptyLog, events)

\* add_pool_minted to add_drep_votes: marks[k] are the subjects the block ref
\* is for.
AddRefs(refs, ref, marks) ==
  [k \in Kinds |-> [s \in Subjects |->
     IF s \in marks[k] THEN Append(refs[k][s], ref) ELSE refs[k][s]]]

\* What the sink adds for a block.
Record(ix, ref, marks, events) ==
  [refs |-> AddRefs(ix.refs, ref, marks),
   logs |-> [r \in Roles |-> AddEvents(ix.logs[r], events[r])]]

-----------------------------------------------------------------------------

\* slice::partition_point: how many entries at the front of a list are before
\* the slot.
PartitionPoint(list, slot) ==
  CHOOSE n \in 0..Len(list) :
    /\ \A i \in 1..n : list[i].slot < slot
    /\ n < Len(list) => list[n + 1].slot >= slot

\* Mutant: what is at the slot goes too.
KeepBefore(list, slot) == SubSeq(list, 1, PartitionPoint(list, slot))

\* Mutant: nothing goes.
KeepAll(list, slot) == list

KeepUpTo(list, slot) == SubSeq(list, 1, PartitionPoint(list, slot + 1))

DropBefore(list, slot) == SubSeq(list, PartitionPoint(list, slot) + 1, Len(list))

\* Mutant: the positions are left as they were.
CutLog(log, slot) == [log EXCEPT !.events = KeepUpTo(@, slot)]

RollbackLog(log, slot) == Rebuild(KeepUpTo(log.events, slot))

\* FeedIndex::rollback
RollbackIndex(ix, slot) ==
  [refs |-> [k \in Kinds |-> [s \in Subjects |-> KeepUpTo(ix.refs[k][s], slot)]],
   logs |-> [r \in Roles |-> RollbackLog(ix.logs[r], slot)]]

\* Mutant: the positions still count from the old start of the log.
ShiftLog(log, slot) == [log EXCEPT !.events = DropBefore(@, slot)]

PruneLog(log, slot) ==
  LET kept == DropBefore(log.events, slot)
  IN  IF kept = log.events THEN log ELSE Rebuild(kept)

\* FeedIndex::prune
Prune(ix, boundary) ==
  [refs |-> [k \in Kinds |-> [s \in Subjects |-> DropBefore(ix.refs[k][s], boundary)]],
   logs |-> [r \in Roles |-> PruneLog(ix.logs[r], boundary)]]

-----------------------------------------------------------------------------
(* What the feeds read *)

\* pool_delegation_entries and drep_delegation_entries
EntriesOf(log, s) == [i \in DOMAIN log.at[s] |-> log.events[log.at[s][i]]]

\* pool_epoch_blocks
EpochBlocks(ix, pool, epochStart) ==
  LET refs == ix.refs["minted"][pool]
  IN  Len(Sift(refs, {ref \in ToSet(refs) : ref.slot >= epochStart}))
=============================================================================
