------------------------------ MODULE Metadata ------------------------------
(***************************************************************************)
(* The names that are in no block, or in a datum only: tickers of pools and *)
(* names of DReps, which db-sync fetches and the sink polls for; decimals   *)
(* and tickers of tokens, from the datum of a reference token (CIP-68) and  *)
(* from the token registry (CIP-26), which a task of its own looks up       *)
(* (sink.rs, state/mod.rs, state/dbsync.rs, daemon.rs, cip26.rs, cip68.rs). *)
(*                                                                         *)
(* Names go into the newest snapshot only, what has been read of them is   *)
(* known to the process only, and rollbacks and restarts bring back older  *)
(* snapshots.                                                              *)
(***************************************************************************)
EXTENDS Integers, SequencesExt, FiniteSetsExt, Sifting

CONSTANTS
  Pools,       \* stake pools
  DReps,       \* DReps; a block never adds one to the snapshot
  Names,       \* tickers and names
  None,        \* no name, or no datum
  Tokens,      \* tokens with a reference token
  Datums,      \* metadata that a datum may hold: a record of d and t
  Entries,     \* registry contents: records of d and t for each token
  Blocks,      \* blocks: pools that are registered, and outputs of reference tokens
  Interval,    \* SNAPSHOT_INTERVAL
  MaxHistory,  \* snapshots that the state keeps (2160)
  Depth,       \* blocks a saved snapshot is back
  MaxBlocks,   \* bound: length of the chain
  MaxRows,     \* bound: rows that db-sync fetches
  MaxCommits,  \* bound: commits to the registry
  MaxFaults    \* bound: rollbacks and restarts

ASSUME MetadataAssumption ==
  /\ {Interval, MaxHistory, Depth, MaxBlocks, MaxRows} \subseteq Nat \ {0}
  /\ {MaxCommits, MaxFaults} \subseteq Nat
  /\ None \notin Names /\ None \notin Datums /\ None \notin Nat
  /\ Pools \cap DReps = {}
  /\ Datums \subseteq [d : Nat, t : Names \cup {None}]
  /\ Entries \subseteq [Tokens -> [d : Nat \cup {None}, t : Names \cup {None}]]
  /\ Blocks \subseteq [regs : SUBSET Pools,
                      refs : Seq([token : Tokens, datum : Datums \cup {None}])]

Subjects == Pools \cup DReps
Genesis == DReps  \* subjects of the chain before the first block

\* BlockSnapshot, as far as it holds names.
Snapshots == [hash : Seq(Blocks),
              name : UNION {[subjects -> Names \cup {None}] : subjects \in SUBSET Subjects},
              decimals : [Tokens -> Nat \cup {None}],
              tickers : [Tokens -> Names \cup {None}]]

VARIABLES
  chain,     \* the chain that the server follows: a sequence of blocks
  rows,      \* off_chain_pool_data and off_chain_vote_drep_data, by id
  commits,   \* the registry's contents, by commit
  history,   \* State.history, each snapshot with the chain up to its block
  cursor,    \* pool_meta_cursor and drep_meta_cursor
  passed,    \* history: rows at or before a cursor that went into no snapshot
  lastSha,   \* last_sha of the registry's task, 0 for none
  catching,  \* catchup_target # 0
  saved,     \* snapshot.bin
  faults     \* rollbacks and restarts so far

vars == <<chain, rows, commits, history, cursor, passed, lastSha,
          catching, saved, faults>>

Now == Last(history)

-----------------------------------------------------------------------------
(* What db-sync and the registry know *)

Ids(group) == {i \in DOMAIN rows : rows[i].subject \in group}

\* max_pool_meta_id, max_drep_meta_id
MaxId(group) == Max({0} \cup Ids(group))

\* pool_ticker_updates, drep_metadata: the last of the rows of a subject after
\* a cursor, if any.
NewName(subject, since) ==
  LET new == {i \in Ids({subject}) : i > since}
  IN  IF new = {} THEN None ELSE rows[Max(new)].name

\* The subjects that a chain has: pools by registration.
Registered(blocks) == Genesis \cup UNION {b.regs : b \in ToSet(blocks)}

\* The outputs of the reference token in a chain, oldest first.
Outputs(blocks, token) ==
  Sift(FlattenSeq([i \in DOMAIN blocks |-> blocks[i].refs]),
       [token : {token}, datum : Datums \cup {None}])

\* The datum that the reference token is at, None without one or without a token.
CurrentDatum(blocks, token) ==
  LET outs == Outputs(blocks, token) IN IF outs = <<>> THEN None ELSE Last(outs).datum

Registry == Last(commits)

-----------------------------------------------------------------------------
(* A rebuild *)

\* A value, and what stands in for it: or_insert.
OwnFirst(own, listed) == IF own # None THEN own ELSE listed

\* Decimals of zero are none.
Positive(d) == IF d > 0 THEN d ELSE None

\* State::reset: names from db-sync, decimals and tickers from the datums that
\* cip68_metadata finds, then from the registry.  The chain stands for the hash
\* of its last block.
Rebuilt(blocks) ==
  LET Own(token, field) ==
        LET datum == CurrentDatum(blocks, token)
        IN  IF datum = None THEN None
            ELSE IF field = "d" THEN Positive(datum.d) ELSE datum.t
      Fill(field) == [token \in Tokens |->
                        OwnFirst(Own(token, field), Registry[token][field])]
  IN  [hash |-> blocks,
       name |-> [s \in Registered(blocks) |-> NewName(s, 0)],
       decimals |-> Fill("d"),
       tickers |-> Fill("t")]

\* Rows of subjects that a snapshot does not have.
Strangers(snap) == {i \in DOMAIN rows : rows[i].subject \notin DOMAIN snap.name}

Cursors == [pool |-> MaxId(Pools), drep |-> MaxId(DReps)]
FromStart == [pool |-> 0, drep |-> 0]

Init ==
  /\ chain = <<>> /\ rows = <<>>
  /\ commits \in {<<e>> : e \in Entries}
  /\ history = <<Rebuilt(<<>>)>>
  /\ cursor = FromStart /\ passed = {}
  /\ lastSha = 0
  /\ catching = FALSE /\ saved = Rebuilt(<<>>) /\ faults = 0

-----------------------------------------------------------------------------
(* db-sync and the registry *)

\* db-sync has fetched the metadata of a subject, which may be registered in a
\* block that the server has not applied.
AddRow(row) ==
  /\ Len(rows) < MaxRows
  /\ rows' = Append(rows, row)
  /\ UNCHANGED <<chain, commits, history, cursor, passed, lastSha,
                 catching, saved, faults>>

Commit(entries) ==
  /\ Len(commits) <= MaxCommits /\ entries # Registry
  /\ commits' = Append(commits, entries)
  /\ UNCHANGED <<chain, rows, history, cursor, passed, lastSha,
                 catching, saved, faults>>

-----------------------------------------------------------------------------
(* The sink *)

\* extract_from_tx: a reference token at an output with a datum.
Declared(block) == Sift(block.refs, [token : Tokens, datum : Datums])

\* The datum's decimals and ticker, also those that it no longer declares.
Declare(snap, ref) ==
  [snap EXCEPT !.decimals[ref.token] = Positive(ref.datum.d),
               !.tickers[ref.token] = ref.datum.t]

\* apply_block carries names over, and a pool that comes in has none.
Carried(snap, block) ==
  [snap EXCEPT !.hash = Append(@, block),
               !.name = [s \in DOMAIN snap.name \cup block.regs |->
                           IF s \in DOMAIN snap.name THEN snap.name[s] ELSE None]]

AfterBlock(snap, block) ==
  LET refs == Declared(block)
      after[i \in 0..Len(refs)] ==
        IF i = 0 THEN Carried(snap, block) ELSE Declare(after[i - 1], refs[i])
  IN  after[Len(refs)]

\* The idle refresh: rows after the cursors, for subjects the snapshot has.  A
\* query that fails leaves its kind for the next block.
Refreshed(snap, groups) ==
  [snap EXCEPT !.name = [s \in DOMAIN snap.name |->
     LET new == NewName(s, IF s \in Pools THEN cursor.pool ELSE cursor.drep)
     IN  IF s \in UNION groups /\ new # None THEN new ELSE snap.name[s]]]

\* The groups whose MAX(id) is past the cursor.
Due == {g \in {Pools, DReps} :
          MaxId(g) > IF g = Pools THEN cursor.pool ELSE cursor.drep}

Trim(h) == IF Len(h) > MaxHistory THEN Tail(h) ELSE h

\* clone_for_save: taken before the refresh.
ToSave(h) == h[Max({1, Len(h) + 1 - Depth})]

\* The block that ends the catch-up is saved, and then every so many.
Saves(height, ends) == IF catching THEN ends ELSE height % Interval = 0

\* handle_apply; the block may be the one that ends the catch-up, after which
\* the refresh begins with the next one.
Apply(block) ==
  /\ Len(chain) < MaxBlocks
  /\ block.regs \cap Registered(chain) = {}
  /\ chain' = Append(chain, block)
  /\ \E ends \in IF catching THEN BOOLEAN ELSE {FALSE},
        groups \in SUBSET (IF catching THEN {} ELSE Due) :
       LET snap == AfterBlock(Now, block)
           h == Trim(Append(history, snap))
       IN  /\ saved' = IF Saves(Len(snap.hash), ends) THEN ToSave(h) ELSE saved
           /\ history' = Front(h) \o <<Refreshed(snap, groups)>>
           /\ cursor' = [pool |-> IF Pools \in groups THEN MaxId(Pools) ELSE cursor.pool,
                         drep |-> IF DReps \in groups THEN MaxId(DReps) ELSE cursor.drep]
           /\ passed' = passed \cup {i \in Strangers(snap) : rows[i].subject \in UNION groups}
           /\ catching' = (catching /\ ~ends)
  /\ UNCHANGED <<rows, commits, lastSha, faults>>

\* Mutant: what was read stays read.
KeptCursors == cursor

\* The cursors after a rollback to a snapshot that the history has.
RolledCursors == FromStart

\* handle_reset to a snapshot in the history.
RollBack(n) ==
  /\ faults < MaxFaults /\ n < Len(chain)
  /\ faults' = faults + 1
  /\ \E i \in DOMAIN history : Len(history[i].hash) = n
  /\ chain' = SubSeq(chain, 1, n)
  /\ history' = Sift(history, {s \in ToSet(history) : Len(s.hash) <= n})
  /\ cursor' = RolledCursors /\ passed' = {}
  /\ UNCHANGED <<rows, commits, lastSha, catching, saved>>

\* handle_reset further back: a rebuild, which takes minutes.  The cursors are
\* read after the names, so a row that comes in between is passed over.
Reset(n) ==
  /\ faults < MaxFaults /\ n < Len(chain)
  /\ faults' = faults + 1
  /\ \A i \in DOMAIN history : Len(history[i].hash) > n
  /\ chain' = SubSeq(chain, 1, n)
  /\ history' = <<Rebuilt(SubSeq(chain, 1, n))>>
  /\ \E late \in {<<>>} \cup {<<[subject |-> s, name |-> m]>> : s \in Subjects, m \in Names} :
       /\ Len(rows \o late) <= MaxRows
       /\ rows' = rows \o late
       /\ passed' = Strangers(Rebuilt(SubSeq(chain, 1, n))) \cup (DOMAIN rows' \ DOMAIN rows)
  /\ cursor' = Cursors'
  /\ saved' = Rebuilt(SubSeq(chain, 1, n))
  /\ UNCHANGED <<commits, lastSha, catching>>

\* The process ends; the next one has the saved snapshot and has read nothing.
\* The node sends the blocks from there on again; it has to know the block.
Restart ==
  /\ faults < MaxFaults
  /\ faults' = faults + 1
  /\ IsPrefix(saved.hash, chain)
  /\ history' = <<saved>>
  /\ chain' = saved.hash
  /\ cursor' = FromStart /\ passed' = {} /\ lastSha' = 0
  /\ catching' \in BOOLEAN
  /\ UNCHANGED <<rows, commits, saved>>

-----------------------------------------------------------------------------
(* cip26_refresh_task *)

\* Mutant: the registry's decimals replace those that are there.
ListDecimals(own, listed) == OwnFirst(listed, own)

\* Decimals are or_insert'ed, tickers inserted.
AddDecimals(own, listed) == OwnFirst(own, listed)

\* A pass that finds another commit than the last one it knows, and downloads it.
RegistryPass ==
  /\ lastSha # Len(commits)
  /\ lastSha' = Len(commits)
  /\ history' = Front(history) \o
       <<[Now EXCEPT !.decimals = [x \in Tokens |-> AddDecimals(@[x], Registry[x].d)],
                     !.tickers = [x \in Tokens |-> OwnFirst(Registry[x].t, @[x])]]>>
  /\ UNCHANGED <<chain, rows, commits, cursor, passed, catching, saved, faults>>

Next ==
  \/ \E s \in Subjects, m \in Names : AddRow([subject |-> s, name |-> m])
  \/ \E e \in Entries : Commit(e)
  \/ \E b \in Blocks : Apply(b)
  \/ \E n \in 0..MaxBlocks : RollBack(n) \/ Reset(n)
  \/ Restart
  \/ RegistryPass

Spec == Init /\ [][Next]_vars

-----------------------------------------------------------------------------
(* Properties *)

TypeOK ==
  /\ chain \in Seq(Blocks) /\ Len(chain) <= MaxBlocks
  /\ rows \in Seq([subject : Subjects, name : Names])
  /\ commits \in Seq(Entries) /\ commits # <<>>
  /\ history \in Seq(Snapshots) /\ Len(history) \in 1..MaxHistory
  /\ saved \in Snapshots
  /\ cursor \in [pool : 0..Len(rows), drep : 0..Len(rows)]
  /\ passed \subseteq DOMAIN rows
  /\ lastSha \in 0..Len(commits) /\ catching \in BOOLEAN
  /\ faults \in 0..MaxFaults

\* A pool or DRep that the newest snapshot has shows the newest name db-sync
\* has fetched for it, once the cursor is past it, whatever was rolled back,
\* rebuilt or restarted since it was read (the idle refresh of handle_apply and
\* the cursors of handle_reset); but not if the row was passed over: it came
\* during a rebuild, or before the subject was in a snapshot.
NamesFollowDbSync ==
  /\ TypeOK
  /\ \A s \in DOMAIN Now.name :
       LET known == IF s \in Pools THEN cursor.pool ELSE cursor.drep
           ids == Ids({s})
       IN  (ids # {} /\ Max(ids) <= known /\ Max(ids) \notin passed) =>
             Now.name[s] = rows[Max(ids)].name

\* The decimals that a token's own datum declares are the ones it has; its
\* ticker is the datum's, or one the registry's task has put in its place; what
\* a datum no longer declares is gone, or what some commit of the registry
\* listed (the rebuild's "a token's own datum outranks the off-chain registry",
\* the datums of handle_apply and the task's or_insert).
DatumsOutrankRegistry ==
  \A x \in Tokens :
    LET datum == CurrentDatum(chain, x)
        Listed(field) == {None} \cup {commits[i][x][field] : i \in DOMAIN commits}
    IN  datum # None =>
          /\ Now.decimals[x] \in IF datum.d > 0 THEN {datum.d} ELSE Listed("d")
          /\ Now.tickers[x] \in {datum.t} \cup Listed("t")

\* The comment in the rebuild: a token's own datum outranks the off-chain
\* registry, for its ticker too, also after the registry's task has passed.
TickersOutrankRegistry ==
  \A x \in Tokens :
    LET datum == CurrentDatum(chain, x)
    IN  (datum # None /\ datum.t # None) => Now.tickers[x] = datum.t
=============================================================================
