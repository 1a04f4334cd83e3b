---------------------------- MODULE SubjectFilter ----------------------------
(***************************************************************************)
(* What of a block belongs to a subject's page, and what it changes there  *)
(* (filter.rs).  A subject is a record of a kind and an id: a stake pool or *)
(* a DRep, a stake credential, or a payment address.                       *)
(*                                                                         *)
(* A transaction is a record                                               *)
(*   ins, outs  what it spends and makes: sequences of <<address, amount>> *)
(*   wds        rewards it withdraws: a sequence of <<credential, amount>> *)
(*   certs      delegations: records of a credential, the target it leaves *)
(*              and the one it joins, and its stake before the block       *)
(*   votes      who votes in it                                            *)
(* and a snapshot has, for credentials, the stake (rewards included) and   *)
(* the target of the delegation, of the subject's kind.                    *)
(***************************************************************************)
EXTENDS Integers, SequencesExt, FiniteSetsExt, Sifting

CONSTANTS
  Creds,    \* stake credentials, as numbers
  CredOf,   \* CredOf[a]: the credential that address a, a number, delegates with, or 0
  Targets,  \* pools or DReps
  NoTarget

ASSUME FilterAssumption ==
  /\ Creds \subseteq Nat \ {0} /\ IsFiniteSet(Creds)
  /\ CredOf \in Seq(Creds \cup {0})
  /\ NoTarget \notin Targets

Delegates(f) == f.kind \in {"pool", "drep"}

\* What a list moves to or from some of its addresses or credentials.
Amounts(moves, own) ==
  SumSeq([i \in DOMAIN moves |-> IF moves[i][1] \in own THEN moves[i][2] ELSE 0])

\* current_delegators
Members(f, snap) ==
  CASE Delegates(f) -> {c \in Creds : snap.deleg[c] = f.id}
    [] f.kind = "stake" -> {f.id}
    [] f.kind = "address" -> {}

\* extract_stake_credentials: whoever's money a transaction moves, not those
\* whose delegation it changes.
StakeCredentials(tx) ==
  ({CredOf[m[1]] : m \in ToSet(tx.ins) \cup ToSet(tx.outs)}
     \cup {m[1] : m \in ToSet(tx.wds)}) \ {0}

MatchesVote(f, tx) == Delegates(f) /\ f.id \in tx.votes

MatchesTx(f, tx, members) ==
  IF f.kind = "address"
  THEN \E m \in ToSet(tx.ins) \cup ToSet(tx.outs) : m[1] = f.id
  ELSE StakeCredentials(tx) \cap members # {} \/ MatchesVote(f, tx)

MatchesBlock(f, block) == f.kind = "pool" /\ block.issuer = f.id

\* What moves to the credentials of a set, net.
Moved(tx, creds) ==
  LET own == {a \in DOMAIN CredOf : CredOf[a] \in creds}
  IN  Amounts(tx.outs, own) - Amounts(tx.ins, own) - Amounts(tx.wds, creds)

\* What the delegations of a transaction bring to a target, and take from it.
Joined(f, tx) ==
  LET Brings(d) == IF d.to = f.id /\ d.from # f.id THEN d.stake
                   ELSE IF d.from = f.id /\ d.to # f.id THEN -d.stake ELSE 0
  IN  IF ~Delegates(f) THEN 0
      ELSE SumSeq([i \in DOMAIN tx.certs |-> Brings(tx.certs[i])])

\* Mutant: withdrawals are left out.
StakeChangeOfMoney(f, tx, members) ==
  IF f.kind = "address" THEN 0 ELSE Moved([tx EXCEPT !.wds = <<>>], members) + Joined(f, tx)

\* apply_stake_change: the net change that a transaction is shown with.
StakeChange(f, tx, members) ==
  IF f.kind = "address"
  THEN Amounts(tx.outs, {f.id}) - Amounts(tx.ins, {f.id})
  ELSE Moved(tx, members) + Joined(f, tx)

\* filter_event on a block: its transactions with their changes.  A block that
\* the pool minted is shown as it is, whole and without changes.
FilterBlock(f, block, members) ==
  IF MatchesBlock(f, block)
  THEN [i \in DOMAIN block.txs |-> 0]
  ELSE [i \in {j \in DOMAIN block.txs : MatchesTx(f, block.txs[j], members)} |->
          StakeChange(f, block.txs[i], members)]

Abs(n) == IF n < 0 THEN -n ELSE n

\* What a transaction adds to a target: each move counts by the delegation of
\* the credential it is of.
Added(target, tx, snap) ==
  LET add(cred, amt) == IF cred # 0 /\ snap.deleg[cred] = target THEN amt ELSE 0
  IN  SumSeq([i \in DOMAIN tx.outs |-> add(CredOf[tx.outs[i][1]], tx.outs[i][2])])
        - SumSeq([i \in DOMAIN tx.ins |-> add(CredOf[tx.ins[i][1]], tx.ins[i][2])])
        - SumSeq([i \in DOMAIN tx.wds |-> add(tx.wds[i][1], tx.wds[i][2])])

\* Mutant: a withdrawal is not taken for a move of stake.
MagnitudeOfMoves(target, block, snap) ==
  Max({0} \cup {Abs(Added(target, [tx EXCEPT !.wds = <<>>], snap)) : tx \in ToSet(block.txs)})

\* block_stake_change_magnitudes: the largest change of a target's stake by a
\* transaction of a block, with the delegations before the block.
Magnitude(target, block, snap) ==
  Max({0} \cup {Abs(Added(target, tx, snap)) : tx \in ToSet(block.txs)})
=============================================================================
