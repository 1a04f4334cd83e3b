---------------------------- MODULE MCMetadata ----------------------------
(***************************************************************************)
(* An instance of Metadata for TLC: a pool, a DRep and a token whose datum *)
(* declares decimals and a ticker, or neither; the registry lists it with  *)
(* other ones or not at all.                                               *)
(***************************************************************************)
EXTENDS Metadata

MCDatums == {[d |-> 2, t |-> "A"], [d |-> 0, t |-> None]}

MCEntries == {[x \in Tokens |-> [d |-> 3, t |-> "B"]],
              [x \in Tokens |-> [d |-> None, t |-> None]]}

MCBlock(regs, refs) == [regs |-> regs, refs |-> refs]

\* A registration; an output of the reference token with each datum, and, with
\* a registration, one without.
MCBlocks ==
  {MCBlock({"p"}, <<>>)} \cup {MCBlock({}, <<[token |-> "x", datum |-> m]>>) : m \in MCDatums}
    \cup {MCBlock({"p"}, <<[token |-> "x", datum |-> None]>>)}
=============================================================================
