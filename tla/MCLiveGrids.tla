---------------------------- MODULE MCLiveGrids ----------------------------
(***************************************************************************)
(* Instances of LiveGrids for TLC.  Three credentials have an address each, *)
(* the first a second one; two of them delegate to the pool P at the start. *)
(***************************************************************************)
EXTENDS LiveGrids

MCCredOf == <<1, 1, 2, 3>>

P == [kind |-> "pool", id |-> "P"]
D == [kind |-> "drep", id |-> "P"]
S == [kind |-> "stake", id |-> 1]
A == [kind |-> "address", id |-> 2]

View(view, f) == [view |-> view, f |-> f]

MCViews ==
  {View("feed", P), View("feed", D), View("feed", S), View("feed", A),
   View("delegators", P), View("assets", S), View("home", P)}

MCGenesis ==
  [bal |-> <<3, 1, 2, 4>>, reward |-> [c \in 1..3 |-> 1],
   deleg |-> <<"P", "P", "Q">>, since |-> [c \in 1..3 |-> 0],
   holds |-> {<<1, <<1, 1>>>>, <<2, <<2, 1>>>>}, epoch |-> 1]

Tx(ins, outs, wds, certs, votes) ==
  [ins |-> ins, outs |-> outs, wds |-> wds, certs |-> certs, votes |-> votes]

Minted(txs, epoch, issuer, gained, lost) ==
  [txs |-> txs, epoch |-> epoch, issuer |-> issuer, gained |-> gained, lost |-> lost]

Pay(a, b) == Tx(<<<<a, 2>>>>, <<<<b, 2>>>>, <<>>, <<>>, {})
Withdraw(a, c) == Tx(<<<<a, 1>>>>, <<<<a, 2>>>>, <<<<c, 1>>>>, <<>>, {})
Delegate(a, c, t) == Tx(<<<<a, 1>>>>, <<>>, <<>>, <<<<c, t>>>>, {})
Vote(a) == Tx(<<<<a, 1>>>>, <<<<a, 1>>>>, <<>>, <<>>, {"P"})

\* Payments, withdrawals, votes, and delegations, some paid by another account;
\* after the start of an epoch; minted by the pool.
PayBlock == Minted(<<Pay(1, 4), Withdraw(3, 2)>>, 1, "Q", {}, {})
MintedBlock == Minted(<<Pay(4, 2)>>, 1, "P", {}, {})
VoteBlock == Minted(<<Pay(4, 2), Vote(4)>>, 1, "Q", {}, {})
JoinBlock == Minted(<<Delegate(4, 3, "P")>>, 1, "Q", {}, {})
LeaveBlock == Minted(<<Delegate(1, 1, "Q")>>, 1, "Q", {}, {})
OthersBlock == Minted(<<Delegate(4, 2, "none"), Delegate(4, 3, "P"), Pay(1, 4)>>, 1, "Q", {}, {})
TwiceBlock == Minted(<<Delegate(4, 3, "P"), Delegate(4, 3, "P")>>, 1, "Q", {}, {})
EpochBlock == Minted(<<Withdraw(1, 1)>>, 2, "Q", {}, {})

\* Tokens that come and go, move between two addresses of a credential, and
\* are of one policy or of two.
Tokens(gained, lost) == Minted(<<Pay(4, 3)>>, 1, "Q", gained, lost)

MCBlocks ==
  [feed |-> {PayBlock, MintedBlock, VoteBlock, JoinBlock, LeaveBlock, TwiceBlock, EpochBlock},
   delegators |-> {JoinBlock, OthersBlock, EpochBlock},
   assets |-> {Tokens({<<2, <<1, 1>>>>}, {}), Tokens({<<1, <<2, 1>>>>}, {<<2, <<2, 1>>>>}),
               Tokens({<<1, <<2, 2>>>>}, {<<1, <<1, 1>>>>})},
   home |-> {PayBlock, JoinBlock, LeaveBlock, EpochBlock}]
=============================================================================
