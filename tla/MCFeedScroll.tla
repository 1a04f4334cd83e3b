---------------------------- MODULE MCFeedScroll ----------------------------
(***************************************************************************)
(* Instances of FeedScroll for TLC: a stake credential with payments, two  *)
(* withdrawals and a reward in a later epoch, an address, and a pool with  *)
(* blocks that have several rows, also of different lists.                 *)
(***************************************************************************)
EXTENDS FeedScroll

Block(epoch, net, wd, rows) == [epoch |-> epoch, net |-> net, wd |-> wd, rows |-> rows]

T == <<"touch">>

StakeHistory ==
  <<Block(1, 3, 0, T), Block(1, -2, 2, T), Block(1, -1, 0, T),
    Block(2, 1, 0, T), Block(2, -3, 3, T)>>

AddressHistory ==
  <<Block(1, 1, 0, T), Block(1, 1, 0, T), Block(1, 0, 0, <<>>),
    Block(1, 1, 0, T), Block(1, 1, 0, T), Block(1, 1, 0, T)>>

PoolHistory ==
  <<Block(1, 0, 0, <<"vote">>), Block(1, 0, 0, <<"deleg">>), Block(1, 0, 0, <<"block">>),
    Block(1, 0, 0, <<"deleg", "vote", "deleg">>),
    Block(1, 0, 0, <<"deleg", "block", "vote">>)>>

MCFeeds ==
  {[kind |-> "stake", history |-> StakeHistory],
   [kind |-> "address", history |-> AddressHistory],
   [kind |-> "pool", history |-> PoolHistory]}

MCRewards == <<0, 4>>
=============================================================================
