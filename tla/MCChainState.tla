---------------------------- MODULE MCChainState ----------------------------
(***************************************************************************)
(* Instances of ChainState for TLC.                                        *)
(***************************************************************************)
EXTENDS ChainState

CONSTANTS a1, a2, b1, e1,      \* addresses: two of k1, one of k2, an enterprise
          k1, k2, none,        \* credentials
          tok, hdl, sub,       \* a fungible token, a handle, a virtual handle
          p1, p2, d1,          \* pools, a DRep
          t0, t1, t2, t3, t4, t5, t6, t7

MCCredOf == (a1 :> k1) @@ (a2 :> k1) @@ (b1 :> k2) @@ (e1 :> none)

NoAssets == [x \in Assets |-> 0]
Coin(a, n) == [addr |-> a, ada |-> n, assets |-> NoAssets, datum |-> Nobody]
With(out, x, n) == [out EXCEPT !.assets[x] = n]
Named(out, a) == [out EXCEPT !.datum = a]

NoWdrl == [k \in Creds |-> 0]
Deleg(k, p) == [cred |-> k, to |-> ("pool" :> p) @@ ("drep" :> Unchanged)]
Vote(k, d) == [cred |-> k, to |-> ("pool" :> Unchanged) @@ ("drep" :> d)]
Unreg(k) == [cred |-> k, to |-> ("pool" :> Nobody) @@ ("drep" :> Nobody)]
Reg(p) == [pool |-> p, retiring |-> 0]
Retire(p, e) == [pool |-> p, retiring |-> e]

Pay(ins, outs) ==
  [valid |-> TRUE, ins |-> ins, outs |-> outs, coll |-> <<>>, coll_ret |-> <<>>,
   certs |-> <<>>, pool_certs |-> <<>>, withdrawals |-> NoWdrl]

MCEarned == (k1 :> <<2, 1>>) @@ (k2 :> <<2>>)

\* t0 starts the chain: three payments, a handle, both pools, a delegation.
\* t1 mints the token and moves k1 to p2.  t2 can spend t1 in its block, mints
\* the token again and ends k1's registration.  t3 moves the handle and mints
\* its sub-handle; t4 burns the handle and delegates k1 anew.  The script of t5
\* fails.  t6 withdraws k2's reward, retires p1 and moves k2's money to itself;
\* t7 registers p1 again and re-delegates k2 to where it is.
MCBody ==
  (t0 :> [Pay(<<>>, <<Coin(a1, 9), Coin(b1, 9), With(Coin(a2, 2), hdl, 1)>>)
            EXCEPT !.certs = <<Deleg(k1, p1), Deleg(k2, p1), Vote(k1, d1)>>,
                   !.pool_certs = <<Reg(p1), Reg(p2)>>]) @@
  (t1 :> [Pay(<<<<t0, 1>>>>, <<With(Coin(a2, 4), tok, 2), Coin(b1, 4)>>)
            EXCEPT !.certs = <<Deleg(k1, p2)>>]) @@
  (t2 :> [Pay(<<<<t1, 1>>>>, <<With(Coin(a2, 1), tok, 1), With(Coin(e1, 2), tok, 2)>>)
            EXCEPT !.certs = <<Unreg(k1)>>]) @@
  (t3 :> Pay(<<<<t0, 3>>>>, <<Named(With(With(Coin(b1, 1), hdl, 1), sub, 1), a1)>>)) @@
  (t4 :> [Pay(<<<<t3, 1>>>>, <<Named(With(Coin(a1, 1), sub, 1), b1)>>)
            EXCEPT !.certs = <<Deleg(k1, p1), Vote(k2, d1)>>]) @@
  (t5 :> [valid |-> FALSE, ins |-> <<<<t0, 1>>>>, outs |-> <<Coin(e1, 8)>>,
          coll |-> <<<<t0, 2>>>>, coll_ret |-> <<Coin(b1, 7)>>,
          certs |-> <<Deleg(k2, p2)>>, pool_certs |-> <<Retire(p2, 3)>>,
          withdrawals |-> NoWdrl]) @@
  (t6 :> [Pay(<<<<t0, 2>>>>, <<Coin(b1, 8)>>)
            EXCEPT !.withdrawals[k2] = 2, !.pool_certs = <<Retire(p1, 3)>>]) @@
  (t7 :> [Pay(<<<<t6, 1>>>>, <<Coin(e1, 7)>>)
            EXCEPT !.certs = <<Deleg(k2, p1)>>, !.pool_certs = <<Reg(p1)>>])

MCGenesis == <<[slot |-> 1, txs |-> <<t0>>, issuer |-> p1]>>
=============================================================================
