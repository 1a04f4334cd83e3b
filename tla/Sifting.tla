------------------------------- MODULE Sifting -------------------------------
(***************************************************************************)
(* Selecting from a sequence and summing one, as functions of the          *)
(* sequence's length: definitions the proofs can unfold, where SelectSeq   *)
(* is not.                                                                 *)
(***************************************************************************)
EXTENDS Integers, Sequences

\* The elements of s that are in keep, in order.
Sift(s, keep) ==
  LET n == Len(s)
      sifted[i \in 0..n] ==
        IF i = 0 THEN <<>>
        ELSE IF s[i] \in keep THEN Append(sifted[i - 1], s[i]) ELSE sifted[i - 1]
  IN  sifted[n]

\* A sum, as a function of the list's length: a definition the proofs can
\* unfold, where FoldSeq is not.
SumSeq(s) ==
  LET n == Len(s)
      sum[i \in 0..n] == IF i = 0 THEN 0 ELSE sum[i - 1] + s[i]
  IN  sum[n]
=============================================================================
