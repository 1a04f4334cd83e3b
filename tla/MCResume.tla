------------------------------- MODULE MCResume -------------------------------
(***************************************************************************)
(* Instances of Resume for TLC.  Block "e" has no transactions.            *)
(***************************************************************************)
EXTENDS Resume

CONSTANTS a, b, e

ThreeBlocks == <<a, a, a>>
EmptySecond == <<a, e, a>>
=============================================================================
