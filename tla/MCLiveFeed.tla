----------------------------- MODULE MCLiveFeed -----------------------------
(***************************************************************************)
(* Instances of LiveFeed for TLC.                                          *)
(***************************************************************************)
EXTENDS LiveFeed

CONSTANTS x, y, page
=============================================================================
