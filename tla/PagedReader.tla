----------------------------- MODULE PagedReader -----------------------------
(***************************************************************************)
(* What paging promises a reader, whatever a page is cut from and however  *)
(* its place is written down: a page takes the newest of what is still to  *)
(* be read and leaves no newer entry behind, and the reader is told to     *)
(* stop only when nothing is left.                                         *)
(***************************************************************************)
EXTENDS Naturals, FiniteSets

CONSTANTS
  Entries,      \* what can be read
  Newer(_, _),  \* the order of the pages
  Limit         \* the most entries a page takes

VARIABLES
  open,    \* the reader has a place to read from
  unread,  \* the entries the next pages will take
  done     \* the reader has been told that there is nothing more

pvars == <<open, unread, done>>

Init == open = FALSE /\ unread = {} /\ done = FALSE

Open == ~open /\ open' = TRUE /\ unread' \in SUBSET Entries /\ done' = FALSE

Close == open' = FALSE /\ unread' = {} /\ done' = FALSE

\* The newest of a set: nothing that stays is newer than what goes.
AreNewest(page, rest) ==
  Cardinality(page) <= Limit /\ \A f \in page, e \in rest : Newer(f, e)

\* A page is read.  It may be short, but it is the newest of the unread.
Read ==
  /\ open
  /\ open' = open
  /\ unread' \subseteq unread /\ AreNewest(unread \ unread', unread')
  /\ done' \in BOOLEAN
  /\ done' => unread' = {}

\* The reader goes back, or the source gains entries ahead of the reader.
Refill ==
  /\ open
  /\ open' = open
  /\ unread \subseteq unread' /\ unread' \subseteq Entries
  /\ done' = FALSE

\* Nothing of a page could be had, and the reader loses its place.
GiveUp == open /\ open' = open /\ unread' = {} /\ done' = FALSE

Next == Open \/ Close \/ Read \/ Refill \/ GiveUp

Spec == Init /\ [][Next]_pvars
=============================================================================
