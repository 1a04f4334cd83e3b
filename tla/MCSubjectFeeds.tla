--------------------------- MODULE MCSubjectFeeds ---------------------------
(***************************************************************************)
(* Instances of SubjectFeeds for TLC: two pools, one credential, a log of  *)
(* delegations to pools.                                                   *)
(***************************************************************************)
EXTENDS SubjectFeeds

CONSTANTS p, q, c, nobody

MCKinds == {"minted", "changes", "votes"}
MCHashes == {"root", "plain", "back", "forth"}

Body(minted, changes, votes, certs) ==
  [marks |-> [k \in MCKinds |-> IF k = "minted" THEN minted
                               ELSE IF k = "changes" THEN changes ELSE votes],
   certs |-> [r \in {"pool"} |->
                [i \in DOMAIN certs |-> [cred |-> c, to |-> certs[i]]]]]

Bodies ==
  [root |-> Body({}, {}, {}, <<>>),
   plain |-> Body({p}, {}, {}, <<>>),
   back |-> Body({p}, {q}, {q}, <<q, p>>),
   forth |-> Body({q}, {}, {}, <<nobody, q>>)]

MCMarks == [h \in MCHashes |-> Bodies[h].marks]
MCCerts == [h \in MCHashes |-> Bodies[h].certs]
=============================================================================
