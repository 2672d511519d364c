---------------------------- MODULE MCReviewQueue -----------------------------
(***************************************************************************)
(* ReviewQueue with a few papers and clients.                              *)
(***************************************************************************)
EXTENDS ReviewQueue, TLC

CONSTANTS p, q, c, d, r

\* Actors who give one reason, so that their ids may collide.
MCOneReason == [i \in Client |-> r]

\* Papers are alike, and so are clients who have one reason.
MCSymmetry == Permutations(Paper) \cup Permutations(Client)

=============================================================================
