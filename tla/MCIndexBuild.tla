----------------------------- MODULE MCIndexBuild -----------------------------
(***************************************************************************)
(* IndexBuild with two instances and a few contents.                       *)
(***************************************************************************)
EXTENDS IndexBuild

\* Content 1 may be classified as anything, depending on its path.
MCAnyLane == [c \in Content |-> IF c = 1 THEN Lane ELSE {"green"}]

=============================================================================
