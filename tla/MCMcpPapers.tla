----------------------------- MODULE MCMcpPapers ------------------------------
(***************************************************************************)
(* McpPapers, and with it IndexBuild, with two instances, two contents and *)
(* one query, which is in the title of the first and the text of the       *)
(* second.                                                                 *)
(***************************************************************************)
EXTENDS McpPapers

\* Content 1 is red wherever it is, the other is green.
MCOneLane == [c \in Content |-> IF c = 1 THEN {"red"} ELSE {"green"}]

MCTitleHits == [q \in Query |-> {1}]
MCTextHits == [q \in Query |-> {2}]

=============================================================================
