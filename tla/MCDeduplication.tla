---------------------------- MODULE MCDeduplication ----------------------------
(***************************************************************************)
(* Deduplication of a few candidates with a few keys: two kinds that can   *)
(* contradict a match, and one that cannot.                                *)
(***************************************************************************)
EXTENDS Deduplication

CONSTANTS p, q

MCKey ==
  [kind : {"doi", "isbn"}, value : {1, 2}] \cup {[kind |-> "citation", value |-> 1]}

\* A stored paper is unknown, or known by its citation or by a DOI.
MCStoredKeys ==
  {{}, {[kind |-> "citation", value |-> 1]}, {[kind |-> "doi", value |-> 1]}}

=============================================================================
