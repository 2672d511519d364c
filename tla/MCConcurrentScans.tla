--------------------------- MODULE MCConcurrentScans ---------------------------
(***************************************************************************)
(* ConcurrentScans with two scanners on two paths.                         *)
(***************************************************************************)
EXTENDS ConcurrentScans

CONSTANTS a, b

MCPathHint == [p \in Path |-> "typed"]
MCTextHint == [c \in Content |-> "typed"]

=============================================================================
