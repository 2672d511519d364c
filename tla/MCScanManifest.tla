---------------------------- MODULE MCScanManifest ----------------------------
(***************************************************************************)
(* ScanManifest on two paths.                                              *)
(***************************************************************************)
EXTENDS ScanManifest

CONSTANTS a, b, x, u

MCPathHint == [p \in Path |-> "unknown"]
MCTextHint == [c \in Content |-> "typed"]

=============================================================================
