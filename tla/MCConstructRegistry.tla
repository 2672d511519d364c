-------------------------- MODULE MCConstructRegistry --------------------------
(***************************************************************************)
(* ConstructRegistry with two papers and two terms.                        *)
(***************************************************************************)
EXTENDS ConstructRegistry

CONSTANTS a, b

=============================================================================
