----------------------------- MODULE MCInboxImport -----------------------------
(***************************************************************************)
(* InboxImport with two importers of one content, whose inbox file is at   *)
(* path 1, and one path beside it; x is a torn copy.                       *)
(***************************************************************************)
EXTENDS InboxImport

CONSTANTS a, x, u

MCPathHint == [p \in Path |-> "typed"]
MCTextHint == [c \in Content |-> "typed"]
MCInboxPath == [c \in ValidPdf |-> 1]

=============================================================================
