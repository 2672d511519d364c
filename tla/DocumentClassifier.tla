-------------------------- MODULE DocumentClassifier --------------------------
(***************************************************************************)
(* First-pass classification of a scanned PDF (classification.py), as the  *)
(* scan calls it: no document traits, no local LLM.  A path is known by    *)
(* the token classes its name contains, a content by those its first 1200  *)
(* characters of text contain.                                             *)
(***************************************************************************)
EXTENDS VaultLanes

CONSTANTS
  Path,              \* relative PDF paths under the storage roots
  Content,           \* file contents, which are also the SHA-256 values
  RestrictedPath,    \* paths with a token of RESTRICTED_PATH_TOKENS
  AmberPath,         \* paths with a token of AMBER_PATH_TOKENS
  SensitiveContent,  \* contents with a token of SENSITIVE_TEXT_TOKENS
  PathHint,          \* what the path says of the document type
  TextHint           \* what the text says of the document type

(* "presentation": names a deck; "typed": names a report or an article.    *)
Hint == {"presentation", "typed", "unknown"}

ASSUME ClassifierAssumption ==
  /\ RestrictedPath \subseteq Path
  /\ AmberPath \subseteq Path
  /\ SensitiveContent \subseteq Content
  /\ PathHint \in [Path -> Hint]
  /\ TextHint \in [Content -> Hint]

(* The hint is looked for in the path and the excerpt joined together, and *)
(* a word that names a presentation wins over one that names an article.   *)
TypeHint(p, c) ==
  LET found == {PathHint[p], TextHint[c]}
  IN IF "presentation" \in found THEN "presentation"
     ELSE IF "typed" \in found THEN "typed" ELSE "unknown"

IsRed(p, c) == p \in RestrictedPath \/ c \in SensitiveContent

IsAmber(p, c) == p \in AmberPath \/ TypeHint(p, c) # "typed"

ClassifyDocument(p, c) ==
  IF IsRed(p, c) THEN "red"
  ELSE IF IsAmber(p, c) THEN "amber" ELSE "green"

=============================================================================
