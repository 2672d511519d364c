------------------------------- MODULE McpPapers ------------------------------
(***************************************************************************)
(* The MCP tools get_paper and search_papers, beside index builds, scans   *)
(* and reviews.  A request opens the manifest read-only and no             *)
(* transaction: the rows of the papers, with their lanes, are one          *)
(* snapshot, and the passages of each paper are another, taken when its    *)
(* turn comes.                                                             *)
(*                                                                         *)
(* Titles and texts are known by the queries they contain.  Instances,     *)
(* review item and artifact rows, which get_paper adds with one SELECT     *)
(* each, hold no text and are left out.                                    *)
(***************************************************************************)
EXTENDS IndexBuild, FiniteSets

CONSTANTS
  Query,      \* search strings
  TitleHits,  \* the papers whose title or identifiers contain a query
  TextHits,   \* the contents with a passage that contains a query
  MaxLimit    \* the largest limit a search may pass

ASSUME McpAssumption ==
  /\ IsFiniteSet(Content)
  /\ TitleHits \in [Query -> SUBSET Content]
  /\ TextHits \in [Query -> SUBSET (Content \ NoText)]
  /\ MaxLimit \in Nat \ {0}

(* rows: the papers still to be answered, with the lane that was read.     *)
(* red is a history field: those that were red ever since.                 *)
Rows == UNION {[S -> Lane] : S \in SUBSET Content}

IdleReader == [phase |-> "idle"]

ReaderState ==
  [phase : {"idle"}]
  \cup [phase : {"get_paper"}, rows : Rows, red : SUBSET Content]
  \cup [phase : {"search_papers"}, rows : Rows, query : Query, red : SUBSET Content]

VARIABLE reader

mcpVars == <<vars, reader>>

McpTypeOK == TypeOK /\ reader \in ReaderState

-----------------------------------------------------------------------------
(* Mutant of MetadataOnly: quarantine is looked for in the artifact row.   *)
QuarantinedOnly(p, l) ==
  index.artifact[p] # None /\ index.artifact[p].stage = "quarantined"

MetadataOnly(p, l) == l = "red"

(* Passages that the request may show of paper p, by the lane it has read. *)
PassagesFor(p, l) ==
  IF MetadataOnly(p, l) \/ index.chunks[p] = None THEN None
    ELSE index.chunks[p].text

SnippetsFor(p, l, q) ==
  IF PassagesFor(p, l) \in TextHits[q] THEN PassagesFor(p, l) ELSE None

(* The WHERE of the search: the title of any paper, the passages of all    *)
(* but the red ones.                                                       *)
Matches(q, p) ==
  /\ lane[p] # None
  /\ \/ p \in TitleHits[q]
     \/ /\ lane[p] # "red"
        /\ index.chunks[p] # None /\ index.chunks[p].text \in TextHits[q]

(* ORDER BY p.paper_id LIMIT limit                                         *)
SearchRows(q, limit) ==
  LET hits == {p \in Content : Matches(q, p)}
      first == {p \in hits : Cardinality({r \in hits : r < p}) < limit}
  IN [p \in first |-> lane[p]]

-----------------------------------------------------------------------------
Red(S) == {p \in S : lane[p] = "red"}

(* A paper without a row is answered at once ("missing").                  *)
GetPaperRow(p) ==
  /\ reader.phase = "idle"
  /\ lane[p] # None
  /\ reader' = [phase |-> "get_paper", rows |-> [r \in {p} |-> lane[r]],
                red |-> Red({p})]
  /\ UNCHANGED vars

SearchSelect(q, limit) ==
  /\ reader.phase = "idle"
  /\ LET rows == SearchRows(q, limit)
     IN reader' = [phase |-> "search_papers", rows |-> rows, query |-> q,
                   red |-> Red(DOMAIN rows)]
  /\ UNCHANGED vars

Answered(p) ==
  reader' = [reader EXCEPT !.rows = [r \in (DOMAIN @) \ {p} |-> @[r]],
                           !.red = @ \ {p}]

GetPassages(p) ==
  /\ reader.phase = "get_paper" /\ p \in DOMAIN reader.rows
  /\ reader' = IdleReader
  /\ UNCHANGED vars

GetSnippets(p) ==
  /\ reader.phase = "search_papers" /\ p \in DOMAIN reader.rows
  /\ \A r \in DOMAIN reader.rows : p <= r
  /\ Answered(p)
  /\ UNCHANGED vars

SearchReturn ==
  /\ reader.phase = "search_papers" /\ DOMAIN reader.rows = {}
  /\ reader' = IdleReader
  /\ UNCHANGED vars

(* Everyone else goes on meanwhile.                                        *)
Meanwhile ==
  /\ Next
  /\ reader' = IF reader.phase = "idle" THEN reader
                 ELSE [reader EXCEPT !.red = {p \in @ : lane'[p] = "red"}]

McpInit == Init /\ reader = IdleReader

McpStep ==
  \/ SearchReturn
  \/ \E p \in Content : GetPaperRow(p) \/ GetPassages(p) \/ GetSnippets(p)
  \/ \E q \in Query, limit \in 1..MaxLimit : SearchSelect(q, limit)

McpNext == McpStep \/ Meanwhile

McpSpec == McpInit /\ [][McpNext]_mcpVars

(* Scans and builds as in IndexBuild; nobody has to ask anything.          *)
FairMcpSpec ==
  /\ McpSpec
  /\ WF_vars(IndexStep)
  /\ \A i \in Instance : SF_vars(ScanStep(i))

-----------------------------------------------------------------------------
(* The text a request shows of paper p in this step.                       *)
Shown(p) ==
  IF reader.phase = "get_paper" THEN PassagesFor(p, reader.rows[p])
    ELSE SnippetsFor(p, reader.rows[p], reader.query)

Answers(p) == GetPassages(p) \/ GetSnippets(p)

(* docs/mcp-tools.md:5, "Requests for Red full text return quarantine      *)
(* status and no passage text": no request shows text of a paper that was  *)
(* red from its beginning to its end, although builds keep the passages    *)
(* of a red paper that has lost its files, and although lane and passages  *)
(* are read one after the other.                                           *)
RedTextStaysHidden ==
  [][\A p \in Content : (Answers(p) /\ p \in reader.red) => Shown(p) = None]_mcpVars

(* When files and reviewers have come to rest, what a request shows of a   *)
(* paper that has an available instance is from some time on its own text, *)
(* which get_paper gives if it is green and has one, or else nothing.      *)
RightAnswer(p) ==
  /\ Shown(p) \in {None, p}
  /\ reader.phase = "get_paper" =>
       (Shown(p) # None <=> lane[p] = "green" /\ p \notin NoText)

RepliesConverge ==
  <>[][\A p \in Content : (Answers(p) /\ InstancesOf(p) # {}) => RightAnswer(p)]_mcpVars

(* Nor does a search then miss or invent one: unless it is cut off at its  *)
(* limit, it has found, of the papers that have an available instance,     *)
(* those whose title matches and the green ones whose own text does, and   *)
(* no passage that an earlier build had stored counts any more.            *)
Findable(q, p) ==
  p \in TitleHits[q] \/ (lane[p] = "green" /\ p \in TextHits[q])

SearchesConverge ==
  <>[][\A q \in Query, limit \in 1..MaxLimit :
        (SearchSelect(q, limit) /\ Cardinality(DOMAIN reader'.rows) < limit) =>
          \A p \in Content : InstancesOf(p) # {} =>
            (p \in DOMAIN reader'.rows <=> Findable(q, p))]_mcpVars

=============================================================================
