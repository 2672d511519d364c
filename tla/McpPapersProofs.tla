---------------------------- MODULE McpPapersProofs ---------------------------
(***************************************************************************)
(* What the MCP tools show of red papers, whatever happens between their   *)
(* reads, and of any paper once the index has settled, for every set of    *)
(* contents, instances and queries.                                        *)
(***************************************************************************)
EXTENDS McpPapers, IndexBuildProofs, FiniteSetTheorems, WellFoundedInduction

(* What RedTextStaysHidden rests on: the lane that was read of a paper     *)
(* that has been red ever since is red.                                    *)
RedIsRead ==
  reader.phase # "idle" =>
    /\ reader.red \subseteq DOMAIN reader.rows
    /\ \A p \in reader.red : reader.rows[p] = "red"

McpInv == McpTypeOK /\ RedIsRead

-----------------------------------------------------------------------------
(* The rows of a search are papers that a scan has registered.             *)
LEMMA SearchRowsType ==
  ASSUME TypeOK, NEW q \in Query, NEW limit
  PROVE  SearchRows(q, limit) \in Rows
<1> DEFINE hits == {p \in Content : Matches(q, p)}
           first == {p \in hits : Cardinality({r \in hits : r < p}) < limit}
<1>1. first \subseteq Content /\ \A p \in first : lane[p] \in Lane
  BY DEF Matches, TypeOK
<1> HIDE DEF hits
<1>2. [p \in first |-> lane[p]] \in [first -> Lane]
  BY <1>1
<1>3. [first -> Lane] \subseteq Rows
  BY <1>1 DEF Rows
<1> QED
  BY <1>2, <1>3 DEF SearchRows, hits

(* Rows that were answered leave rows.                                     *)
LEMMA FewerRows ==
  ASSUME NEW rows \in Rows, NEW p
  PROVE  [r \in (DOMAIN rows) \ {p} |-> rows[r]] \in Rows
<1>1. PICK S \in SUBSET Content : rows \in [S -> Lane]
  BY DEF Rows
<1>2. [r \in S \ {p} |-> rows[r]] \in [S \ {p} -> Lane]
  BY <1>1
<1>3. [S \ {p} -> Lane] \subseteq Rows
  BY DEF Rows
<1> QED
  BY <1>1, <1>2, <1>3

(* The steps of a request keep the invariant.                              *)
LEMMA McpStepKeeps ==
  ASSUME McpInv, McpStep
  PROVE  McpInv'
<1> USE DEF McpInv, McpTypeOK
<1>1. UNCHANGED vars => TypeOK'
  BY DEF vars, TypeOK
<1>2. ASSUME reader' = IdleReader PROVE reader' \in ReaderState /\ RedIsRead'
  BY <1>2 DEF IdleReader, ReaderState, RedIsRead
<1>3. ASSUME NEW p \in Content, GetPaperRow(p) PROVE McpInv'
  <2> DEFINE rows == [r \in {p} |-> lane[r]]
  <2>1. /\ UNCHANGED vars
        /\ reader' = [phase |-> "get_paper", rows |-> rows, red |-> Red({p})]
        /\ lane[p] \in Lane
    BY <1>3 DEF GetPaperRow, TypeOK
  <2>2. rows \in [{p} -> Lane] /\ [{p} -> Lane] \subseteq Rows
    BY <2>1 DEF Rows
  <2>3. reader' \in ReaderState
    BY <2>1, <2>2 DEF ReaderState, Red
  <2>4. RedIsRead'
    BY <2>1 DEF RedIsRead, Red
  <2> QED
    BY <1>1, <2>1, <2>3, <2>4
<1>4. ASSUME NEW q \in Query, NEW limit, SearchSelect(q, limit) PROVE McpInv'
  <2> DEFINE rows == SearchRows(q, limit)
  <2>1. /\ UNCHANGED vars
        /\ reader' = [phase |-> "search_papers", rows |-> rows, query |-> q,
                      red |-> Red(DOMAIN rows)]
    BY <1>4 DEF SearchSelect
  <2>2. rows \in Rows
    BY SearchRowsType
  <2>3. reader' \in ReaderState
    BY <2>1, <2>2 DEF ReaderState, Red, Rows
  <2>4. \A p \in DOMAIN rows : rows[p] = lane[p]
    BY DEF SearchRows
  <2>5. RedIsRead'
    <3> HIDE DEF rows
    <3> QED
      BY <2>1, <2>4 DEF RedIsRead, Red
  <2> QED
    BY <1>1, <2>1, <2>3, <2>5
<1>5. ASSUME NEW p \in Content, GetSnippets(p) PROVE McpInv'
  <2> DEFINE rows == [r \in (DOMAIN reader.rows) \ {p} |-> reader.rows[r]]
  <2>1. /\ UNCHANGED vars
        /\ reader.phase = "search_papers"
        /\ reader' = [reader EXCEPT !.rows = rows, !.red = reader.red \ {p}]
    BY <1>5 DEF GetSnippets, Answered
  <2>2. /\ reader.rows \in Rows /\ reader.query \in Query
        /\ reader.red \subseteq Content
        /\ reader' = [phase |-> "search_papers", rows |-> rows,
                      query |-> reader.query, red |-> reader.red \ {p}]
    BY <2>1 DEF ReaderState
  <2>3. rows \in Rows
    BY <2>2, FewerRows
  <2>4. reader' \in ReaderState
    BY <2>2, <2>3 DEF ReaderState
  <2>5. RedIsRead'
    <3>1. /\ reader.red \subseteq DOMAIN reader.rows
          /\ \A r \in reader.red : reader.rows[r] = "red"
      BY <2>1 DEF RedIsRead
    <3>2. /\ DOMAIN rows = (DOMAIN reader.rows) \ {p}
          /\ \A r \in DOMAIN rows : rows[r] = reader.rows[r]
      OBVIOUS
    <3>3. reader'.rows = rows /\ reader'.red = reader.red \ {p}
      BY <2>2
    <3> HIDE DEF rows
    <3> QED
      BY <3>1, <3>2, <3>3 DEF RedIsRead
  <2> QED
    BY <1>1, <2>1, <2>4, <2>5
<1> QED
  BY <1>1, <1>2, <1>3, <1>4, <1>5 DEF McpStep, SearchReturn, GetPassages

(* What happens to the vault meanwhile only makes fewer papers red.        *)
LEMMA MeanwhileKeeps ==
  ASSUME McpInv, Meanwhile, TypeOK'
  PROVE  McpInv'
<1> DEFINE still == {p \in reader.red : lane'[p] = "red"}
<1>1. CASE reader.phase = "idle"
  BY <1>1 DEF Meanwhile, McpInv, McpTypeOK, RedIsRead
<1>2. CASE reader.phase # "idle"
  <2>1. reader' = [reader EXCEPT !.red = still] /\ reader \in ReaderState
    BY <1>2 DEF Meanwhile, McpInv, McpTypeOK
  <2>2. still \subseteq reader.red /\ still \subseteq Content
    BY <1>2, <2>1 DEF ReaderState
  <2> HIDE DEF still
  <2>3. /\ reader' \in ReaderState /\ reader'.rows = reader.rows /\ reader'.red = still
        /\ reader'.phase = reader.phase
    BY <1>2, <2>1, <2>2 DEF ReaderState
  <2>4. RedIsRead'
    BY <1>2, <2>2, <2>3 DEF McpInv, RedIsRead
  <2> QED
    BY <2>3, <2>4 DEF McpInv, McpTypeOK
<1> QED
  BY <1>1, <1>2

-----------------------------------------------------------------------------
(* Requests change nothing in the vault: composed with them, index builds, *)
(* scans and reviews behave as IndexBuild says.                            *)
THEOREM McpImplementsIndexBuild == McpSpec => Spec
<1>1. McpInit => Init
  BY DEF McpInit
<1>2. [McpNext]_mcpVars => [Next]_vars
  BY DEF McpNext, McpStep, Meanwhile, mcpVars, SearchReturn, GetPaperRow, GetPassages,
         GetSnippets, SearchSelect
<1> QED
  BY <1>1, <1>2, PTL DEF McpSpec, Spec

(* The inductive invariant of the requests.                                *)
THEOREM McpInductive == McpSpec => []McpInv
<1>1. McpInit /\ TypeOK => McpInv
  BY DEF McpInit, McpInv, McpTypeOK, RedIsRead, IdleReader, ReaderState
<1>2. McpInv /\ TypeOK' /\ [McpNext]_mcpVars => McpInv'
  <2> SUFFICES ASSUME McpInv, TypeOK', [McpNext]_mcpVars PROVE McpInv'
    OBVIOUS
  <2>1. CASE UNCHANGED mcpVars
    BY <2>1 DEF mcpVars, McpInv, McpTypeOK, RedIsRead
  <2> QED
    BY <2>1, McpStepKeeps, MeanwhileKeeps DEF McpNext
<1> QED
  BY <1>1, <1>2, McpImplementsIndexBuild, IndexTypeCorrect, PTL DEF McpSpec

(* The tables and the request under way are well-typed.                    *)
THEOREM McpTypeCorrect == McpSpec => []McpTypeOK
<1>1. McpInv => McpTypeOK
  BY DEF McpInv
<1> QED
  BY McpInductive, <1>1, PTL

(* No request shows text of a paper that is red while it runs.             *)
THEOREM McpRedTextStaysHidden == McpSpec => RedTextStaysHidden
<1>1. McpInv /\ [McpNext]_mcpVars =>
        [\A p \in Content : (Answers(p) /\ p \in reader.red) => Shown(p) = None]_mcpVars
  <2> SUFFICES ASSUME McpInv, NEW p \in Content, Answers(p), p \in reader.red
               PROVE  Shown(p) = None
    OBVIOUS
  <2>1. /\ reader.phase # "idle" /\ p \in DOMAIN reader.rows
        /\ reader.phase \in {"get_paper", "search_papers"}
    BY DEF Answers, GetPassages, GetSnippets
  <2>2. PassagesFor(p, reader.rows[p]) = None
    BY <2>1 DEF McpInv, RedIsRead, PassagesFor, MetadataOnly
  <2> QED
    BY <2>1, <2>2 DEF Shown, SnippetsFor
<1> QED
  BY McpInductive, <1>1, PTL DEF McpSpec, RedTextStaysHidden

-----------------------------------------------------------------------------
(* What RepliesConverge rests on: once the index has settled and lanes     *)
(* stay as they are, the lanes that a request has read are those of now.   *)
RepliesAtRest ==
  /\ IndexAtRest
  /\ reader.phase # "idle" => \A p \in DOMAIN reader.rows : reader.rows[p] = lane[p]

(* A settled index has the passages of a paper that is green and has text, *)
(* and they are its own.                                                   *)
LEMMA SettledChunks ==
  ASSUME IndexAtRest, NEW p \in Content, InstancesOf(p) # {}
  PROVE  /\ index.chunks[p] # None => index.chunks[p].text = p
         /\ index.chunks[p] # None <=> lane[p] = "green" /\ p \notin NoText
<1>1. LET last == LastInstanceOf(p)
      IN last \in Instance /\ last \notin unrooted /\ file[last] = p
  BY IndexAssumption DEF IndexAtRest, AsScanned, InstancesOf
<1>2. index.chunks[p] = IF lane[p] = "green" /\ p \notin NoText
                          THEN [instance |-> LastInstanceOf(p), text |-> p] ELSE None
  BY <1>1 DEF IndexAtRest, IndexSettled, IndexedRight
<1>3. p \notin NoText => [instance |-> LastInstanceOf(p), text |-> p] \in Chunks
  BY <1>1 DEF Chunks
<1> QED
  BY <1>2, <1>3, IndexAssumption

(* A passage that is shown of a paper in a settled index is its own, and   *)
(* get_paper shows it if the paper is green and has text.                  *)
LEMMA SettledAnswersAreRight ==
  ASSUME RepliesAtRest, NEW p \in Content, Answers(p), InstancesOf(p) # {}
  PROVE  RightAnswer(p)
<1>1. /\ reader.phase \in {"get_paper", "search_papers"}
      /\ reader.rows[p] = lane[p]
  BY DEF Answers, GetPassages, GetSnippets, RepliesAtRest
<1>2. /\ index.chunks[p] # None => index.chunks[p].text = p
      /\ index.chunks[p] # None <=> lane[p] = "green" /\ p \notin NoText
  BY SettledChunks DEF RepliesAtRest
<1>3. /\ PassagesFor(p, lane[p]) \in {None, p}
      /\ PassagesFor(p, lane[p]) # None <=> lane[p] = "green" /\ p \notin NoText
  BY <1>2, IndexAssumption DEF PassagesFor, MetadataOnly
<1> QED
  BY <1>1, <1>3 DEF RightAnswer, Shown, SnippetsFor

(* Requests read the lanes of now.                                         *)
LEMMA RequestsKeepRest ==
  ASSUME McpInv, RepliesAtRest, McpStep
  PROVE  RepliesAtRest'
<1>1. UNCHANGED vars
  BY DEF McpStep, SearchReturn, GetPaperRow, GetPassages, GetSnippets, SearchSelect
<1>2. \A p \in Content : InstancesOf(p)' = InstancesOf(p)
  BY <1>1 DEF vars, InstancesOf
<1>3. \A p \in Content : LastInstanceOf(p)' = LastInstanceOf(p)
  BY <1>2 DEF LastInstanceOf
<1>4. IndexAtRest'
  BY <1>1, <1>2, <1>3 DEF vars, RepliesAtRest, IndexAtRest, AsScanned, IndexSettled,
                          IndexedRight
<1>5. lane' = lane
  BY <1>1 DEF vars
<1>6. ASSUME reader' = IdleReader PROVE reader'.phase = "idle"
  BY <1>6 DEF IdleReader
<1>7. ASSUME NEW p \in Content, GetPaperRow(p)
      PROVE  \A r \in DOMAIN reader'.rows : reader'.rows[r] = lane[r]
  BY <1>7 DEF GetPaperRow
<1>8. ASSUME NEW q, NEW limit, SearchSelect(q, limit)
      PROVE  \A r \in DOMAIN reader'.rows : reader'.rows[r] = lane[r]
  BY <1>8 DEF SearchSelect, SearchRows
<1>9. ASSUME NEW p \in Content, GetSnippets(p)
      PROVE  \A r \in DOMAIN reader'.rows : reader'.rows[r] = lane[r]
  <2>1. /\ reader.phase = "search_papers" /\ reader \in ReaderState
        /\ \A r \in DOMAIN reader.rows : reader.rows[r] = lane[r]
    BY <1>9 DEF GetSnippets, RepliesAtRest, McpInv, McpTypeOK
  <2>2. reader'.rows = [r \in (DOMAIN reader.rows) \ {p} |-> reader.rows[r]]
    BY <1>9, <2>1 DEF GetSnippets, Answered, ReaderState
  <2> QED
    BY <2>1, <2>2
<1> QED
  BY <1>4, <1>5, <1>6, <1>7, <1>8, <1>9 DEF RepliesAtRest, McpStep, SearchReturn,
     GetPassages

(* Neither do builds that go on beside them disturb the request.           *)
LEMMA BuildsKeepRest ==
  ASSUME McpInv, QuietExact, RepliesAtRest, Meanwhile, IndexStep \/ IndexCrash
  PROVE  RepliesAtRest'
<1>1. IndexAtRest'
  BY BuildsKeepSettled DEF RepliesAtRest
<1>2. lane' = lane
  BY DEF IndexStep, IndexCrash, IndexSelect, IndexCommit, IndexQuarantine, IndexSkip,
         IndexExtract, IndexStore, IndexReadFails
<1>3. reader'.phase # "idle" => reader.phase # "idle" /\ reader'.rows = reader.rows
  BY DEF Meanwhile, McpInv, McpTypeOK, ReaderState
<1> QED
  BY <1>1, <1>2, <1>3 DEF RepliesAtRest

(* Once the index has settled and no request of before is under way, every *)
(* answer for a paper with an available instance is right: what is shown   *)
(* is the paper's own text, and get_paper shows it if and only if the      *)
(* paper is green and has one.  Requests and builds keep it that way.      *)
THEOREM McpRepliesSettle ==
  McpSpec =>
    [][/\ \A p \in Content :
            (RepliesAtRest /\ Answers(p) /\ InstancesOf(p) # {}) => RightAnswer(p)
       /\ (RepliesAtRest /\ McpStep) => RepliesAtRest'
       /\ (RepliesAtRest /\ Meanwhile /\ (IndexStep \/ IndexCrash)) => RepliesAtRest']_mcpVars
<1>1. McpInv /\ QuietExact =>
        /\ \A p \in Content :
             (RepliesAtRest /\ Answers(p) /\ InstancesOf(p) # {}) => RightAnswer(p)
        /\ (RepliesAtRest /\ McpStep) => RepliesAtRest'
        /\ (RepliesAtRest /\ Meanwhile /\ (IndexStep \/ IndexCrash)) => RepliesAtRest'
  BY SettledAnswersAreRight, RequestsKeepRest, BuildsKeepRest
<1> QED
  BY <1>1, McpInductive, McpImplementsIndexBuild, IndexQuietExact, PTL

-----------------------------------------------------------------------------
(* What SearchesConverge rests on.  Any set of papers has a first one.     *)
LessPairs == {pair \in Nat \X Nat : pair[1] < pair[2]}

(* It has, since smaller and smaller numbers come to an end.               *)
LEMMA FirstOf ==
  ASSUME NEW S \in SUBSET Nat, S # {}
  PROVE  \E first \in S : \A p \in S : first <= p
<1>1. IsWellFoundedOn(LessPairs, Nat)
  BY NatLessThanWellFounded DEF OpToRel, LessPairs
<1>2. PICK first \in S : \A p \in S : <<p, first>> \notin LessPairs
  BY <1>1, WFMin
<1>3. \A p \in S : ~ (p < first)
  <2> TAKE p \in S
  <2>1. p < first => <<p, first>> \in LessPairs
    BY DEF LessPairs
  <2> QED
    BY <1>2, <2>1
<1> QED
  BY <1>3

(* A search that returns fewer papers than its limit has left out none.    *)
LEMMA UncutSearch ==
  ASSUME NEW q \in Query, NEW limit \in Nat,
         Cardinality(DOMAIN SearchRows(q, limit)) < limit
  PROVE  DOMAIN SearchRows(q, limit) = {p \in Content : Matches(q, p)}
<1> DEFINE hits == {p \in Content : Matches(q, p)}
           before(p) == {r \in hits : r < p}
           first == {p \in hits : Cardinality(before(p)) < limit}
<1>1. DOMAIN SearchRows(q, limit) = first
  BY DEF SearchRows
<1>2. hits \subseteq Content /\ first \subseteq hits
  OBVIOUS
<1> HIDE DEF hits
<1>3. ASSUME hits \ first # {} PROVE FALSE
  <2>1. PICK p \in hits \ first : \A r \in hits \ first : p <= r
    BY <1>2, <1>3, FirstOf, IndexAssumption
  <2>2. before(p) \subseteq first
    <3> HIDE DEF first
    <3>1. \A r \in hits : r \in Nat
      BY <1>2, IndexAssumption
    <3>2. p \in hits /\ \A r \in hits : r < p => r \in first
      BY <2>1, <3>1
    <3> QED
      BY <3>2
  <2>3. IsFiniteSet(first)
    BY <1>2, FS_Subset, McpAssumption
  <2>4. /\ Cardinality(before(p)) <= Cardinality(first)
        /\ Cardinality(first) \in Nat /\ Cardinality(before(p)) \in Nat
    BY <2>2, <2>3, FS_Subset, FS_CardinalityType
  <2>5. Cardinality(first) < limit
    BY <1>1
  <2>6. Cardinality(before(p)) < limit
    BY <2>4, <2>5
  <2> QED
    BY <2>1, <2>6
<1> QED
  BY <1>1, <1>2, <1>3 DEF hits

(* In a settled index the WHERE of the search is about what is there now.  *)
LEMMA SettledMatches ==
  ASSUME IInv, IndexAtRest, NEW q \in Query, NEW p \in Content, InstancesOf(p) # {}
  PROVE  Matches(q, p) <=> Findable(q, p)
<1>1. lane[p] # None
  BY IndexAssumption DEF IInv, ClassifiedFirst, InstancesOf
<1>2. p \in TextHits[q] => p \notin NoText
  BY McpAssumption
<1> QED
  BY <1>1, <1>2, SettledChunks DEF Matches, Findable

(* Once the index has settled, a search that is not cut off returns, of    *)
(* the papers with an available instance, exactly those whose title        *)
(* matches and the green ones whose own text does: nothing that was stored *)
(* before, and nothing missed.                                             *)
THEOREM McpSearchesSettle ==
  McpSpec =>
    [][\A q \in Query, limit \in 1..MaxLimit :
         (IndexAtRest /\ SearchSelect(q, limit) /\ Cardinality(DOMAIN reader'.rows) < limit) =>
           \A p \in Content : InstancesOf(p) # {} =>
             (p \in DOMAIN reader'.rows <=> Findable(q, p))]_mcpVars
<1>1. IInv =>
        [\A q \in Query, limit \in 1..MaxLimit :
           (IndexAtRest /\ SearchSelect(q, limit) /\ Cardinality(DOMAIN reader'.rows) < limit) =>
             \A p \in Content : InstancesOf(p) # {} =>
               (p \in DOMAIN reader'.rows <=> Findable(q, p))]_mcpVars
  <2> SUFFICES ASSUME IInv, IndexAtRest, NEW q \in Query, NEW limit \in 1..MaxLimit,
                      SearchSelect(q, limit), Cardinality(DOMAIN reader'.rows) < limit,
                      NEW p \in Content, InstancesOf(p) # {}
               PROVE  p \in DOMAIN reader'.rows <=> Findable(q, p)
    OBVIOUS
  <2>1. reader'.rows = SearchRows(q, limit)
    BY DEF SearchSelect
  <2>2. DOMAIN SearchRows(q, limit) = {r \in Content : Matches(q, r)}
    BY <2>1, UncutSearch
  <2> QED
    BY <2>1, <2>2, SettledMatches
<1> QED
  BY <1>1, McpImplementsIndexBuild, IndexInductive, PTL

=============================================================================
