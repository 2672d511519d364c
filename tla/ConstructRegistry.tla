-------------------------- MODULE ConstructRegistry --------------------------
(***************************************************************************)
(* constructs build, review and export, and literature-map build: lines of *)
(* the indexed text become candidates for constructs, reviewers decide on  *)
(* them, and the map draws them.  Each command is one transaction, but     *)
(* constructs build reads the chunks before its transaction begins.        *)
(*                                                                         *)
(* review_required is 0 in every row that the code writes, and claim_card  *)
(* rows are written by no command: both are left out.                      *)
(***************************************************************************)
EXTENDS VaultLanes, Naturals, FiniteSets

CONSTANTS
  Paper,       \* paper ids, in the order of their text
  Term,        \* normalised terms, and so the constructs
  MaxChanges,  \* bound on what the index, reviewers and scans change
  None

(* A line "Construct: ... | Measurement: ... | Role: ..." of a paper, and  *)
(* the id of the candidate that it gives.                                  *)
Line == [paper : Paper, term : Term]

CandidateRow == [construct : Term, status : {"pending", "approved", "rejected"}]

ASSUME ConstructAssumption ==
  /\ Paper \subseteq Nat
  /\ MaxChanges \in Nat
  /\ None \notin Term /\ None \notin CandidateRow
  /\ \A lines \in SUBSET Line : lines # None

(* A node shows the term of a candidate, or that it is metadata-only.      *)
Masked == "masked"

VARIABLES
  lane,        \* paper.lane
  text,        \* index_chunk: the lines in what is indexed of each paper
  registry,    \* construct_registry
  candidates,  \* construct_candidate
  reading,     \* the lines that a running constructs build has read
  paperNodes, constructNodes, edges,  \* literature_node, literature_edge
  exported,    \* exports/construct_registry.jsonl and .md
  changes

manifest == <<lane, text>>
graph == <<paperNodes, constructNodes, edges>>
vars == <<lane, text, registry, candidates, reading, graph, exported, changes>>

TypeOK ==
  /\ lane \in [Paper -> Lane]
  /\ text \in [Paper -> SUBSET Line]
  /\ registry \subseteq Term
  /\ candidates \in [Line -> {None} \cup CandidateRow]
  /\ reading = None \/ reading \in SUBSET Line
  /\ paperNodes \in [Paper -> {None, Masked, "shown"}]
  /\ constructNodes \in [Term -> Term \cup {None, Masked}]
  /\ edges \subseteq [paper : Paper, construct : Term]
  /\ exported \subseteq Line
  /\ changes \in 0..MaxChanges

-----------------------------------------------------------------------------
Present == {k \in Line : candidates[k] # None}

CandidatesOf(c) == {k \in Present : candidates[k].construct = c}

(* Mutant of UpsertCandidate: a rebuild resets the status, too.            *)
UpsertPending(k) == [construct |-> k.term, status |-> "pending"]

(* Mutant of UpsertCandidate: with a status of the registry's vocabulary.  *)
UpsertNeedsReview(k) ==
  IF k \in Present THEN candidates[k] ELSE [construct |-> k.term, status |-> "needs_review"]

(* ON CONFLICT leaves construct_id and candidate_status alone.             *)
UpsertCandidate(k) ==
  IF k \in Present THEN candidates[k] ELSE [construct |-> k.term, status |-> "pending"]

ConstructRead ==
  /\ reading = None
  /\ reading' = UNION {text[p] : p \in Paper}
  /\ UNCHANGED <<manifest, registry, candidates, graph, exported, changes>>

ConstructUpsert ==
  /\ reading # None
  /\ registry' = registry \cup {k.term : k \in reading}
  /\ candidates' = [k \in Line |-> IF k \in reading THEN UpsertCandidate(k) ELSE candidates[k]]
  /\ reading' = None
  /\ UNCHANGED <<manifest, graph, exported, changes>>

(* The process is killed, or the write lock is not to be had.              *)
ConstructBuildFails ==
  /\ reading # None
  /\ changes < MaxChanges
  /\ reading' = None
  /\ changes' = changes + 1
  /\ UNCHANGED <<manifest, registry, candidates, graph, exported>>

-----------------------------------------------------------------------------
Decide(k, row) ==
  /\ k \in Present
  /\ changes < MaxChanges
  /\ candidates' = [candidates EXCEPT ![k] = row]
  /\ changes' = changes + 1
  /\ UNCHANGED <<manifest, registry, reading, graph, exported>>

ConstructApprove(k) == Decide(k, [candidates[k] EXCEPT !.status = "approved"])

ConstructReject(k) == Decide(k, [candidates[k] EXCEPT !.status = "rejected"])

ConstructReassign(k, c) ==
  /\ c \in registry
  /\ Decide(k, [construct |-> c, status |-> "approved"])

-----------------------------------------------------------------------------
(* literature-map build: upserts only, nothing is removed.                 *)

LabelFor(k) == IF lane[k.paper] = "red" THEN Masked ELSE k.term

(* The rows come ordered by construct and paper: the last of them decides. *)
LastCandidates(c) ==
  {k \in CandidatesOf(c) : \A j \in CandidatesOf(c) : j.paper <= k.paper}

(* Mutant of ConstructLabels: a node that exists keeps its label.          *)
ConstructLabelsOnce(c) ==
  IF CandidatesOf(c) = {} \/ constructNodes[c] # None
    THEN {constructNodes[c]} ELSE {LabelFor(k) : k \in LastCandidates(c)}

ConstructLabels(c) ==
  IF CandidatesOf(c) = {}
    THEN {constructNodes[c]} ELSE {LabelFor(k) : k \in LastCandidates(c)}

MapBuild ==
  /\ paperNodes' = [p \in Paper |-> IF lane[p] = "red" THEN Masked ELSE "shown"]
  /\ constructNodes' \in
       {labels \in [Term -> Term \cup {None, Masked}] :
          \A c \in Term : labels[c] \in ConstructLabels(c)}
  /\ edges' = edges \cup
       {[paper |-> k.paper, construct |-> candidates[k].construct] : k \in Present}
  /\ UNCHANGED <<manifest, registry, candidates, reading, exported, changes>>

(* The rows of every construct with its candidates, whatever their status. *)
ConstructExport ==
  /\ exported' = UNION {CandidatesOf(c) : c \in registry}
  /\ UNCHANGED <<manifest, registry, candidates, reading, graph, changes>>

-----------------------------------------------------------------------------
(* A scan or a reviewer changes the lane of a paper, which has been        *)
(* indexed when it was green.                                              *)
ChangeLane(p, l) ==
  /\ changes < MaxChanges
  /\ lane[p] # l
  /\ lane' = [lane EXCEPT ![p] = l]
  /\ changes' = changes + 1
  /\ UNCHANGED <<text, registry, candidates, reading, graph, exported>>

(* An index build stores what it finds in a green paper, and clears the    *)
(* others.                                                                 *)
Reindex(p, lines) ==
  /\ changes < MaxChanges
  /\ lane[p] # "green" => lines = {}
  /\ \A k \in lines : k.paper = p
  /\ text' = [text EXCEPT ![p] = lines]
  /\ changes' = changes + 1
  /\ UNCHANGED <<lane, registry, candidates, reading, graph, exported>>

Init ==
  /\ lane = [p \in Paper |-> "green"]
  /\ text \in {t \in [Paper -> SUBSET Line] : \A p \in Paper : \A k \in t[p] : k.paper = p}
  /\ registry = {}
  /\ candidates = [k \in Line |-> None]
  /\ reading = None
  /\ paperNodes = [p \in Paper |-> None]
  /\ constructNodes = [c \in Term |-> None]
  /\ edges = {}
  /\ exported = {}
  /\ changes = 0

Next ==
  \/ ConstructRead \/ ConstructUpsert \/ ConstructBuildFails
  \/ \E k \in Line : ConstructApprove(k) \/ ConstructReject(k)
  \/ \E k \in Line, c \in Term : ConstructReassign(k, c)
  \/ MapBuild \/ ConstructExport
  \/ \E p \in Paper, l \in Lane : ChangeLane(p, l)
  \/ \E p \in Paper, lines \in SUBSET Line : Reindex(p, lines)

(* The automations run the builds again and again.                         *)
Fairness == WF_vars(ConstructRead) /\ WF_vars(ConstructUpsert) /\ WF_vars(MapBuild)

Spec == Init /\ [][Next]_vars /\ Fairness

-----------------------------------------------------------------------------
(* constructs build, which upserts every candidate again and again, undoes *)
(* no decision: a candidate is never removed, never pending again, and     *)
(* leaves its construct only for one that a reviewer approves.             *)
DecisionsSurviveRebuild ==
  [][\A k \in Present :
       /\ candidates'[k] # None
       /\ candidates'[k].status = "pending" => candidates'[k] = candidates[k]
       /\ candidates'[k].construct # candidates[k].construct =>
            candidates'[k].status = "approved"]_vars

Drawn(k) == [paper |-> k.paper, construct |-> candidates[k].construct] \in edges

(* When the vault has come to rest, the map draws every candidate, masks   *)
(* the red papers, masks the constructs that only red papers measure, and  *)
(* shows those that none does.                                             *)
MapIsTrue ==
  /\ \A k \in Present : Drawn(k)
  /\ \A k \in UNION {text[p] : p \in Paper} : k \in Present
  /\ \A p \in Paper : paperNodes[p] = Masked <=> lane[p] = "red"
  /\ \A c \in Term :
       LET lanes == {lane[k.paper] : k \in CandidatesOf(c)}
       IN /\ lanes = {"red"} => constructNodes[c] = Masked
          /\ (lanes # {} /\ "red" \notin lanes) => constructNodes[c] \in Term

MapConverges == <>[]MapIsTrue

(* docs/privacy-policy.md:9, "Red content is not embedded, exported, or    *)
(* returned as full text": an export writes no line of a red paper.        *)
RedIsNotExported ==
  [][exported' # exported => \A k \in exported' : lane[k.paper] # "red"]_vars

=============================================================================
