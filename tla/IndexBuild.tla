------------------------------ MODULE IndexBuild ------------------------------
(***************************************************************************)
(* `rpv index build`: one process selects the available instances with the *)
(* lane of their paper, and then, candidate by candidate, clears or stores *)
(* the chunks and vectors of the paper and its artifact row, all in one    *)
(* transaction that is opened by the first of these writes.  Meanwhile     *)
(* files change, scans record them and reviewers change lanes.             *)
(*                                                                         *)
(* A paper is known by the content its hash was taken of.  An instance     *)
(* stands for the path it is at: ScanManifest shows that no path has two.  *)
(***************************************************************************)
EXTENDS Naturals, VaultLanes

CONSTANTS
  Content,     \* file contents, which are also the paper ids
  Instance,    \* instance ids, each at a path of its own
  None,        \* no row, no file
  NoText,      \* contents no text can be extracted from
  ScanLanes,   \* the lanes a scan may give a content, depending on its path
  MaxChanges   \* bound: changes of files and of the configured roots,
               \* reviews, kills, and files a scan defers

(* What chunk_embedding, index_chunk, chunk_fts and extracted_passage hold *)
(* of a paper: the text of one of its instances.                           *)
Chunks == [instance : Instance, text : Content \ NoText]

ArtifactRow == [lane : Lane, stage : StageStatus, vector : BOOLEAN]

ASSUME IndexAssumption ==
  /\ Content \subseteq Nat /\ Instance \subseteq Nat
  /\ NoText \subseteq Content
  /\ ScanLanes \in [Content -> SUBSET Lane]
  /\ None \notin Content /\ None \notin Lane
  /\ None \notin Chunks /\ None \notin ArtifactRow
  /\ MaxChanges \in Nat

Index ==
  [chunks   : [Content -> Chunks \cup {None}],
   artifact : [Content -> ArtifactRow \cup {None}],
   notice   : SUBSET Content]   \* the index_builder's quarantine audit rows

EmptyIndex ==
  [chunks |-> [p \in Content |-> None], artifact |-> [p \in Content |-> None],
   notice |-> {}]

Candidate == [paper : Content, instance : Instance, lane : Lane]

IdleBuild == [phase |-> "idle"]

(* quiet is a history field: nothing has changed since the selection.      *)
BuildState ==
  [phase : {"idle"}]
  \cup [phase : {"next"}, todo : SUBSET Candidate, locked : BOOLEAN,
        index : Index, quiet : BOOLEAN]
  \cup [phase : {"extracted"}, todo : SUBSET Candidate, locked : BOOLEAN,
        index : Index, quiet : BOOLEAN, text : Content]

VARIABLES
  file,      \* what is at the path of each instance now
  unrooted,  \* instances under a root that is no longer configured
  lane,      \* paper.lane, None before the first scan of the content
  reviewed,  \* papers with a queue row although their lane needs none
  available, \* the paper of each instance whose status is available
  index,     \* the committed index tables
  cache,     \* cache_root/text/<instance>.txt
  build,     \* the builder, with its uncommitted index tables
  changes

vars == <<file, unrooted, lane, reviewed, available, index, cache, build, changes>>

TypeOK ==
  /\ file \in [Instance -> Content \cup {None}]
  /\ unrooted \subseteq Instance
  /\ lane \in [Content -> Lane \cup {None}]
  /\ reviewed \subseteq Content
  /\ available \in [Instance -> Content \cup {None}]
  /\ index \in Index
  /\ cache \in [Instance -> (Content \ NoText) \cup {None}]
  /\ build \in BuildState
  /\ changes \in 0..MaxChanges

-----------------------------------------------------------------------------
(* The writes of one candidate.                                            *)

ClearIndexForPaper(x, p) == [x EXCEPT !.chunks[p] = None]

(* Mutant of StoreChunks: a paper that has chunks is taken for indexed.    *)
StoreMissingChunks(x, p, i, text) ==
  IF x.chunks[p] # None THEN x
    ELSE [x EXCEPT !.chunks[p] = [instance |-> i, text |-> text]]

StoreChunks(x, p, i, text) ==
  [ClearIndexForPaper(x, p) EXCEPT !.chunks[p] = [instance |-> i, text |-> text]]

(* Mutant of UpsertArtifact: two bound parameters are swapped.             *)
UpsertSwapped(x, cand, stage, vector) ==
  [x EXCEPT !.artifact[cand.paper] =
     [lane |-> stage, stage |-> cand.lane, vector |-> vector]]

UpsertArtifact(x, cand, stage, vector) ==
  [x EXCEPT !.artifact[cand.paper] =
     [lane |-> cand.lane, stage |-> stage, vector |-> vector]]

IndexGreen(x, cand, text) ==
  UpsertArtifact(StoreChunks(x, cand.paper, cand.instance, text),
                 cand, "complete", TRUE)

(* Mutant of SkipCandidate: the chunks of an earlier build stay.           *)
SkipUncleared(x, cand) == UpsertArtifact(x, cand, "failed", FALSE)

SkipCandidate(x, cand) ==
  UpsertArtifact(ClearIndexForPaper(x, cand.paper), cand, "failed", FALSE)

QuarantineCandidate(x, cand) ==
  [UpsertArtifact(ClearIndexForPaper(x, cand.paper), cand, "quarantined", FALSE)
     EXCEPT !.notice = @ \cup {cand.paper}]

-----------------------------------------------------------------------------
(* The builder.                                                            *)

Candidates ==
  {[paper |-> available[i], instance |-> i, lane |-> lane[available[i]]] :
     i \in {j \in Instance : available[j] # None}}

IndexSelect ==
  /\ build.phase = "idle"
  /\ build' = [phase |-> "next", todo |-> Candidates, locked |-> FALSE,
               index |-> index, quiet |-> TRUE]
  /\ UNCHANGED <<file, unrooted, lane, reviewed, available, index, cache, changes>>

(* ORDER BY p.paper_id, i.instance_id                                      *)
Before(a, b) ==
  a.paper < b.paper \/ (a.paper = b.paper /\ a.instance < b.instance)

IsNext(cand) ==
  /\ cand \in build.todo
  /\ \A other \in build.todo : other = cand \/ Before(cand, other)

(* The first write takes the database's write lock until the end.          *)
Write(x, cand) ==
  [phase |-> "next", todo |-> build.todo \ {cand}, locked |-> TRUE,
   index |-> x, quiet |-> build.quiet]

IndexQuarantine(cand) ==
  /\ build.phase = "next" /\ IsNext(cand)
  /\ cand.lane = "red"
  /\ build' = Write(QuarantineCandidate(build.index, cand), cand)
  /\ UNCHANGED <<file, unrooted, lane, reviewed, available, index, cache, changes>>

IndexSkip(cand) ==
  /\ build.phase = "next" /\ IsNext(cand)
  /\ cand.lane = "amber" \/ (cand.lane = "green" /\ cand.instance \in unrooted)
  /\ build' = Write(SkipCandidate(build.index, cand), cand)
  /\ UNCHANGED <<file, unrooted, lane, reviewed, available, index, cache, changes>>

CanExtract(cand) == cand.lane = "green" /\ cand.instance \notin unrooted

(* extract_text reads the file once more, and leaves what it found in the  *)
(* text cache: a file, written whatever becomes of the transaction.        *)
IndexExtract(cand) ==
  /\ build.phase = "next" /\ IsNext(cand) /\ CanExtract(cand)
  /\ LET text == file[cand.instance]
     IN /\ text # None
        /\ build' = [phase |-> "extracted", todo |-> build.todo,
                     locked |-> build.locked, index |-> build.index,
                     quiet |-> build.quiet, text |-> text]
        /\ cache' = IF text \in NoText THEN cache
                      ELSE [cache EXCEPT ![cand.instance] = text]
  /\ UNCHANGED <<file, unrooted, lane, reviewed, available, index, changes>>

IndexStore(cand) ==
  /\ build.phase = "extracted" /\ IsNext(cand)
  /\ build' = Write(IF build.text \in NoText
                      THEN SkipCandidate(build.index, cand)
                      ELSE IndexGreen(build.index, cand, build.text), cand)
  /\ UNCHANGED <<file, unrooted, lane, reviewed, available, index, cache, changes>>

IndexCommit ==
  /\ build.phase = "next" /\ build.todo = {}
  /\ index' = build.index
  /\ build' = IdleBuild
  /\ UNCHANGED <<file, unrooted, lane, reviewed, available, cache, changes>>

(* The file is gone: OSError, and the whole build is rolled back.          *)
IndexReadFails(cand) ==
  /\ build.phase = "next" /\ IsNext(cand) /\ CanExtract(cand)
  /\ file[cand.instance] = None
  /\ build' = IdleBuild
  /\ UNCHANGED <<file, unrooted, lane, reviewed, available, index, cache, changes>>

IndexCrash ==
  /\ build.phase # "idle"
  /\ changes < MaxChanges
  /\ changes' = changes + 1
  /\ build' = IdleBuild
  /\ UNCHANGED <<file, unrooted, lane, reviewed, available, index, cache>>

-----------------------------------------------------------------------------
(* The rest of the vault.                                                  *)

(* No other process can write while the builder holds the write lock.      *)
Unlocked == build.phase # "idle" => ~build.locked

Disturbed == IF build.phase = "idle" THEN build ELSE [build EXCEPT !.quiet = FALSE]

Disturb ==
  /\ changes < MaxChanges
  /\ changes' = changes + 1
  /\ build' = Disturbed

FileChange(i) ==
  /\ Disturb
  /\ \E f \in (Content \cup {None}) \ {file[i]} : file' = [file EXCEPT ![i] = f]
  /\ UNCHANGED <<unrooted, lane, reviewed, available, index, cache>>

(* A storage root is taken out of the configuration.                       *)
DropRoot(i) ==
  /\ Disturb
  /\ unrooted' = unrooted \cup {i}
  /\ UNCHANGED <<file, lane, reviewed, available, index, cache>>

(* What a scan commits for one path: the paper of the content that is      *)
(* there, in the lane the classifier gives it, and no queue row if green.  *)
ScanFinds(i) ==
  /\ Unlocked
  /\ i \notin unrooted /\ file[i] # None
  /\ available' = [available EXCEPT ![i] = file[i]]
  /\ \E l \in ScanLanes[file[i]] :
       /\ lane' = [lane EXCEPT ![file[i]] = l]
       /\ reviewed' = IF l = "green" THEN reviewed \ {file[i]} ELSE reviewed
  /\ <<available, lane, reviewed>>' # <<available, lane, reviewed>>
  /\ build' = Disturbed
  /\ UNCHANGED <<file, unrooted, index, cache, changes>>

(* mark_missing.                                                           *)
ScanMisses(i) ==
  /\ Unlocked
  /\ available[i] # None
  /\ i \in unrooted \/ file[i] = None
  /\ available' = [available EXCEPT ![i] = None]
  /\ build' = Disturbed
  /\ UNCHANGED <<file, unrooted, lane, reviewed, index, cache, changes>>

(* The file cannot be read now, or has not settled: pending_sync.          *)
ScanDefers(i) ==
  /\ Disturb /\ Unlocked
  /\ available[i] # None
  /\ available' = [available EXCEPT ![i] = None]
  /\ UNCHANGED <<file, unrooted, lane, reviewed, index, cache>>

(* approve or reclassify: only a paper with a queue row, which an amber or *)
(* red one has or gets, and which stays when the paper becomes green.      *)
Review(p, l) ==
  /\ Disturb /\ Unlocked
  /\ lane[p] \in {"amber", "red"} \/ p \in reviewed
  /\ lane[p] # l
  /\ lane' = [lane EXCEPT ![p] = l]
  /\ reviewed' = reviewed \cup {p}
  /\ UNCHANGED <<file, unrooted, available, index, cache>>

-----------------------------------------------------------------------------
Init ==
  /\ file \in [Instance -> Content \cup {None}]
  /\ unrooted = {}
  /\ lane = [p \in Content |-> None]
  /\ reviewed = {}
  /\ available = [i \in Instance |-> None]
  /\ index = EmptyIndex
  /\ cache = [i \in Instance |-> None]
  /\ build = IdleBuild
  /\ changes = 0

IndexStep ==
  \/ IndexSelect \/ IndexCommit
  \/ \E cand \in Candidate :
       \/ IndexQuarantine(cand) \/ IndexSkip(cand) \/ IndexExtract(cand)
       \/ IndexStore(cand) \/ IndexReadFails(cand)

ScanStep(i) == ScanFinds(i) \/ ScanMisses(i)

Environment ==
  \/ IndexCrash
  \/ \E i \in Instance : FileChange(i) \/ DropRoot(i) \/ ScanDefers(i)
  \/ \E p \in Content, l \in Lane : Review(p, l)

Next == IndexStep \/ (\E i \in Instance : ScanStep(i)) \/ Environment

Spec == Init /\ [][Next]_vars

(* Scans and builds are run again and again; a scan that meets the write   *)
(* lock of a build fails, and one of the next ones does not.               *)
FairSpec ==
  /\ Spec
  /\ WF_vars(IndexStep)
  /\ \A i \in Instance : SF_vars(ScanStep(i))

-----------------------------------------------------------------------------
(* The index tables x agree with one another: p has chunks only if its     *)
(* artifact row names a vector path, and the reverse; such a row is        *)
(* neither red nor quarantined; a quarantine is in the audit log.          *)
TruthfulAt(x, p) ==
  LET row == x.artifact[p]
  IN /\ x.chunks[p] # None => row # None
     /\ row # None =>
          /\ row.vector <=> x.chunks[p] # None
          /\ row.vector => /\ CanCarryVectorPath(row.lane, row.stage)
                          /\ row.lane = "green" /\ row.stage = "complete"
          /\ row.stage = "quarantined" => p \in x.notice

Truthful(x) == \A p \in Content : TruthfulAt(x, p)

(* The artifact row of a paper says whether it is embedded (a red one with *)
(* a vector path is refused by a CHECK of the table).  Builds that are     *)
(* killed or fail half-way leave no trace of this, and a paper with        *)
(* several instances is written several times.                             *)
ArtifactIsTruthful == Truthful(index)

InstancesOf(p) == {i \in Instance : available[i] = p}

LastInstanceOf(p) == CHOOSE i \in InstancesOf(p) : \A j \in InstancesOf(p) : j <= i

(* Does the index hold of paper p what its lane and its files call for?    *)
(* The last instance decides.                                              *)
IndexedRight(x, p) ==
  LET last == LastInstanceOf(p)
  IN x.chunks[p] =
       IF lane[p] = "green" /\ last \notin unrooted /\ file[last] \notin NoText
         THEN [instance |-> last, text |-> file[last]] ELSE None

(* A build that nothing disturbed leaves every paper that has an available *)
(* instance as its lane calls for: embedded if it is green, and otherwise  *)
(* cleared, whatever earlier builds had stored.                            *)
QuietBuildIsExact ==
  [][(IndexCommit /\ build.quiet) =>
       \A p \in Content : InstancesOf(p) # {} =>
         /\ IndexedRight(index', p)
         /\ index'.artifact[p].lane = lane[p]]_vars

(* When files and reviewers have come to rest, scans and builds bring the  *)
(* index to that state and keep it there, and what is embedded for a paper *)
(* is the content its hash was taken of.                                   *)
IndexSettled ==
  \A p \in Content : InstancesOf(p) # {} =>
    /\ IndexedRight(index, p)
    /\ index.chunks[p] # None => index.chunks[p].text = p

IndexConverges == <>[]IndexSettled

-----------------------------------------------------------------------------
(* What the documents say, and the code does not do.                       *)

(* docs/privacy-policy.md:9, "Red content is not embedded": a build that   *)
(* nothing disturbed leaves no red paper embedded.                         *)
RedIsNotEmbedded ==
  [][(IndexCommit /\ build.quiet) =>
       \A p \in Content : lane[p] = "red" => index'.chunks[p] = None]_vars

=============================================================================
