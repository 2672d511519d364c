---------------------------- MODULE ManifestTables ----------------------------
(***************************************************************************)
(* The SQLite manifest of the vault: its tables, the statements by which a *)
(* scan writes them, and what makes them consistent.                       *)
(*                                                                         *)
(* The rows of one table are a function from the primary key; None is "no  *)
(* such row".  A paper or an instance id is the digest of what it was made *)
(* from: a content hash, or the status of a probe that read no content.    *)
(***************************************************************************)
EXTENDS Naturals, DocumentClassifier

CONSTANTS
  ValidPdf,           \* contents with a PDF header and a page tree
  Unreadable,         \* a file that exists but cannot be opened
  ReadError,          \* digest of the probe result read_error
  MissingPath,        \* digest of the probe result missing_path
  Unstable,           \* digests of the probe results unstable_file
  None,               \* no row, no file, NULL
  ManualReviewLanes   \* config.approval.manual_review_lanes

Hashless == Unstable \cup {ReadError, MissingPath}

PaperId == Content \cup Hashless
InstanceId == Content \cup Hashless

FileState == Content \cup {Unreadable, None}

InstanceRow == [paper : PaperId, path : Path, sha : Content \cup {None},
                status : InstanceStatus]

(* What a scan, and what a dry run may report of a file, as its status:    *)
(* "pending" stands for every result that asks for another attempt.  Only  *)
(* a dry run reports the configured provider, and it never has a hash.     *)
DryStatus == {"dry_run", "missing_path", "pending"}

SnapshotRow == [status : {"ready", "pending", "missing_path"} \cup DryStatus,
                sha : Content \cup {None}, provider : BOOLEAN]
QueueRow == [lane : Lane, stage : StageStatus]

ASSUME ManifestAssumption ==
  /\ Path \subseteq Nat
  /\ ValidPdf \subseteq Content
  /\ Content \cap Hashless = {}
  /\ None \notin PaperId \cup InstanceRow \cup SnapshotRow \cup QueueRow \cup Lane
               \cup DryStatus
  /\ Unreadable \notin Content \cup {None}
  /\ ManualReviewLanes \subseteq {"amber", "red"}

Manifest ==
  [paper    : [PaperId -> Lane \cup {None}],
   decision : [PaperId -> Lane \cup {None}],
   instance : [InstanceId -> InstanceRow \cup {None}],
   snapshot : [Path -> SnapshotRow \cup {None}],
   pending  : [Path -> InstanceId \cup {None}],
   queue    : [PaperId -> QueueRow \cup {None}]]

EmptyManifest ==
  [paper    |-> [p \in PaperId |-> None],
   decision |-> [p \in PaperId |-> None],
   instance |-> [i \in InstanceId |-> None],
   snapshot |-> [p \in Path |-> None],
   pending  |-> [p \in Path |-> None],
   queue    |-> [p \in PaperId |-> None]]

-----------------------------------------------------------------------------
(* The statements of scan_db.py, each from a manifest to a manifest.       *)

(* SELECT ... WHERE file_path = p and WHERE sha256 = c have no ORDER BY:   *)
(* fetchone returns any one of these rows.                                 *)
ExistingInstanceForPath(d, p) ==
  {i \in InstanceId : d.instance[i] # None /\ d.instance[i].path = p}

MovedInstanceForSha(d, c, observed) ==
  {i \in InstanceId : /\ d.instance[i] # None
                      /\ d.instance[i].sha = c
                      /\ d.instance[i].path \notin observed}

(* Mutant of InstanceForReady: the row of the path is not looked up.       *)
InstanceForReadyBySha(d, p, c, observed) ==
  LET moved == MovedInstanceForSha(d, c, observed)
  IN IF moved # {} THEN moved ELSE {c}

InstanceForReady(d, p, c, observed) ==
  LET existing == ExistingInstanceForPath(d, p)
      moved == MovedInstanceForSha(d, c, observed)
  IN IF existing # {} THEN existing
     ELSE IF moved # {} THEN moved ELSE {c}

InstanceForPending(d, p, seed) ==
  LET existing == ExistingInstanceForPath(d, p)
  IN IF existing # {} THEN existing ELSE {seed}

(* INSERT INTO paper ... 'green' ... ON CONFLICT DO NOTHING                *)
InsertPaper(d, paper) ==
  [d EXCEPT !.paper[paper] = IF @ = None THEN "green" ELSE @]

(* The upsert of one observed file: its snapshot, its paper, its instance. *)
(* A conflict on the instance id moves that row to this path.              *)
RecordFile(d, p, paper, i, sha, ready) ==
  [InsertPaper(d, paper) EXCEPT
     !.snapshot[p] = [status |-> IF ready THEN "ready" ELSE "pending",
                      sha |-> sha, provider |-> FALSE],
     !.instance[i] = [paper |-> paper, path |-> p, sha |-> sha,
                      status |-> IF ready THEN "available" ELSE "pending_sync"]]

(* Mutant of RecordReady: the retry row stays.                             *)
RecordReadyOnly(d, p, c, i) == RecordFile(d, p, c, i, c, TRUE)

(* Mutant of RecordReady: the retry row is deleted by its path only.       *)
RecordReadyKeepsRetry(d, p, c, i) ==
  [RecordFile(d, p, c, i, c, TRUE) EXCEPT !.pending[p] = None]

RecordReady(d, p, c, i) ==
  [RecordFile(d, p, c, i, c, TRUE) EXCEPT
     !.pending = [q \in Path |-> IF q = p \/ @[q] = i THEN None ELSE @[q]]]

(* Mutant of ShaOf: the seed of the ids is stored as the hash.             *)
ShaIsSeed(seed) == seed

ShaOf(seed) == IF seed \in Content THEN seed ELSE None

RecordPending(d, p, seed, i) ==
  [RecordFile(d, p, seed, i, ShaOf(seed), FALSE) EXCEPT !.pending[p] = i]

(* A dry run has snapshot rows only, for the files its walk has found.     *)
RecordSnapshots(d, found, status) ==
  [d EXCEPT !.snapshot = [p \in Path |->
     IF p \in found
       THEN [status |-> status[p], sha |-> None, provider |-> TRUE] ELSE @[p]]]

(* Mutant of MarkMissing: instances keep their status.                     *)
MarkSnapshotsMissing(d, observed) ==
  [d EXCEPT
     !.snapshot = [p \in Path |->
        IF @[p] # None /\ p \notin observed
          THEN [@[p] EXCEPT !.status = "missing_path"] ELSE @[p]]]

MarkMissing(d, observed) ==
  [d EXCEPT
     !.instance = [i \in InstanceId |->
        IF @[i] # None /\ @[i].path \notin observed
          THEN [@[i] EXCEPT !.status = "missing"] ELSE @[i]],
     !.snapshot = [p \in Path |->
        IF @[p] # None /\ p \notin observed
          THEN [@[p] EXCEPT !.status = "missing_path"] ELSE @[p]]]

(* Mutant of SyncReviewItem: a row that is there is taken for a stale one. *)
ToggleReviewItem(d, paper, lane) ==
  [d EXCEPT !.queue[paper] =
     IF lane \in ManualReviewLanes /\ @ = None
       THEN [lane |-> lane, stage |-> StageForLane(lane)] ELSE None]

(* scan_classification.py: the paper's lane is overwritten, the decision   *)
(* row upserted, and the queue row upserted or deleted.                    *)
SyncReviewItem(d, paper, lane) ==
  [d EXCEPT !.queue[paper] =
     IF lane \in ManualReviewLanes
       THEN [lane |-> lane, stage |-> StageForLane(lane)] ELSE None]

(* Mutant of RecordReadyClassification: only a lane that needs a reviewer  *)
(* gets a decision row.                                                    *)
RecordReviewedClassification(d, paper, lane) ==
  SyncReviewItem(
    IF lane \in ManualReviewLanes
      THEN [d EXCEPT !.paper[paper] = lane, !.decision[paper] = lane]
      ELSE [d EXCEPT !.paper[paper] = lane],
    paper, lane)

RecordReadyClassification(d, paper, lane) ==
  SyncReviewItem([d EXCEPT !.paper[paper] = lane, !.decision[paper] = lane],
                 paper, lane)

-----------------------------------------------------------------------------
(* The order in which a batch is probed and recorded.                      *)
IsFirst(p, S) == p \in S /\ \A q \in S : p <= q

(* What a probe of a file in state f reports, as the seed of its ids.      *)
ProbeResult(f) ==
  IF f \in Content THEN f
  ELSE IF f = None THEN MissingPath ELSE ReadError

(* What exists, is_file and stat, called one after the other, make of it.  *)
MetadataResults(f) ==
  IF f = None THEN {"missing_path", "pending"}
  ELSE IF f = Unreadable THEN {"dry_run", "pending"} ELSE {"dry_run"}

-----------------------------------------------------------------------------
(* Consistency of a manifest d, committed or not.  R is a set of paths     *)
(* that may be in disorder: none, if scans never run at once.              *)

(* No path has two instance rows, whatever moved, vanished, was replaced   *)
(* or was copied between scans: _existing_instance_for_path reads one row. *)
OneRowPerPathOutside(d, R) ==
  \A i, j \in InstanceId :
    (/\ d.instance[i] # None /\ d.instance[j] # None
     /\ d.instance[i].path = d.instance[j].path
     /\ d.instance[i].path \notin R) => i = j

(* An instance the index builder may read ("available") belongs to the     *)
(* paper of its own hash, and that paper has been classified: the 'green'  *)
(* that _insert_paper gives a paper nobody looked at is never indexed.     *)
AvailableIsClassified(d) ==
  \A i \in InstanceId :
    LET row == d.instance[i]
    IN (row # None /\ row.status = "available") =>
         /\ row.sha \in ValidPdf /\ row.paper = row.sha
         /\ d.paper[row.paper] # None
         /\ d.decision[row.paper] # None

(* An available instance agrees with the snapshot of its path.  If a scan  *)
(* wrote that last, the file was seen there, ready, with the hash of the   *)
(* instance.  A dry run overwrites it, and may report even that the file   *)
(* is gone, but it never leaves a hash: no other one than the instance's.  *)
AvailableMatchesSnapshotOutside(d, R) ==
  \A i \in InstanceId :
    LET row == d.instance[i]
        seen == d.snapshot[row.path]
    IN (row # None /\ row.status = "available" /\ row.path \notin R) =>
         /\ seen # None
         /\ IF seen.provider THEN seen.sha = None
              ELSE seen.status = "ready" /\ seen.sha = row.sha

(* A retry row always refers to an instance that exists, and never to one  *)
(* that has become available: the id may have moved to another path in the *)
(* meantime, which is why record_ready deletes by path and by instance.    *)
PendingNotAvailable(d) ==
  \A p \in Path :
    d.pending[p] # None =>
      /\ d.instance[d.pending[p]] # None
      /\ d.instance[d.pending[p]].status # "available"

RowsConsistentOutside(d, R) ==
  /\ OneRowPerPathOutside(d, R)
  /\ AvailableIsClassified(d)
  /\ AvailableMatchesSnapshotOutside(d, R)
  /\ PendingNotAvailable(d)

(* The manifest tells the truth about the file at p, which is what the     *)
(* index builder will read, and a sensitive one is red.                    *)
SettledAt(d, p, f) ==
  LET here == ExistingInstanceForPath(d, p)
  IN CASE f \in ValidPdf ->
            /\ d.pending[p] = None
            /\ \E i \in InstanceId : /\ d.instance[i] # None
                                     /\ d.instance[i].sha = f
                                     /\ d.instance[i].status = "available"
            /\ \A i \in here : d.instance[i].status = "available" =>
                                 d.instance[i].sha = f
            /\ f \in SensitiveContent => d.paper[f] = "red"
       [] f = None -> \A i \in here : d.instance[i].status = "missing"
       [] OTHER -> /\ d.pending[p] # None
                   /\ \A i \in here : d.instance[i].status # "available"

=============================================================================
