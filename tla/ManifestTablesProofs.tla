-------------------------- MODULE ManifestTablesProofs --------------------------
(***************************************************************************)
(* What the statements of a scan do to the types and the consistency of    *)
(* the manifest, whoever runs them and on whichever copy of it.            *)
(***************************************************************************)
EXTENDS ManifestTables, TLAPS

(* No instance row but i's is at path p.                                   *)
SoleRow(d, p, i) ==
  \A j \in InstanceId \ {i} : d.instance[j] # None => d.instance[j].path # p

-----------------------------------------------------------------------------
(* The statements of scan_db.py and scan_classification.py keep the types. *)

(* The stage of a queue row is one the table allows.                       *)
LEMMA LaneTypes ==
  ASSUME NEW lane \in Lane
  PROVE  StageForLane(lane) \in StageStatus
BY DEF Lane, StageForLane, StageStatus

(* The classifier gives one of the three lanes, whatever path and content  *)
(* it is called with.                                                      *)
LEMMA ClassifyDocumentType ==
  ASSUME NEW p, NEW c
  PROVE  ClassifyDocument(p, c) \in Lane
BY DEF ClassifyDocument, Lane

(* A probe result without a content has no hash.                           *)
LEMMA ShaOfType ==
  ASSUME NEW seed
  PROVE  ShaOf(seed) \in Content \cup {None}
BY DEF ShaOf

(* The row record_ready picks, of the path, of the hash or a new one, has  *)
(* an instance id.                                                         *)
LEMMA InstanceForReadyType ==
  ASSUME NEW d, NEW p, NEW c \in Content, NEW observed,
         NEW i \in InstanceForReady(d, p, c, observed)
  PROVE  i \in InstanceId
BY DEF InstanceForReady, ExistingInstanceForPath, MovedInstanceForSha, InstanceId

(* So has the row record_pending picks.                                    *)
LEMMA InstanceForPendingType ==
  ASSUME NEW d, NEW p, NEW seed \in PaperId,
         NEW i \in InstanceForPending(d, p, seed)
  PROVE  i \in InstanceId
BY DEF InstanceForPending, ExistingInstanceForPath, InstanceId, PaperId

(* The upserts of snapshot, paper and instance keep the types of the       *)
(* tables.                                                                 *)
LEMMA RecordFileType ==
  ASSUME NEW d \in Manifest, NEW p \in Path, NEW paper \in PaperId,
         NEW i \in InstanceId, NEW sha \in Content \cup {None}, NEW ready \in BOOLEAN
  PROVE  RecordFile(d, p, paper, i, sha, ready) \in Manifest
BY DEF RecordFile, InsertPaper, Manifest, Lane, InstanceRow, SnapshotRow, DryStatus,
       InstanceStatus

(* record_ready keeps the types, the deleted retry rows included.          *)
LEMMA RecordReadyType ==
  ASSUME NEW d \in Manifest, NEW p \in Path, NEW c \in Content, NEW i \in InstanceId
  PROVE  RecordReady(d, p, c, i) \in Manifest
<1> DEFINE f == RecordFile(d, p, c, i, c, TRUE)
<1>1. f \in Manifest
  BY RecordFileType DEF PaperId
<1> HIDE DEF f
<1>2. [f EXCEPT !.pending = [q \in Path |-> IF q = p \/ @[q] = i THEN None ELSE @[q]]]
        \in Manifest
  BY <1>1 DEF Manifest
<1> QED
  BY <1>2 DEF RecordReady, f

(* record_pending keeps the types: the retry row it writes names an        *)
(* instance id.                                                            *)
LEMMA RecordPendingType ==
  ASSUME NEW d \in Manifest, NEW p \in Path, NEW seed \in PaperId, NEW i \in InstanceId
  PROVE  RecordPending(d, p, seed, i) \in Manifest
<1> DEFINE f == RecordFile(d, p, seed, i, ShaOf(seed), FALSE)
<1>1. f \in Manifest
  BY RecordFileType, ShaOfType
<1> HIDE DEF f
<1>2. [f EXCEPT !.pending[p] = i] \in Manifest
  BY <1>1 DEF Manifest
<1> QED
  BY <1>2 DEF RecordPending, f

(* record_ready_classification keeps the types of paper, decision and      *)
(* queue.                                                                  *)
LEMMA RecordReadyClassificationType ==
  ASSUME NEW d \in Manifest, NEW paper \in PaperId, NEW lane \in Lane
  PROVE  RecordReadyClassification(d, paper, lane) \in Manifest
<1>1. [lane |-> lane, stage |-> StageForLane(lane)] \in QueueRow
  BY LaneTypes DEF QueueRow
<1> QED
  BY <1>1 DEF RecordReadyClassification, SyncReviewItem, Manifest

(* mark_missing keeps the types: it changes the status of rows that        *)
(* exist, and makes none.                                                  *)
LEMMA MarkMissingType ==
  ASSUME NEW d \in Manifest, NEW observed \in SUBSET Path
  PROVE  MarkMissing(d, observed) \in Manifest
<1>1. \A i \in InstanceId : d.instance[i] # None =>
        [d.instance[i] EXCEPT !.status = "missing"] \in InstanceRow
  BY DEF Manifest, InstanceRow, InstanceStatus
<1>2. \A p \in Path : d.snapshot[p] # None =>
        [d.snapshot[p] EXCEPT !.status = "missing_path"] \in SnapshotRow
  BY DEF Manifest, SnapshotRow, DryStatus
<1> QED
  BY <1>1, <1>2 DEF MarkMissing, Manifest

(* A dry run keeps the types, whatever it reports of the files it found.   *)
LEMMA RecordSnapshotsType ==
  ASSUME NEW d \in Manifest, NEW found \in SUBSET Path, NEW status,
         \A p \in found : status[p] \in DryStatus
  PROVE  RecordSnapshots(d, found, status) \in Manifest
<1>1. \A p \in found :
        [status |-> status[p], sha |-> None, provider |-> TRUE] \in SnapshotRow
  BY DEF SnapshotRow
<1> QED
  BY <1>1 DEF RecordSnapshots, Manifest

(* What a dry run reports of a file is one of its statuses.                *)
LEMMA MetadataResultsType ==
  ASSUME NEW f
  PROVE  MetadataResults(f) \subseteq DryStatus
BY DEF MetadataResults, DryStatus

(* The tables as db.py creates them are well-typed.                        *)
LEMMA EmptyManifestType == EmptyManifest \in Manifest
BY DEF EmptyManifest, Manifest

-----------------------------------------------------------------------------
(* ... and keep the rows consistent.  What both record_ready and           *)
(* record_pending rest on: the id they look up is the only row of the      *)
(* path, if the path had one.                                              *)

(* record_ready: no other instance row is at the path it is about to       *)
(* write, for the lookup by path comes first and the path has one row at   *)
(* most.                                                                   *)
LEMMA ReadyInstanceOwnsPath ==
  ASSUME NEW d \in Manifest, NEW R, OneRowPerPathOutside(d, R), NEW p \in Path \ R, NEW c \in Content,
         NEW observed, NEW i \in InstanceForReady(d, p, c, observed)
  PROVE  SoleRow(d, p, i)
<1>1. CASE ExistingInstanceForPath(d, p) = {}
  BY <1>1 DEF ExistingInstanceForPath, SoleRow
<1>2. CASE ExistingInstanceForPath(d, p) # {}
  <2>1. i \in ExistingInstanceForPath(d, p)
    BY <1>2 DEF InstanceForReady
  <2> QED
    BY <2>1 DEF ExistingInstanceForPath, OneRowPerPathOutside, SoleRow
<1> QED
  BY <1>1, <1>2

(* record_pending: likewise, no other instance row is at the path.         *)
LEMMA PendingInstanceOwnsPath ==
  ASSUME NEW d \in Manifest, NEW R, OneRowPerPathOutside(d, R), NEW p \in Path \ R, NEW seed \in PaperId,
         NEW i \in InstanceForPending(d, p, seed)
  PROVE  SoleRow(d, p, i)
<1>1. CASE ExistingInstanceForPath(d, p) = {}
  BY <1>1 DEF ExistingInstanceForPath, SoleRow
<1>2. CASE ExistingInstanceForPath(d, p) # {}
  <2>1. i \in ExistingInstanceForPath(d, p)
    BY <1>2 DEF InstanceForPending
  <2> QED
    BY <2>1 DEF ExistingInstanceForPath, OneRowPerPathOutside, SoleRow
<1> QED
  BY <1>1, <1>2

(* Recording a ready file and its classification keeps the rows            *)
(* consistent, also when the upsert takes the row of another path, for any *)
(* id that is not looked up too late: the path has no row but its own.     *)
LEMMA RecordReadyKeepsRows ==
  ASSUME NEW d \in Manifest, NEW R, RowsConsistentOutside(d, R),
         NEW p \in Path, NEW c \in ValidPdf, NEW lane \in Lane, NEW i \in InstanceId,
         p \in R \/ SoleRow(d, p, i)
  PROVE  RowsConsistentOutside(
           RecordReadyClassification(RecordReady(d, p, c, i), c, lane), R)
<1> DEFINE e == RecordReadyClassification(RecordReady(d, p, c, i), c, lane)
           row == [paper |-> c, path |-> p, sha |-> c, status |-> "available"]
<1>1. c \in Content /\ c \in PaperId /\ i \in InstanceId
  BY ManifestAssumption DEF PaperId
<1>2. p \in R \/ \A j \in InstanceId \ {i} : d.instance[j] # None => d.instance[j].path # p
  BY DEF SoleRow
<1>3. e.instance = [d.instance EXCEPT ![i] = row]
  BY <1>1 DEF RecordReadyClassification, SyncReviewItem, RecordReady, RecordFile,
              InsertPaper, Manifest
<1>4. e.snapshot = [d.snapshot EXCEPT ![p] = [status |-> "ready", sha |-> c,
                                               provider |-> FALSE]]
  BY <1>1 DEF RecordReadyClassification, SyncReviewItem, RecordReady, RecordFile,
              InsertPaper, Manifest
<1>5. e.pending = [q \in Path |-> IF q = p \/ d.pending[q] = i THEN None
                                  ELSE d.pending[q]]
  BY <1>1 DEF RecordReadyClassification, SyncReviewItem, RecordReady, RecordFile,
              InsertPaper, Manifest
<1>6. /\ e.paper = [d.paper EXCEPT ![c] = lane]
      /\ e.decision = [d.decision EXCEPT ![c] = lane]
  BY <1>1 DEF RecordReadyClassification, SyncReviewItem, RecordReady, RecordFile,
              InsertPaper, Manifest
<1>7. row # None /\ lane # None
  BY <1>1, ManifestAssumption DEF InstanceRow, InstanceId, InstanceStatus
<1>8. \A j \in InstanceId : e.instance[j] = IF j = i THEN row ELSE d.instance[j]
  BY <1>1, <1>3 DEF Manifest
<1>9. \A j \in InstanceId : d.instance[j] # None => /\ d.instance[j].path \in Path
                                                  /\ d.instance[j].paper \in PaperId
  BY DEF Manifest, InstanceRow
<1> HIDE DEF e
<1>10. OneRowPerPathOutside(e, R)
  BY <1>2, <1>8 DEF OneRowPerPathOutside, RowsConsistentOutside
<1>11. AvailableIsClassified(e)
  BY <1>1, <1>6, <1>7, <1>8, <1>9 DEF AvailableIsClassified, RowsConsistentOutside, Manifest
<1>12. AvailableMatchesSnapshotOutside(e, R)
  <2> DEFINE now == [status |-> "ready", sha |-> c, provider |-> FALSE]
  <2>1. now \in SnapshotRow
    BY <1>1 DEF SnapshotRow
  <2>2. now # None /\ now.status = "ready" /\ now.sha = c /\ ~now.provider
    BY <2>1, ManifestAssumption
  <2>3. \A q \in Path : e.snapshot[q] = IF q = p THEN now ELSE d.snapshot[q]
    BY <1>4 DEF Manifest
  <2>4. row.sha = c /\ row.path = p
    OBVIOUS
  <2> HIDE DEF now, row
  <2> QED
    BY <1>2, <1>8, <1>9, <2>2, <2>3, <2>4
       DEF AvailableMatchesSnapshotOutside, RowsConsistentOutside
<1>13. PendingNotAvailable(e)
  BY <1>5, <1>7, <1>8 DEF PendingNotAvailable, RowsConsistentOutside, Manifest
<1> QED
  BY <1>10, <1>11, <1>12, <1>13 DEF RowsConsistentOutside, e

(* Recording a file that is not ready keeps the rows consistent in the     *)
(* same way, also when its hashless id belongs to another path.            *)
LEMMA RecordPendingKeepsRows ==
  ASSUME NEW d \in Manifest, NEW R, RowsConsistentOutside(d, R),
         NEW p \in Path, NEW seed \in PaperId, NEW i \in InstanceId,
         p \in R \/ SoleRow(d, p, i)
  PROVE  RowsConsistentOutside(RecordPending(d, p, seed, i), R)
<1> DEFINE e == RecordPending(d, p, seed, i)
           row == [paper |-> seed, path |-> p, sha |-> ShaOf(seed),
                   status |-> "pending_sync"]
<1>1. i \in InstanceId
  OBVIOUS
<1>2. p \in R \/ \A j \in InstanceId \ {i} : d.instance[j] # None => d.instance[j].path # p
  BY DEF SoleRow
<1>3. e.instance = [d.instance EXCEPT ![i] = row]
  BY <1>1 DEF RecordPending, RecordFile, InsertPaper, Manifest
<1>4. e.snapshot = [d.snapshot EXCEPT ![p] = [status |-> "pending", sha |-> ShaOf(seed),
                                               provider |-> FALSE]]
  BY <1>1 DEF RecordPending, RecordFile, InsertPaper, Manifest
<1>5. e.pending = [d.pending EXCEPT ![p] = i]
  BY <1>1 DEF RecordPending, RecordFile, InsertPaper, Manifest
<1>6. /\ \A q \in PaperId : d.paper[q] # None => e.paper[q] = d.paper[q]
      /\ e.decision = d.decision
  BY <1>1 DEF RecordPending, RecordFile, InsertPaper, Manifest
<1>7. row # None
  BY ShaOfType, ManifestAssumption DEF InstanceRow, InstanceStatus
<1>8. \A j \in InstanceId : e.instance[j] = IF j = i THEN row ELSE d.instance[j]
  BY <1>1, <1>3 DEF Manifest
<1>9. \A j \in InstanceId : d.instance[j] # None => /\ d.instance[j].path \in Path
                                                  /\ d.instance[j].paper \in PaperId
  BY DEF Manifest, InstanceRow
<1> HIDE DEF e
<1>10. OneRowPerPathOutside(e, R)
  BY <1>2, <1>8 DEF OneRowPerPathOutside, RowsConsistentOutside
<1>11. AvailableIsClassified(e)
  BY <1>6, <1>8, <1>9 DEF AvailableIsClassified, RowsConsistentOutside
<1>12. AvailableMatchesSnapshotOutside(e, R)
  BY <1>2, <1>4, <1>8, <1>9 DEF AvailableMatchesSnapshotOutside, RowsConsistentOutside, Manifest
<1>13. PendingNotAvailable(e)
  BY <1>1, <1>5, <1>7, <1>8 DEF PendingNotAvailable, RowsConsistentOutside, Manifest
<1> QED
  BY <1>10, <1>11, <1>12, <1>13 DEF RowsConsistentOutside, e

(* mark_missing keeps the rows consistent: an instance loses its           *)
(* availability together with its snapshot.                                *)
LEMMA MarkMissingKeepsRows ==
  ASSUME NEW d \in Manifest, NEW R, RowsConsistentOutside(d, R), NEW observed \in SUBSET Path
  PROVE  RowsConsistentOutside(MarkMissing(d, observed), R)
<1> DEFINE e == MarkMissing(d, observed)
<1>1. \A i \in InstanceId :
        e.instance[i] = IF d.instance[i] # None /\ d.instance[i].path \notin observed
                          THEN [d.instance[i] EXCEPT !.status = "missing"]
                          ELSE d.instance[i]
  BY DEF MarkMissing, Manifest
<1>2. \A p \in observed : e.snapshot[p] = d.snapshot[p]
  BY DEF MarkMissing, Manifest
<1>3. e.paper = d.paper /\ e.decision = d.decision /\ e.pending = d.pending
  BY DEF MarkMissing, Manifest
<1>4. \A i \in InstanceId : d.instance[i] # None =>
        /\ d.instance[i] \in InstanceRow
        /\ [d.instance[i] EXCEPT !.status = "missing"] \in InstanceRow
        /\ [d.instance[i] EXCEPT !.status = "missing"].path = d.instance[i].path
        /\ [d.instance[i] EXCEPT !.status = "missing"].status = "missing"
  BY DEF Manifest, InstanceRow, InstanceStatus
<1>5. \A i \in InstanceId :
        /\ e.instance[i] # None <=> d.instance[i] # None
        /\ e.instance[i] # None => /\ e.instance[i].path = d.instance[i].path
                                  /\ \/ e.instance[i].status = "missing"
                                     \/ e.instance[i] = d.instance[i] /\ d.instance[i].path \in observed
  <2> TAKE i \in InstanceId
  <2> DEFINE gone == [d.instance[i] EXCEPT !.status = "missing"]
  <2>1. CASE d.instance[i] # None /\ d.instance[i].path \notin observed
    <3>1. e.instance[i] = gone
      BY <1>1, <2>1
    <3>2. gone \in InstanceRow /\ gone.path = d.instance[i].path /\ gone.status = "missing"
      BY <1>4, <2>1
    <3> HIDE DEF gone, e
    <3> QED
      BY <2>1, <3>1, <3>2, ManifestAssumption
  <2>2. CASE ~(d.instance[i] # None /\ d.instance[i].path \notin observed)
    <3>1. e.instance[i] = d.instance[i]
      BY <1>1, <2>2
    <3> HIDE DEF e
    <3> QED
      BY <2>2, <3>1
  <2> QED
    BY <2>1, <2>2
<1>6. \A p \in Path : d.pending[p] # None => d.pending[p] \in InstanceId
  BY DEF Manifest
<1> HIDE DEF e
<1>10. OneRowPerPathOutside(e, R)
  BY <1>5 DEF OneRowPerPathOutside, RowsConsistentOutside
<1>11. AvailableIsClassified(e)
  BY <1>3, <1>5 DEF AvailableIsClassified, RowsConsistentOutside
<1>12. AvailableMatchesSnapshotOutside(e, R)
  BY <1>2, <1>5 DEF AvailableMatchesSnapshotOutside, RowsConsistentOutside
<1>13. PendingNotAvailable(e)
  BY <1>3, <1>5, <1>6 DEF PendingNotAvailable, RowsConsistentOutside
<1> QED
  BY <1>10, <1>11, <1>12, <1>13 DEF RowsConsistentOutside, e

(* A dry run keeps the rows consistent, whatever has become of a file      *)
(* between its walk and its look at it: what it writes has no hash that    *)
(* an available instance could contradict.                                 *)
LEMMA RecordSnapshotsKeepsRows ==
  ASSUME NEW d \in Manifest, NEW R, RowsConsistentOutside(d, R),
         NEW found \in SUBSET Path, NEW status,
         \A p \in found : status[p] \in DryStatus
  PROVE  RowsConsistentOutside(RecordSnapshots(d, found, status), R)
<1> DEFINE e == RecordSnapshots(d, found, status)
           looked(p) == [status |-> status[p], sha |-> None, provider |-> TRUE]
<1>1. /\ e.instance = d.instance /\ e.paper = d.paper
      /\ e.decision = d.decision /\ e.pending = d.pending
  BY DEF RecordSnapshots, Manifest
<1>2. \A p \in Path : e.snapshot[p] = IF p \in found THEN looked(p) ELSE d.snapshot[p]
  BY DEF RecordSnapshots, Manifest
<1>3. \A i \in InstanceId : d.instance[i] # None => d.instance[i].path \in Path
  BY DEF Manifest, InstanceRow
<1>4. \A p \in found : looked(p) # None /\ looked(p).provider /\ looked(p).sha = None
  <2> TAKE p \in found
  <2>1. looked(p) \in SnapshotRow
    BY DEF SnapshotRow
  <2> QED
    BY <2>1, ManifestAssumption
<1> HIDE DEF e, looked
<1>5. AvailableMatchesSnapshotOutside(e, R)
  BY <1>1, <1>2, <1>3, <1>4 DEF AvailableMatchesSnapshotOutside, RowsConsistentOutside
<1> QED
  BY <1>1, <1>5 DEF RowsConsistentOutside, OneRowPerPathOutside, AvailableIsClassified,
                    PendingNotAvailable, e

(* The empty tables are consistent.                                        *)
LEMMA EmptyManifestRows ==
  ASSUME NEW R
  PROVE  RowsConsistentOutside(EmptyManifest, R)
BY DEF EmptyManifest, RowsConsistentOutside, OneRowPerPathOutside, AvailableIsClassified,
       AvailableMatchesSnapshotOutside, PendingNotAvailable

(* The seed a probe leaves is one an id can be made from.                  *)
LEMMA ProbeResultType ==
  ASSUME NEW f \in FileState
  PROVE  ProbeResult(f) \in PaperId
BY DEF ProbeResult, PaperId, Hashless

=============================================================================
