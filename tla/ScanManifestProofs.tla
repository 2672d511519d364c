-------------------------- MODULE ScanManifestProofs --------------------------
(***************************************************************************)
(* What every history of scans leaves in the manifest, for every set of    *)
(* paths, contents and digests and any number of file changes and kills,   *)
(* and what imports leave in the inbox that the scans walk.                *)
(***************************************************************************)
EXTENDS InboxImport, ManifestTablesProofs

-----------------------------------------------------------------------------
(* The inductive invariant.                                                *)

(* The inductive invariant holds before the first scan.                    *)
LEMMA ScanInit == Init => InductiveInvariant
BY EmptyManifestType, EmptyManifestRows, ManifestAssumption, ScanAssumption
   DEF Init, InductiveInvariant, TypeOK, ScanState, IdleScan, ProbedBeforeRecorded

(* What InductiveInvariant says of the file whose turn it is to be recorded. *)
LEMMA RecordedFileFacts ==
  ASSUME InductiveInvariant, NEW p \in Path, scan.phase = "record", IsFirst(p, scan.todo)
  PROVE  scan.seen[p] \in PaperId
BY DEF InductiveInvariant, TypeOK, ScanState, ProbedBeforeRecorded, IsFirst

(* A step after which the scanner is idle again with an empty working copy. *)
LEMMA EndOfScan ==
  ASSUME InductiveInvariant, db' \in Manifest, RowsConsistentOutside(db', {}),
         scan' = IdleScan, tx' = EmptyManifest, UNCHANGED <<file, changes>>,
         crashes' \in 0..MaxCrashes
  PROVE  InductiveInvariant'
<1>1. IdleScan \in ScanState
  BY DEF IdleScan, ScanState
<1>2. RowsConsistentOutside(tx', {})
  BY EmptyManifestRows
<1>3. TypeOK'
  BY <1>1, EmptyManifestType DEF InductiveInvariant, TypeOK
<1>4. ProbedBeforeRecorded'
  BY DEF IdleScan, ProbedBeforeRecorded
<1>5. RowsConsistentOutside(db, {})' /\ RowsConsistentOutside(tx, {})'
  BY <1>2 DEF RowsConsistentOutside, OneRowPerPathOutside, AvailableIsClassified,
              AvailableMatchesSnapshotOutside, PendingNotAvailable
<1> QED
  BY <1>3, <1>4, <1>5 DEF InductiveInvariant

(* A step that leaves the committed manifest alone.                        *)
LEMMA StepInsideScan ==
  ASSUME InductiveInvariant, db' = db,
         tx' \in Manifest, RowsConsistentOutside(tx', {}),
         file' \in [Path -> FileState], scan' \in ScanState,
         changes' \in 0..MaxChanges, crashes' \in 0..MaxCrashes,
         ProbedBeforeRecorded'
  PROVE  InductiveInvariant'
<1>1. TypeOK'
  BY DEF InductiveInvariant, TypeOK
<1>2. RowsConsistentOutside(db, {})' /\ RowsConsistentOutside(tx, {})'
  BY DEF InductiveInvariant, RowsConsistentOutside, OneRowPerPathOutside, AvailableIsClassified,
         AvailableMatchesSnapshotOutside, PendingNotAvailable
<1> QED
  BY <1>1, <1>2 DEF InductiveInvariant

(* Whatever the user or the sync client puts at a path is a state a file   *)
(* can be in.                                                              *)
LEMMA NextFileState ==
  ASSUME InductiveInvariant, NEW p \in Path, NEW f \in FileState
  PROVE  [file EXCEPT ![p] = f] \in [Path -> FileState]
BY DEF InductiveInvariant, TypeOK

(* A file change that disturbs a scan leaves its progress alone.           *)
LEMMA DisturbFacts ==
  ASSUME InductiveInvariant
  PROVE  /\ Disturb \in ScanState
         /\ Disturb.todo = scan.todo /\ Disturb.observed = scan.observed
         /\ Disturb.seen = scan.seen /\ Disturb.phase = scan.phase
        /\ Disturb.stat = scan.stat
BY DEF InductiveInvariant, TypeOK, Disturb, ScanState

(* Each step of a scan, each change of a file and each kill keeps it.      *)
LEMMA ScanNext ==
  ASSUME InductiveInvariant, [Next]_vars
  PROVE  InductiveInvariant'
<1> USE DEF InductiveInvariant
<1>0. /\ TypeOK /\ RowsConsistentOutside(db, {}) /\ RowsConsistentOutside(tx, {}) /\ ProbedBeforeRecorded
      /\ changes + 1 \in Nat /\ crashes + 1 \in Nat
  BY ManifestAssumption DEF TypeOK
<1>1. ASSUME NEW phase \in {"probe", "stat"}, Walk(phase) PROVE InductiveInvariant'
  <2>1. /\ scan'.phase = phase /\ scan'.todo = scan'.observed
        /\ scan'.observed \in SUBSET Path /\ scan' \in ScanState
    BY <1>1 DEF Walk, IdleScan, ScanState
  <2>2. ProbedBeforeRecorded'
    BY <1>1, <2>1 DEF ProbedBeforeRecorded
  <2> QED
    BY <1>0, <1>1, <2>1, <2>2, StepInsideScan DEF Walk, TypeOK
<1>2. CASE ScanBegin
  <2>1. /\ scan' \in ScanState
        /\ scan'.observed = scan.observed /\ scan'.todo = scan.observed
        /\ scan'.seen = scan.seen /\ scan.todo = {} /\ scan'.phase = "record"
        /\ scan.phase = "probe"
    BY <1>2, <1>0 DEF ScanBegin, TypeOK, ScanState
  <2>2. ProbedBeforeRecorded'
    BY <1>0, <2>1 DEF ProbedBeforeRecorded
  <2> QED
    BY <1>0, <1>2, <2>1, <2>2, StepInsideScan DEF ScanBegin, TypeOK
<1>3. CASE ScanCommit
  <2>1. scan.observed \in SUBSET Path
    BY <1>0 DEF TypeOK, ScanState
  <2> QED
    BY <1>0, <1>3, <2>1, MarkMissingType, MarkMissingKeepsRows, EndOfScan
       DEF ScanCommit, TypeOK
<1>4. ASSUME NEW p \in Path, ScanProbe(p) PROVE InductiveInvariant'
  <2>1. ProbeResult(file[p]) \in PaperId
    BY <1>0, ProbeResultType DEF TypeOK
  <2>2. ProbeResult(file[p]) # None
    BY <2>1, ManifestAssumption
  <2>3. /\ scan' \in ScanState
        /\ scan'.observed = scan.observed /\ scan'.phase = "probe"
        /\ scan'.todo = scan.todo \ {p} /\ scan.phase = "probe"
        /\ scan'.seen = [scan.seen EXCEPT ![p] = ProbeResult(file[p])]
        /\ scan.seen \in [Path -> PaperId \cup {None}] /\ scan.observed \subseteq Path
    BY <1>0, <1>4, <2>1 DEF ScanProbe, TypeOK, ScanState
  <2>4. ProbedBeforeRecorded'
    BY <1>0, <2>2, <2>3 DEF ProbedBeforeRecorded
  <2> QED
    BY <1>0, <1>4, <2>3, <2>4, StepInsideScan DEF ScanProbe, TypeOK
<1>5. ASSUME NEW p \in Path, ScanRecordReady(p) PROVE InductiveInvariant'
  <2> DEFINE c == scan.seen[p]
             lane == ClassifyDocument(p, file[p])
  <2>1. c \in ValidPdf /\ c \in Content /\ c \in PaperId
    BY <1>5, ManifestAssumption DEF ScanRecordReady, PaperId
  <2>2. lane \in Lane
    BY ClassifyDocumentType
  <2>3. PICK i \in InstanceForReady(tx, p, c, scan.observed) :
          tx' = RecordReadyClassification(RecordReady(tx, p, c, i), c, lane)
    BY <1>5 DEF ScanRecordReady
  <2>4. i \in InstanceId /\ tx \in Manifest
    BY <1>0, <2>1, InstanceForReadyType DEF TypeOK
  <2>5. tx' \in Manifest
    BY <2>1, <2>2, <2>3, <2>4, RecordReadyType, RecordReadyClassificationType
  <2>6. RowsConsistentOutside(tx', {})
    BY <1>0, <2>1, <2>2, <2>3, <2>4, ReadyInstanceOwnsPath, RecordReadyKeepsRows
       DEF RowsConsistentOutside
  <2>7. /\ scan' \in ScanState
        /\ scan'.observed = scan.observed /\ scan'.phase = scan.phase
        /\ scan'.todo = scan.todo \ {p} /\ scan'.seen = scan.seen
        /\ scan.phase = "record"
    BY <1>0, <1>5 DEF ScanRecordReady, TypeOK, ScanState
  <2>8. ProbedBeforeRecorded'
    BY <1>0, <2>7 DEF ProbedBeforeRecorded
  <2> QED
    BY <1>0, <1>5, <2>5, <2>6, <2>7, <2>8, StepInsideScan DEF ScanRecordReady, TypeOK
<1>6. ASSUME NEW p \in Path, ScanRecordPending(p) PROVE InductiveInvariant'
  <2>1. scan.seen[p] \in PaperId
    BY <1>6, RecordedFileFacts DEF ScanRecordPending
  <2>2. PICK i \in InstanceForPending(tx, p, scan.seen[p]) :
          tx' = RecordPending(tx, p, scan.seen[p], i)
    BY <1>6 DEF ScanRecordPending
  <2>3. i \in InstanceId /\ tx \in Manifest
    BY <1>0, <2>1, InstanceForPendingType DEF TypeOK
  <2>4. tx' \in Manifest
    BY <2>1, <2>2, <2>3, RecordPendingType
  <2>5. RowsConsistentOutside(tx', {})
    BY <1>0, <2>1, <2>2, <2>3, PendingInstanceOwnsPath, RecordPendingKeepsRows
       DEF RowsConsistentOutside
  <2>6. /\ scan' \in ScanState
        /\ scan'.observed = scan.observed /\ scan'.phase = scan.phase
        /\ scan'.todo = scan.todo \ {p} /\ scan'.seen = scan.seen
        /\ scan.phase = "record"
    BY <1>0, <1>6 DEF ScanRecordPending, TypeOK, ScanState
  <2>7. ProbedBeforeRecorded'
    BY <1>0, <2>6 DEF ProbedBeforeRecorded
  <2> QED
    BY <1>0, <1>6, <2>4, <2>5, <2>6, <2>7, StepInsideScan DEF ScanRecordPending, TypeOK
<1>7. ASSUME NEW p \in Path, ScanReadFails(p) PROVE InductiveInvariant'
  BY <1>0, <1>7, EndOfScan DEF ScanReadFails, RollBack, TypeOK
<1>8. CASE ScanCrash
  <2>1. crashes' \in 0..MaxCrashes
    BY <1>0, <1>8, ManifestAssumption, ScanAssumption DEF ScanCrash, TypeOK
  <2> QED
    BY <1>0, <1>8, <2>1, EndOfScan DEF ScanCrash, RollBack, TypeOK
<1>9. CASE DryRunGoesOn
  <2>1. ASSUME NEW p \in Path, DryRunStat(p) PROVE InductiveInvariant'
    <3>1. PICK status \in MetadataResults(file[p]) :
            scan' = [scan EXCEPT !.todo = @ \ {p}, !.stat[p] = status]
      BY <2>1 DEF DryRunStat
    <3>2. status \in DryStatus /\ status # None
      BY MetadataResultsType, ManifestAssumption
    <3>3. /\ scan' \in ScanState
          /\ scan'.observed = scan.observed /\ scan'.phase = "stat"
          /\ scan'.todo = scan.todo \ {p} /\ scan.phase = "stat"
          /\ scan'.stat = [scan.stat EXCEPT ![p] = status]
          /\ scan.stat \in [Path -> DryStatus \cup {None}] /\ scan.observed \subseteq Path
      BY <1>0, <2>1, <3>1, <3>2 DEF DryRunStat, TypeOK, ScanState
    <3>4. ProbedBeforeRecorded'
      BY <1>0, <3>2, <3>3 DEF ProbedBeforeRecorded
    <3> QED
      BY <1>0, <2>1, <3>3, <3>4, StepInsideScan DEF DryRunStat, TypeOK
  <2>2. CASE DryRunCommit
    <3>1. /\ scan.observed \in SUBSET Path /\ db \in Manifest
          /\ \A p \in scan.observed : scan.stat[p] \in DryStatus
      BY <1>0, <2>2 DEF DryRunCommit, ProbedBeforeRecorded, TypeOK, ScanState
    <3>2. db' \in Manifest /\ RowsConsistentOutside(db', {})
      BY <1>0, <2>2, <3>1, RecordSnapshotsType, RecordSnapshotsKeepsRows DEF DryRunCommit
    <3>3. IdleScan \in ScanState
      BY DEF IdleScan, ScanState
    <3>4. TypeOK' /\ ProbedBeforeRecorded'
      BY <1>0, <2>2, <3>2, <3>3 DEF DryRunCommit, IdleScan, TypeOK, ProbedBeforeRecorded
    <3>5. RowsConsistentOutside(db, {})' /\ RowsConsistentOutside(tx, {})'
      BY <1>0, <2>2, <3>2 DEF DryRunCommit, RowsConsistentOutside, OneRowPerPathOutside,
         AvailableIsClassified, AvailableMatchesSnapshotOutside, PendingNotAvailable
    <3> QED
      BY <3>4, <3>5
  <2> QED
    BY <1>9, <2>1, <2>2 DEF DryRunGoesOn
<1>10. ASSUME NEW p \in Path, FileChange(p) PROVE InductiveInvariant'
  <2>1. /\ file' \in [Path -> FileState] /\ changes' \in 0..MaxChanges
    BY <1>0, <1>10, NextFileState, ManifestAssumption, ScanAssumption DEF FileChange, TypeOK
  <2>2. ProbedBeforeRecorded'
    BY <1>0, <1>10, DisturbFacts DEF FileChange, ProbedBeforeRecorded
  <2> QED
    BY <1>0, <1>10, <2>1, <2>2, DisturbFacts, StepInsideScan DEF FileChange, TypeOK
<1>11. ASSUME NEW p \in Path, ScanProbeUnstable(p) PROVE InductiveInvariant'
  <2>1. PICK u \in Unstable, c \in Content :
          /\ file' = [file EXCEPT ![p] = c]
          /\ scan' = [Disturb EXCEPT !.todo = @ \ {p}, !.seen[p] = u]
    BY <1>11 DEF ScanProbeUnstable
  <2>2. u \in PaperId /\ u # None
    BY ManifestAssumption DEF PaperId, Hashless
  <2>3. /\ file' \in [Path -> FileState] /\ changes' \in 0..MaxChanges
    BY <1>0, <1>11, <2>1, NextFileState, ManifestAssumption, ScanAssumption DEF ScanProbeUnstable, TypeOK, FileState
  <2>4. /\ scan' \in ScanState
        /\ scan'.observed = scan.observed /\ scan'.phase = "probe"
        /\ scan'.todo = scan.todo \ {p} /\ scan.phase = "probe"
        /\ scan'.seen = [scan.seen EXCEPT ![p] = u]
        /\ scan.seen \in [Path -> PaperId \cup {None}] /\ scan.observed \subseteq Path
    BY <1>0, <1>11, <2>1, <2>2, DisturbFacts DEF ScanProbeUnstable, TypeOK, ScanState
  <2>5. ProbedBeforeRecorded'
    BY <1>0, <2>2, <2>4 DEF ProbedBeforeRecorded
  <2> QED
    BY <1>0, <1>11, <2>3, <2>4, <2>5, StepInsideScan DEF ScanProbeUnstable, TypeOK
<1>12. ASSUME NEW p \in Path, NEW q \in Path, FileMove(p, q) PROVE InductiveInvariant'
  <2>1. /\ file' \in [Path -> FileState] /\ changes' \in 0..MaxChanges
    BY <1>0, <1>12, ManifestAssumption, ScanAssumption DEF FileMove, TypeOK, FileState
  <2>2. ProbedBeforeRecorded'
    BY <1>0, <1>12, DisturbFacts DEF FileMove, ProbedBeforeRecorded
  <2> QED
    BY <1>0, <1>12, <2>1, <2>2, DisturbFacts, StepInsideScan DEF FileMove, TypeOK
<1>13. CASE UNCHANGED vars
  BY <1>0, <1>13 DEF vars, TypeOK, ProbedBeforeRecorded, RowsConsistentOutside, OneRowPerPathOutside,
     AvailableIsClassified, AvailableMatchesSnapshotOutside, PendingNotAvailable
<1> QED
  BY <1>1, <1>2, <1>3, <1>4, <1>5, <1>6, <1>7, <1>8, <1>9, <1>10, <1>11, <1>12, <1>13
     DEF Next, ScanStep, Environment, ScanWalk, DryRunWalk

(* The inductive invariant holds in every state that scans, dry runs,      *)
(* kills and file changes can lead to.                                     *)
THEOREM ScanInductive == Spec => []InductiveInvariant
BY ScanInit, ScanNext, PTL DEF Spec

(* The committed manifest is well-typed, whatever the scans did to it.     *)
THEOREM ScanTypeCorrect == Spec => []TypeOK
<1>1. InductiveInvariant => TypeOK
  BY DEF InductiveInvariant
<1> QED
  BY <1>1, ScanInductive, PTL

(* No path ever has two instance rows.                                     *)
THEOREM ScanOneRowPerPath == Spec => []CommittedOneRowPerPath
<1>1. InductiveInvariant => CommittedOneRowPerPath
  BY DEF InductiveInvariant, RowsConsistentOutside, CommittedOneRowPerPath
<1> QED
  BY <1>1, ScanInductive, PTL

(* What the index builder may read has been classified.                    *)
THEOREM ScanAvailableIsClassified == Spec => []CommittedAvailableIsClassified
<1>1. InductiveInvariant => CommittedAvailableIsClassified
  BY DEF InductiveInvariant, RowsConsistentOutside, CommittedAvailableIsClassified
<1> QED
  BY <1>1, ScanInductive, PTL

(* An available instance agrees with the snapshot of its path.             *)
THEOREM ScanAvailableMatchesSnapshot == Spec => []CommittedAvailableMatchesSnapshot
<1>1. InductiveInvariant => CommittedAvailableMatchesSnapshot
  BY DEF InductiveInvariant, RowsConsistentOutside, CommittedAvailableMatchesSnapshot
<1> QED
  BY <1>1, ScanInductive, PTL

(* No retry row refers to an available instance, or to none.               *)
THEOREM ScanPendingNotAvailable == Spec => []CommittedPendingNotAvailable
<1>1. InductiveInvariant => CommittedPendingNotAvailable
  BY DEF InductiveInvariant, RowsConsistentOutside, CommittedPendingNotAvailable
<1> QED
  BY <1>1, ScanInductive, PTL

-----------------------------------------------------------------------------
(* A scan that nothing has disturbed.  What it has recorded so far is an   *)
(* account of those files, or one more row has got its own name.           *)

Handled == scan.observed \ scan.todo

(* It has seen the files as they are.                                      *)
QuietSeen ==
  (scan.phase # "idle" /\ scan.quiet) =>
    /\ scan.observed = {p \in Path : file[p] # None}
    /\ \A p \in scan.observed :
         (\/ scan.phase = "record"
          \/ scan.phase = "probe" /\ p \notin scan.todo) => scan.seen[p] = ProbeResult(file[p])

(* The row i of d is at a path of H that has the content of path p.        *)
StandsFor(d, H, i, p) ==
  /\ d.instance[i] # None
  /\ d.instance[i].path \in H
  /\ file[d.instance[i].path] = file[p]

(* What the manifest d says of path p, by rows at the paths of H.          *)
AccountsFor(d, H, p) ==
  /\ file[p] \in ValidPdf =>
       /\ d.pending[p] = None
       /\ \E i \in InstanceId : /\ StandsFor(d, H, i, p)
                                /\ d.instance[i].sha = file[p]
                                /\ d.instance[i].status = "available"
       /\ file[p] \in SensitiveContent => d.paper[file[p]] = "red"
  /\ file[p] \notin ValidPdf =>
       \E i \in InstanceId : d.pending[p] = i /\ StandsFor(d, H, i, p)

(* No available row at a path of H has another content than its file.      *)
TrueAt(d, H) ==
  \A i \in InstanceId :
    (/\ d.instance[i] # None
     /\ d.instance[i].path \in H
     /\ d.instance[i].status = "available") =>
      /\ file[d.instance[i].path] \in ValidPdf
      /\ d.instance[i].sha = file[d.instance[i].path]

QuietAccount ==
  (scan.phase = "record" /\ scan.quiet) =>
    /\ TrueAt(tx, Handled)
    /\ OwnNamed(db) \subseteq OwnNamed(tx)
    /\ OwnNamed(tx) = OwnNamed(db) => \A p \in Handled : AccountsFor(tx, Handled, p)

QuietInvariant == InductiveInvariant /\ QuietSeen /\ QuietAccount

(* Two files that a probe reports alike are alike.                         *)
LEMMA ProbeTellsApart ==
  ASSUME NEW f \in FileState \ {None}, NEW g \in FileState \ {None},
         ProbeResult(f) = ProbeResult(g)
  PROVE  f = g
BY ManifestAssumption DEF ProbeResult, FileState, Hashless

(* A statement makes e of d by giving row i to path p, whose file is there *)
(* as are those at the paths of H.  If row i was not there before, nor at  *)
(* a path whose file is gone, its id is made from the file at p.           *)
GivesRow(d, e, p, i, H) ==
  /\ H \subseteq Path \ {p} /\ file[p] # None /\ \A q \in H : file[q] # None
  /\ \A j \in InstanceId \ {i} : e.instance[j] = d.instance[j]
  /\ e.instance[i] # None /\ e.instance[i].path = p
  /\ \/ /\ d.instance[i] # None
        /\ d.instance[i].path = p \/ file[d.instance[i].path] = None
     \/ i = ProbeResult(file[p])

(* No name is lost by it, and if none is gained, whoever loses the row has *)
(* the same content.                                                       *)
KeepsNames(d, e, p, i, H) ==
  /\ OwnNamed(d) \subseteq OwnNamed(e)
  /\ OwnNamed(e) = OwnNamed(d) =>
       \A j \in InstanceId, q \in Path :
         StandsFor(d, H, j, q) =>
           StandsFor(e, H \cup {p}, j, q) /\ (j = i => file[p] = file[q])

LEMMA NamesStay ==
  ASSUME file \in [Path -> FileState], NEW d, NEW e, NEW p \in Path, NEW i \in InstanceId,
         NEW H, GivesRow(d, e, p, i, H)
  PROVE  KeepsNames(d, e, p, i, H)
<1>1. OwnNamed(d) \subseteq OwnNamed(e)
  BY DEF OwnNamed, GivesRow
<1>2. ASSUME OwnNamed(e) = OwnNamed(d), NEW j \in InstanceId, NEW q \in Path, StandsFor(d, H, j, q)
      PROVE  StandsFor(e, H \cup {p}, j, q) /\ (j = i => file[p] = file[q])
  <2>1. CASE j # i
    BY <1>2, <2>1 DEF StandsFor, GivesRow
  <2>2. CASE j = i
    <3>1. /\ d.instance[i] # None /\ d.instance[i].path \in H
          /\ file[d.instance[i].path] = file[q]
      BY <1>2, <2>2 DEF StandsFor
    <3>2. i = ProbeResult(file[p])
      BY <3>1 DEF GivesRow
    <3>3. i \in OwnNamed(d)
      BY <1>2, <3>2 DEF OwnNamed, GivesRow
    <3>4. ProbeResult(file[d.instance[i].path]) = ProbeResult(file[p])
      BY <3>2, <3>3 DEF OwnNamed
    <3>5. file[q] = file[p]
      BY <1>2, <3>1, <3>4, ProbeTellsApart DEF GivesRow
    <3> QED
      BY <2>2, <3>5 DEF StandsFor, GivesRow
  <2> QED
    BY <2>1, <2>2
<1> QED
  BY <1>1, <1>2 DEF KeepsNames

(* A statement that makes e of d keeps the account of the paths of H and   *)
(* adds p to it, or gains a name.                                          *)
KeepsAccount(d, e, p, H) ==
  /\ OwnNamed(d) \subseteq OwnNamed(e)
  /\ TrueAt(e, H \cup {p})
  /\ (OwnNamed(e) = OwnNamed(d) /\ \A q \in H : AccountsFor(d, H, q)) =>
       \A q \in H \cup {p} : AccountsFor(e, H \cup {p}, q)

(* record_ready, of a file that is still what was hashed.                  *)
LEMMA RecordReadyAccounts ==
  ASSUME file \in [Path -> FileState], NEW d \in Manifest,
         NEW p \in Path, NEW H \in SUBSET Path, p \notin H,
         NEW observed, \A q \in Path : q \in observed <=> file[q] # None,
         \A q \in H : file[q] # None, file[p] \in ValidPdf,
         NEW i \in InstanceForReady(d, p, file[p], observed),
         NEW e, e = RecordReadyClassification(RecordReady(d, p, file[p], i), file[p],
                                              ClassifyDocument(p, file[p])),
         TrueAt(d, H), OneRowPerPathOutside(d, {})
  PROVE  KeepsAccount(d, e, p, H)
<1> DEFINE c == file[p]
           lane == ClassifyDocument(p, c)
           row == [paper |-> c, path |-> p, sha |-> c, status |-> "available"]
<1>1. c \in Content /\ c \in PaperId /\ i \in InstanceId /\ c # None
  BY ManifestAssumption, InstanceForReadyType DEF PaperId
<1>2. /\ \A j \in InstanceId : e.instance[j] = IF j = i THEN row ELSE d.instance[j]
      /\ \A q \in Path : e.pending[q] = IF q = p \/ d.pending[q] = i THEN None ELSE d.pending[q]
      /\ \A r \in PaperId : e.paper[r] = IF r = c THEN lane ELSE d.paper[r]
  BY <1>1 DEF RecordReadyClassification, SyncReviewItem, RecordReady, RecordFile,
              InsertPaper, Manifest
<1>3. row # None
  BY <1>1, ManifestAssumption DEF InstanceRow, InstanceStatus
<1>4. \/ /\ d.instance[i] # None
         /\ d.instance[i].path = p \/ file[d.instance[i].path] = None
      \/ i = ProbeResult(c)
  <2>1. d.instance[i] # None => d.instance[i].path \in Path
    BY <1>1 DEF Manifest, InstanceRow
  <2> QED
    BY <1>1, <2>1 DEF InstanceForReady, ExistingInstanceForPath, MovedInstanceForSha, ProbeResult
<1>5. c \in SensitiveContent => lane = "red"
  BY DEF ClassifyDocument, IsRed
<1> HIDE DEF row, lane
<1>6. row.path = p /\ row.sha = c /\ row.status = "available"
  BY DEF row
<1>7. KeepsNames(d, e, p, i, H)
  <2>1. GivesRow(d, e, p, i, H)
    BY <1>1, <1>2, <1>3, <1>4, <1>6 DEF GivesRow
  <2> QED
    BY <1>1, <2>1, NamesStay
<1>8. TrueAt(e, H \cup {p})
  <2>1. SoleRow(d, p, i)
    BY <1>1, ReadyInstanceOwnsPath
  <2> QED
    BY <1>1, <1>2, <1>6, <2>1 DEF TrueAt, SoleRow
<1>9. ASSUME OwnNamed(e) = OwnNamed(d), \A q \in H : AccountsFor(d, H, q), NEW q \in H \cup {p}
      PROVE  AccountsFor(e, H \cup {p}, q)
  <2>1. CASE q = p
    BY <1>1, <1>2, <1>3, <1>5, <1>6, <2>1 DEF AccountsFor, StandsFor
  <2>2. CASE q # p /\ c = file[q]
    <3>1. StandsFor(e, H \cup {p}, i, q) /\ e.instance[i].sha = c /\ e.instance[i].status = "available"
      BY <1>1, <1>2, <1>3, <1>6, <2>2 DEF StandsFor
    <3>2. d.pending[q] = None
      BY <1>9, <2>2 DEF AccountsFor
    <3> QED
      BY <1>1, <1>2, <1>5, <2>2, <3>1, <3>2 DEF AccountsFor
  <2>3. CASE q # p /\ c # file[q] /\ file[q] \in ValidPdf
    <3>1. PICK j \in InstanceId : /\ StandsFor(d, H, j, q)
                                  /\ d.instance[j].sha = file[q]
                                  /\ d.instance[j].status = "available"
      BY <1>9, <2>3 DEF AccountsFor
    <3>2. StandsFor(e, H \cup {p}, j, q) /\ j # i
      BY <1>7, <1>9, <2>3, <3>1 DEF KeepsNames
    <3>3. e.instance[j] = d.instance[j]
      BY <1>2, <3>2
    <3>4. file[q] \in PaperId
      BY <2>3, ManifestAssumption DEF PaperId
    <3>5. e.pending[q] = None /\ (file[q] \in SensitiveContent => e.paper[file[q]] = "red")
      BY <1>2, <1>9, <2>3, <3>4 DEF AccountsFor
    <3> QED
      BY <2>3, <3>1, <3>2, <3>3, <3>5 DEF AccountsFor
  <2>4. CASE q # p /\ file[q] \notin ValidPdf
    <3>1. PICK j \in InstanceId : d.pending[q] = j /\ StandsFor(d, H, j, q)
      BY <1>9, <2>4 DEF AccountsFor
    <3>2. StandsFor(e, H \cup {p}, j, q) /\ j # i
      BY <1>7, <1>9, <2>4, <3>1 DEF KeepsNames
    <3>3. e.pending[q] = j
      BY <1>2, <2>4, <3>1, <3>2
    <3> QED
      BY <2>4, <3>2, <3>3 DEF AccountsFor
  <2> QED
    BY <2>1, <2>2, <2>3, <2>4
<1> QED
  BY <1>7, <1>8, <1>9 DEF KeepsNames, KeepsAccount

(* record_pending, likewise.                                               *)
LEMMA RecordPendingAccounts ==
  ASSUME file \in [Path -> FileState], NEW d \in Manifest,
         NEW p \in Path, NEW H \in SUBSET Path, p \notin H,
         \A q \in H : file[q] # None, file[p] # None, file[p] \notin ValidPdf,
         NEW seed, seed = ProbeResult(file[p]),
         NEW i \in InstanceForPending(d, p, seed),
         NEW e, e = RecordPending(d, p, seed, i),
         TrueAt(d, H), OneRowPerPathOutside(d, {})
  PROVE  KeepsAccount(d, e, p, H)
<1> DEFINE row == [paper |-> seed, path |-> p, sha |-> ShaOf(seed), status |-> "pending_sync"]
<1>1. seed \in PaperId /\ i \in InstanceId
  BY ProbeResultType, InstanceForPendingType
<1>2. /\ \A j \in InstanceId : e.instance[j] = IF j = i THEN row ELSE d.instance[j]
      /\ \A q \in Path : e.pending[q] = IF q = p THEN i ELSE d.pending[q]
      /\ \A r \in PaperId : d.paper[r] # None => e.paper[r] = d.paper[r]
  BY <1>1 DEF RecordPending, RecordFile, InsertPaper, Manifest
<1>3. row # None
  BY <1>1, ShaOfType, ManifestAssumption DEF InstanceRow, InstanceStatus
<1>4. (d.instance[i] # None /\ d.instance[i].path = p) \/ i = ProbeResult(file[p])
  BY DEF InstanceForPending, ExistingInstanceForPath
<1> HIDE DEF row
<1>5. row.path = p /\ row.status = "pending_sync"
  BY DEF row
<1>6. KeepsNames(d, e, p, i, H)
  <2>1. GivesRow(d, e, p, i, H)
    BY <1>1, <1>2, <1>3, <1>4, <1>5 DEF GivesRow
  <2> QED
    BY <1>1, <2>1, NamesStay
<1>7. TrueAt(e, H \cup {p})
  <2>1. SoleRow(d, p, i)
    BY <1>1, PendingInstanceOwnsPath
  <2> QED
    BY <1>1, <1>2, <1>5, <2>1 DEF TrueAt, SoleRow
<1>8. ASSUME OwnNamed(e) = OwnNamed(d), \A q \in H : AccountsFor(d, H, q), NEW q \in H \cup {p}
      PROVE  AccountsFor(e, H \cup {p}, q)
  <2>1. CASE q = p
    BY <1>1, <1>2, <1>3, <1>5, <2>1 DEF AccountsFor, StandsFor
  <2>2. CASE q # p /\ file[q] \in ValidPdf
    <3>1. PICK j \in InstanceId : /\ StandsFor(d, H, j, q)
                                  /\ d.instance[j].sha = file[q]
                                  /\ d.instance[j].status = "available"
      BY <1>8, <2>2 DEF AccountsFor
    <3>2. StandsFor(e, H \cup {p}, j, q) /\ j # i
      BY <1>6, <1>8, <2>2, <3>1 DEF KeepsNames
    <3>3. e.instance[j] = d.instance[j]
      BY <1>2, <3>2
    <3>4. file[q] \in PaperId /\ "red" # None
      BY <2>2, ManifestAssumption DEF PaperId, Lane
    <3>5. e.pending[q] = None /\ (file[q] \in SensitiveContent => e.paper[file[q]] = "red")
      BY <1>2, <1>8, <2>2, <3>4 DEF AccountsFor
    <3> QED
      BY <2>2, <3>1, <3>2, <3>3, <3>5 DEF AccountsFor
  <2>3. CASE q # p /\ file[q] \notin ValidPdf
    <3>1. PICK j \in InstanceId : d.pending[q] = j /\ StandsFor(d, H, j, q)
      BY <1>8, <2>3 DEF AccountsFor
    <3>2. StandsFor(e, H \cup {p}, j, q) /\ e.pending[q] = j
      BY <1>2, <1>6, <1>8, <2>3, <3>1 DEF KeepsNames
    <3> QED
      BY <2>3, <3>2 DEF AccountsFor
  <2> QED
    BY <2>1, <2>2, <2>3
<1> QED
  BY <1>6, <1>7, <1>8 DEF KeepsNames, KeepsAccount

(* A file that an undisturbed scan records is as the scan has seen it.     *)
LEMMA QuietFileFacts ==
  ASSUME QuietInvariant, scan.phase = "record", scan.quiet,
         NEW p \in Path, IsFirst(p, scan.todo)
  PROVE  /\ scan.observed = {q \in Path : file[q] # None} /\ file[p] # None
         /\ scan.seen[p] = ProbeResult(file[p])
         /\ p \notin Handled /\ Handled \in SUBSET Path /\ Handled \subseteq scan.observed
         /\ scan.observed \ (scan.todo \ {p}) = Handled \cup {p}
         /\ scan.seen[p] \in ValidPdf <=> file[p] \in ValidPdf
         /\ scan.seen[p] \in ValidPdf => scan.seen[p] = file[p]
<1>1. /\ scan.observed = {q \in Path : file[q] # None} /\ p \in scan.todo
      /\ scan.todo \subseteq scan.observed
      /\ \A q \in scan.observed : scan.seen[q] = ProbeResult(file[q])
      /\ file[p] \in FileState
  BY DEF QuietInvariant, QuietSeen, InductiveInvariant, ProbedBeforeRecorded, IsFirst, TypeOK
<1>2. scan.seen[p] \in Content <=> file[p] \in Content
  BY <1>1, ManifestAssumption DEF ProbeResult, Hashless
<1>3. scan.seen[p] \in Content => scan.seen[p] = file[p]
  BY <1>1, <1>2 DEF ProbeResult
<1> QED
  BY <1>1, <1>2, <1>3, ManifestAssumption DEF Handled

(* A scan begins undisturbed, and stays so only while no file changes.     *)
LEMMA QuietInit == Init => QuietInvariant
BY ScanInit DEF Init, IdleScan, QuietInvariant, QuietSeen, QuietAccount

(* Each step of an undisturbed scan keeps its account of what it has       *)
(* recorded; every other step ends the scan or its quiet.                  *)
LEMMA QuietNext ==
  ASSUME QuietInvariant, [Next]_vars
  PROVE  QuietInvariant'
<1>0. InductiveInvariant /\ InductiveInvariant' /\ QuietSeen /\ QuietAccount /\ TypeOK
  BY ScanNext DEF QuietInvariant, InductiveInvariant
<1>1. CASE scan'.phase = "idle" \/ ~scan'.quiet
  BY <1>0, <1>1 DEF QuietInvariant, QuietSeen, QuietAccount
<1>2. CASE ScanWalk \/ DryRunWalk
  BY <1>0, <1>2 DEF ScanWalk, DryRunWalk, Walk, IdleScan, QuietInvariant, QuietSeen, QuietAccount
<1>3. CASE ScanBegin
  <2>1. /\ scan'.phase = "record" /\ scan'.todo = scan.observed /\ scan'.observed = scan.observed
        /\ scan'.seen = scan.seen /\ scan'.quiet = scan.quiet /\ scan.phase = "probe" /\ scan.todo = {}
        /\ tx' = db /\ db' = db /\ file' = file
    BY <1>0, <1>3 DEF ScanBegin, TypeOK, ScanState
  <2>2. Handled' = {}
    BY <2>1 DEF Handled
  <2>3. OwnNamed(db)' = OwnNamed(tx)'
    BY <2>1 DEF OwnNamed
  <2>4. QuietAccount'
    BY <2>2, <2>3 DEF QuietAccount, TrueAt
  <2> QED
    BY <1>0, <2>1, <2>4 DEF QuietInvariant, QuietSeen
<1>4. CASE ScanCommit
  BY <1>1, <1>4 DEF ScanCommit, IdleScan
<1>5. ASSUME NEW p \in Path, ScanProbe(p) PROVE QuietInvariant'
  <2>1. /\ scan'.observed = scan.observed /\ scan'.phase = "probe" /\ scan.phase = "probe"
        /\ scan'.todo = scan.todo \ {p} /\ scan'.quiet = scan.quiet
        /\ scan'.seen = [scan.seen EXCEPT ![p] = ProbeResult(file[p])]
        /\ scan.seen \in [Path -> PaperId \cup {None}] /\ scan.observed \subseteq Path
        /\ file' = file
    BY <1>0, <1>5 DEF ScanProbe, TypeOK, ScanState
  <2> QED
    BY <1>0, <2>1 DEF QuietInvariant, QuietSeen, QuietAccount
<1>6. ASSUME NEW p \in Path, ScanRecordReady(p) \/ ScanRecordPending(p), scan.quiet
      PROVE  QuietInvariant'
  <2>1. /\ scan'.observed = scan.observed /\ scan'.phase = "record" /\ scan.phase = "record"
        /\ scan'.todo = scan.todo \ {p} /\ scan'.quiet = scan.quiet /\ scan'.seen = scan.seen
        /\ file' = file /\ db' = db /\ IsFirst(p, scan.todo)
        /\ file \in [Path -> FileState] /\ tx \in Manifest /\ scan.observed \in SUBSET Path
    BY <1>0, <1>6 DEF ScanRecordReady, ScanRecordPending, TypeOK, ScanState
  <2>2. /\ TrueAt(tx, Handled) /\ OwnNamed(db) \subseteq OwnNamed(tx)
        /\ OwnNamed(tx) = OwnNamed(db) => \A q \in Handled : AccountsFor(tx, Handled, q)
    BY <1>0, <1>6, <2>1 DEF QuietAccount
  <2>3. /\ p \notin Handled /\ Handled \in SUBSET Path /\ \A q \in Handled : file[q] # None
        /\ \A q \in Path : q \in scan.observed <=> file[q] # None
        /\ scan.seen[p] = ProbeResult(file[p]) /\ file[p] # None
        /\ scan.seen[p] \in ValidPdf <=> file[p] \in ValidPdf
        /\ scan.seen[p] \in ValidPdf => scan.seen[p] = file[p]
        /\ Handled' = Handled \cup {p}
    BY <1>6, <2>1, QuietFileFacts DEF Handled
  <2>4. OneRowPerPathOutside(tx, {})
    BY <1>0 DEF InductiveInvariant, RowsConsistentOutside
  <2>5. KeepsAccount(tx, tx', p, Handled)
    <3>1. CASE ScanRecordReady(p)
      <4>1. scan.seen[p] = file[p] /\ file[p] \in ValidPdf
        BY <2>3, <3>1 DEF ScanRecordReady
      <4>2. PICK i \in InstanceForReady(tx, p, file[p], scan.observed) :
              tx' = RecordReadyClassification(RecordReady(tx, p, file[p], i), file[p],
                                              ClassifyDocument(p, file[p]))
        BY <3>1, <4>1 DEF ScanRecordReady
      <4> QED
        BY <2>1, <2>2, <2>3, <2>4, <4>1, <4>2, RecordReadyAccounts
    <3>2. CASE ScanRecordPending(p)
      <4>1. file[p] \notin ValidPdf
        BY <2>3, <3>2 DEF ScanRecordPending
      <4>2. PICK i \in InstanceForPending(tx, p, scan.seen[p]) :
              tx' = RecordPending(tx, p, scan.seen[p], i)
        BY <3>2 DEF ScanRecordPending
      <4> QED
        BY <2>1, <2>2, <2>3, <2>4, <4>1, <4>2, RecordPendingAccounts
    <3> QED
      BY <1>6, <3>1, <3>2
  <2>6. QuietAccount'
    <3>1. TrueAt(tx', Handled') /\ OwnNamed(db) \subseteq OwnNamed(tx')
      BY <2>2, <2>3, <2>5 DEF KeepsAccount
    <3>2. OwnNamed(tx') = OwnNamed(db) => \A q \in Handled' : AccountsFor(tx', Handled', q)
      BY <2>2, <2>3, <2>5 DEF KeepsAccount
    <3> QED
      BY <2>1, <3>1, <3>2 DEF QuietAccount, TrueAt, AccountsFor, StandsFor, OwnNamed
  <2>7. QuietSeen'
    BY <1>0, <1>6, <2>1 DEF QuietSeen
  <2> QED
    BY <1>0, <2>6, <2>7 DEF QuietInvariant
<1>7. ASSUME NEW p \in Path, ScanRecordReady(p) \/ ScanRecordPending(p), ~scan.quiet
      PROVE  QuietInvariant'
  BY <1>0, <1>1, <1>7 DEF ScanRecordReady, ScanRecordPending, TypeOK, ScanState
<1>8. ASSUME NEW p \in Path, ScanReadFails(p) PROVE QuietInvariant'
  BY <1>1, <1>8 DEF ScanReadFails, RollBack, IdleScan
<1>9. CASE ScanCrash
  BY <1>1, <1>9 DEF ScanCrash, RollBack, IdleScan
<1>10. CASE DryRunGoesOn
  <2>1. CASE DryRunCommit
    BY <1>1, <2>1 DEF DryRunCommit, IdleScan
  <2>2. ASSUME NEW p \in Path, DryRunStat(p) PROVE QuietInvariant'
    <3>1. /\ scan'.phase = "stat" /\ scan.phase = "stat" /\ scan'.quiet = scan.quiet
          /\ scan'.observed = scan.observed /\ file' = file
      BY <1>0, <2>2 DEF DryRunStat, TypeOK, ScanState
    <3> QED
      BY <1>0, <3>1 DEF QuietInvariant, QuietSeen, QuietAccount
  <2> QED
    BY <1>10, <2>1, <2>2 DEF DryRunGoesOn
<1>11. ASSUME NEW p \in Path, FileChange(p) \/ ScanProbeUnstable(p) PROVE QuietInvariant'
  <2>1. CASE FileChange(p)
    BY <1>0, <1>1, <2>1 DEF FileChange, Disturb, TypeOK, ScanState
  <2>2. CASE ScanProbeUnstable(p)
    <3>1. scan.phase = "probe" /\ Disturb \in ScanState /\ ~Disturb.quiet
      BY <1>0, <2>2 DEF ScanProbeUnstable, Disturb, TypeOK, ScanState
    <3>2. scan'.quiet = Disturb.quiet
      BY <2>2, <3>1 DEF ScanProbeUnstable, ScanState
    <3> QED
      BY <1>1, <3>1, <3>2
  <2> QED
    BY <1>11, <2>1, <2>2
<1>12. ASSUME NEW p \in Path, NEW q \in Path, FileMove(p, q) PROVE QuietInvariant'
  BY <1>0, <1>1, <1>12 DEF FileMove, Disturb, TypeOK, ScanState
<1>13. CASE UNCHANGED vars
  BY <1>0, <1>13 DEF vars, QuietInvariant, QuietSeen, QuietAccount, Handled, TrueAt, AccountsFor,
                     StandsFor, OwnNamed
<1> QED
  BY <1>2, <1>3, <1>4, <1>5, <1>6, <1>7, <1>8, <1>9, <1>10, <1>11, <1>12, <1>13
     DEF Next, ScanStep, Environment

(* mark_missing makes the account of all files the truth about all paths.  *)
LEMMA CommitSettles ==
  ASSUME QuietInvariant, ScanCommit, scan.quiet
  PROVE  /\ OwnNamed(db) \subseteq OwnNamed(db')
         /\ \/ \A p \in Path : SettledAt(db', p, file[p])
            \/ OwnNamed(db') # OwnNamed(db)
<1> DEFINE seen == scan.observed
<1>1. /\ seen = {p \in Path : file[p] # None} /\ Handled = seen
      /\ TrueAt(tx, seen) /\ OwnNamed(db) \subseteq OwnNamed(tx)
      /\ OwnNamed(tx) = OwnNamed(db) => \A p \in seen : AccountsFor(tx, seen, p)
      /\ tx \in Manifest /\ file \in [Path -> FileState]
  BY DEF ScanCommit, QuietInvariant, QuietSeen, QuietAccount, Handled, InductiveInvariant, TypeOK
<1>2. \A i \in InstanceId : tx.instance[i] # None =>
        /\ tx.instance[i] \in InstanceRow
        /\ [tx.instance[i] EXCEPT !.status = "missing"] \in InstanceRow
        /\ [tx.instance[i] EXCEPT !.status = "missing"].path = tx.instance[i].path
        /\ [tx.instance[i] EXCEPT !.status = "missing"].status = "missing"
  BY <1>1 DEF Manifest, InstanceRow, InstanceStatus
<1>3. /\ \A i \in InstanceId :
           db'.instance[i] = IF tx.instance[i] # None /\ tx.instance[i].path \notin seen
                               THEN [tx.instance[i] EXCEPT !.status = "missing"]
                               ELSE tx.instance[i]
      /\ db'.pending = tx.pending /\ db'.paper = tx.paper
  BY <1>1 DEF ScanCommit, MarkMissing, Manifest
<1>4. \A i \in InstanceId :
        /\ db'.instance[i] # None <=> tx.instance[i] # None
        /\ tx.instance[i] # None =>
             /\ db'.instance[i].path = tx.instance[i].path
             /\ tx.instance[i].path \in seen => db'.instance[i] = tx.instance[i]
             /\ tx.instance[i].path \notin seen => db'.instance[i].status = "missing"
  <2> TAKE i \in InstanceId
  <2>1. None \notin InstanceRow
    BY ManifestAssumption
  <2>2. CASE tx.instance[i] = None
    BY <1>3, <2>2
  <2>3. CASE tx.instance[i] # None /\ tx.instance[i].path \notin seen
    <3>1. db'.instance[i] = [tx.instance[i] EXCEPT !.status = "missing"]
      BY <1>3, <2>3
    <3> QED
      BY <1>2, <2>1, <2>3, <3>1
  <2>4. CASE tx.instance[i] # None /\ tx.instance[i].path \in seen
    BY <1>3, <2>4
  <2> QED
    BY <2>2, <2>3, <2>4
<1>5. OwnNamed(db') = OwnNamed(tx)
  BY <1>4 DEF OwnNamed
<1>6. ASSUME OwnNamed(db') = OwnNamed(db), NEW p \in Path
      PROVE  SettledAt(db', p, file[p])
  <2>1. None \notin ValidPdf
    BY ManifestAssumption DEF PaperId
  <2>2. CASE file[p] = None
    <3>1. \A i \in ExistingInstanceForPath(db', p) : db'.instance[i].status = "missing"
      BY <1>1, <1>4, <2>2 DEF ExistingInstanceForPath
    <3> QED
      BY <2>1, <2>2, <3>1 DEF SettledAt
  <2>3. CASE file[p] # None
    <3>1. p \in seen /\ AccountsFor(tx, seen, p)
      BY <1>1, <1>5, <1>6, <2>3
    <3>2. \A i \in ExistingInstanceForPath(db', p) :
            db'.instance[i].status = "available" =>
              file[p] \in ValidPdf /\ db'.instance[i].sha = file[p]
      BY <1>1, <1>4, <3>1 DEF ExistingInstanceForPath, TrueAt
    <3>3. CASE file[p] \in ValidPdf
      <4>1. PICK i \in InstanceId : /\ StandsFor(tx, seen, i, p)
                                    /\ tx.instance[i].sha = file[p]
                                    /\ tx.instance[i].status = "available"
        BY <3>1, <3>3 DEF AccountsFor
      <4>2. /\ db'.instance[i] # None
            /\ db'.instance[i].sha = file[p]
            /\ db'.instance[i].status = "available"
        BY <1>4, <4>1 DEF StandsFor
      <4>3. /\ db'.pending[p] = None
            /\ file[p] \in SensitiveContent => db'.paper[file[p]] = "red"
        BY <1>3, <3>1, <3>3 DEF AccountsFor
      <4> QED
        BY <2>1, <2>3, <3>2, <3>3, <4>2, <4>3 DEF SettledAt
    <3>4. CASE file[p] \notin ValidPdf
      <4>1. db'.pending[p] # None
        BY <1>3, <3>1, <3>4, ManifestAssumption DEF AccountsFor, InstanceId, PaperId
      <4> QED
        BY <2>3, <3>2, <3>4, <4>1 DEF SettledAt
    <3> QED
      BY <3>3, <3>4
  <2> QED
    BY <2>2, <2>3
<1> QED
  BY <1>1, <1>5, <1>6

(* Every scan that nothing disturbed leaves the truth about every file, or *)
(* has given one more row the name of its content, and never takes one     *)
(* away: the manifest settles within finitely many of them.                *)
THEOREM ScanQuietSettles == Spec => QuietScanSettles
<1>1. Spec => []QuietInvariant
  BY QuietInit, QuietNext, PTL DEF Spec
<1>2. ASSUME QuietInvariant, [Next]_vars
      PROVE  [(ScanCommit /\ scan.quiet) =>
                /\ OwnNamed(db) \subseteq OwnNamed(db')
                /\ \/ \A p \in Path : SettledAt(db', p, file[p])
                   \/ OwnNamed(db') # OwnNamed(db)]_vars
  BY <1>2, CommitSettles
<1> QED
  BY <1>1, <1>2, PTL DEF Spec, QuietScanSettles

-----------------------------------------------------------------------------
(* Imports.  What a statement says of the inbox path of a content.         *)

(* A ready file recorded at the inbox path of c has the hash c.            *)
LEMMA RecordReadyTruth ==
  ASSUME NEW d \in Manifest, NEW c \in ValidPdf, TruthAt(d, c),
         NEW p \in Path, NEW e \in ValidPdf, NEW i \in InstanceId, NEW lane \in Lane,
         p = InboxPath[c] => e = c
  PROVE  TruthAt(RecordReadyClassification(RecordReady(d, p, e, i), e, lane), c)
<1> DEFINE r == RecordReadyClassification(RecordReady(d, p, e, i), e, lane)
           row == [paper |-> e, path |-> p, sha |-> e, status |-> "available"]
<1>1. e \in Content /\ e \in PaperId /\ InboxPath[c] \in Path
  BY ManifestAssumption, InboxAssumption DEF PaperId
<1>2. r.instance = [d.instance EXCEPT ![i] = row]
  BY <1>1 DEF RecordReadyClassification, SyncReviewItem, RecordReady, RecordFile,
              InsertPaper, Manifest
<1>3. r.pending = [q \in Path |-> IF q = p \/ d.pending[q] = i THEN None
                                  ELSE d.pending[q]]
  BY <1>1 DEF RecordReadyClassification, SyncReviewItem, RecordReady, RecordFile,
              InsertPaper, Manifest
<1>4. \A j \in InstanceId : r.instance[j] = IF j = i THEN row ELSE d.instance[j]
  BY <1>2 DEF Manifest
<1> HIDE DEF r
<1>5. r.pending[InboxPath[c]] = None
  BY <1>1, <1>3 DEF TruthAt
<1>6. \A j \in ExistingInstanceForPath(r, InboxPath[c]) : r.instance[j].sha = c
  BY <1>4 DEF TruthAt, ExistingInstanceForPath
<1> QED
  BY <1>5, <1>6 DEF TruthAt, r

(* A file that is not ready is recorded somewhere else.                    *)
LEMMA RecordPendingTruth ==
  ASSUME NEW d \in Manifest, NEW c \in ValidPdf, TruthAt(d, c),
         NEW p \in Path, NEW seed \in PaperId, NEW i \in InstanceId, p # InboxPath[c]
  PROVE  TruthAt(RecordPending(d, p, seed, i), c)
<1> DEFINE r == RecordPending(d, p, seed, i)
           row == [paper |-> seed, path |-> p, sha |-> ShaOf(seed),
                   status |-> "pending_sync"]
<1>1. InboxPath[c] \in Path
  BY InboxAssumption
<1>2. r.instance = [d.instance EXCEPT ![i] = row]
  BY DEF RecordPending, RecordFile, InsertPaper, Manifest
<1>3. r.pending = [d.pending EXCEPT ![p] = i]
  BY DEF RecordPending, RecordFile, InsertPaper, Manifest
<1>4. \A j \in InstanceId : r.instance[j] = IF j = i THEN row ELSE d.instance[j]
  BY <1>2 DEF Manifest
<1>5. r.pending[InboxPath[c]] = None
  BY <1>1, <1>3 DEF TruthAt, Manifest
<1> HIDE DEF r
<1>6. \A j \in ExistingInstanceForPath(r, InboxPath[c]) : r.instance[j].sha = c
  BY <1>4 DEF TruthAt, ExistingInstanceForPath
<1> QED
  BY <1>5, <1>6 DEF TruthAt, r

(* mark_missing changes no hash and no retry row.                          *)
LEMMA MarkMissingTruth ==
  ASSUME NEW d \in Manifest, NEW c \in ValidPdf, TruthAt(d, c), NEW observed
  PROVE  TruthAt(MarkMissing(d, observed), c)
<1> DEFINE r == MarkMissing(d, observed)
<1>1. \A i \in InstanceId :
        r.instance[i] = IF d.instance[i] # None /\ d.instance[i].path \notin observed
                          THEN [d.instance[i] EXCEPT !.status = "missing"]
                          ELSE d.instance[i]
  BY DEF MarkMissing, Manifest
<1>2. r.pending = d.pending
  BY DEF MarkMissing, Manifest
<1>3. \A i \in InstanceId : d.instance[i] # None =>
        /\ [d.instance[i] EXCEPT !.status = "missing"].path = d.instance[i].path
        /\ [d.instance[i] EXCEPT !.status = "missing"].sha = d.instance[i].sha
  BY DEF Manifest, InstanceRow
<1> HIDE DEF r
<1>4. ASSUME NEW i \in ExistingInstanceForPath(r, InboxPath[c])
      PROVE  r.instance[i].sha = c
  <2>1. i \in InstanceId /\ r.instance[i] # None /\ r.instance[i].path = InboxPath[c]
    BY DEF ExistingInstanceForPath
  <2>2. CASE d.instance[i] # None /\ d.instance[i].path \notin observed
    <3>1. r.instance[i] = [d.instance[i] EXCEPT !.status = "missing"]
      BY <1>1, <2>1, <2>2
    <3>2. r.instance[i].path = d.instance[i].path /\ r.instance[i].sha = d.instance[i].sha
      BY <1>3, <2>1, <2>2, <3>1
    <3> QED
      BY <2>1, <2>2, <3>2 DEF TruthAt, ExistingInstanceForPath
  <2>3. CASE ~(d.instance[i] # None /\ d.instance[i].path \notin observed)
    <3>1. r.instance[i] = d.instance[i]
      BY <1>1, <2>1, <2>3
    <3> QED
      BY <2>1, <3>1 DEF TruthAt, ExistingInstanceForPath
  <2> QED
    BY <2>2, <2>3
<1> QED
  BY <1>2, <1>4 DEF TruthAt, r

(* The tables as they are created say nothing yet.                         *)
LEMMA EmptyTruth ==
  ASSUME NEW c \in ValidPdf
  PROVE  TruthAt(EmptyManifest, c)
BY InboxAssumption DEF TruthAt, EmptyManifest, ExistingInstanceForPath

-----------------------------------------------------------------------------
(* Imports.  The inductive invariant.                                      *)

(* It holds of an empty inbox.                                             *)
LEMMA InboxStart == InboxInit => InboxInvariant
<1> SUFFICES ASSUME InboxInit PROVE InboxInvariant
  OBVIOUS
<1>1. InductiveInvariant /\ TypeOK
  BY ScanInit DEF InboxInit, InductiveInvariant
<1>2. InboxTypeOK
  BY <1>1 DEF InboxInit, InboxTypeOK, ImportState, NoImport
<1>3. InboxNamesContent /\ EventsHaveFiles
  BY InboxAssumption DEF InboxInit, InboxNamesContent, EventsHaveFiles
<1>4. \A m \in Importer : ImportUnderWay(importer[m])
  BY DEF InboxInit, NoImport, ImportUnderWay
<1>5. \A c \in ValidPdf : SeenWhole(c) /\ TruthAt(db, c) /\ TruthAt(tx, c)
  BY EmptyTruth, InboxAssumption DEF InboxInit, Init, IdleScan, SeenWhole
<1> QED
  BY <1>1, <1>2, <1>3, <1>4, <1>5 DEF InboxInvariant

(* What a step has to keep, path by path and importer by importer.         *)
LEMMA InboxKeeps ==
  ASSUME InboxInvariant, InductiveInvariant', InboxTypeOK', altered \subseteq altered',
         \A c \in ValidPdf : InboxPath[c] \notin altered' =>
           /\ file'[InboxPath[c]] \in {file[InboxPath[c]], c}
           /\ SeenWhole(c)' /\ TruthAt(db', c) /\ TruthAt(tx', c),
         \A c \in events' \ events : InboxPath[c] \notin altered' =>
           file'[InboxPath[c]] = c,
         \A m \in Importer : \/ importer'[m] = importer[m] /\ source' = source
                             \/ ImportUnderWay(importer[m])'
  PROVE  InboxInvariant'
<1>1. InboxNamesContent'
  BY DEF InboxInvariant, InboxNamesContent, Untouched
<1>2. events \subseteq ValidPdf /\ events' \subseteq ValidPdf
  BY DEF InboxInvariant, InboxTypeOK
<1>3. EventsHaveFiles'
  BY <1>2 DEF InboxInvariant, EventsHaveFiles, Untouched
<1>4. \A m \in Importer : ImportUnderWay(importer[m])'
  <2> TAKE m \in Importer
  <2>1. CASE importer'[m] = importer[m] /\ source' = source
    BY <2>1 DEF InboxInvariant, ImportUnderWay, Untouched
  <2> QED
    BY <2>1
<1>5. \A c \in ValidPdf : InboxPath[c] \notin altered' =>
        SeenWhole(c)' /\ TruthAt(db, c)' /\ TruthAt(tx, c)'
  BY DEF TruthAt, ExistingInstanceForPath
<1>6. (\A c \in ValidPdf : Untouched(c) => SeenWhole(c) /\ TruthAt(db, c) /\ TruthAt(tx, c))'
  BY <1>5 DEF Untouched
<1>7. (\A m \in Importer : ImportUnderWay(importer[m]))'
  BY <1>4
<1> QED
  BY <1>1, <1>3, <1>6, <1>7 DEF InboxInvariant

(* What a scan has seen of an untouched inbox file, and has recorded of    *)
(* it, is the truth after each of its steps.                               *)
LEMMA ScanStepTruth ==
  ASSUME InboxInvariant, ScanStep, NEW c \in ValidPdf, Untouched(c),
         altered' = altered
  PROVE  file' = file /\ SeenWhole(c)' /\ TruthAt(db', c) /\ TruthAt(tx', c)
<1>0. /\ SeenWhole(c) /\ TruthAt(db, c) /\ TruthAt(tx, c) /\ InductiveInvariant
      /\ scan \in ScanState /\ db \in Manifest /\ tx \in Manifest
      /\ file \in [Path -> FileState] /\ InboxPath[c] \in Path
      /\ file[InboxPath[c]] \in {None, c} /\ ProbedBeforeRecorded
  BY InboxAssumption DEF InboxInvariant, InboxNamesContent, InductiveInvariant, TypeOK
<1>1. CASE ScanWalk \/ DryRunWalk
  <2>1. /\ scan'.observed = {p \in Path : file[p] # None}
        /\ scan'.seen = [p \in Path |-> None]
    BY <1>1 DEF ScanWalk, DryRunWalk, Walk, IdleScan
  <2> QED
    BY <1>0, <1>1, <2>1 DEF ScanWalk, DryRunWalk, Walk, SeenWhole
<1>2. CASE ScanBegin
  <2>1. scan'.observed = scan.observed /\ scan'.seen = scan.seen
    BY <1>0, <1>2 DEF ScanBegin, ScanState
  <2> QED
    BY <1>0, <1>2, <2>1 DEF ScanBegin, SeenWhole
<1>3. CASE ScanCommit
  BY <1>0, <1>3, MarkMissingTruth, EmptyTruth DEF ScanCommit, IdleScan, SeenWhole
<1>4. ASSUME NEW p \in Path, ScanProbe(p)
      PROVE  file' = file /\ SeenWhole(c)' /\ TruthAt(db', c) /\ TruthAt(tx', c)
  <2>1. /\ scan'.observed = scan.observed /\ p \in scan.observed
        /\ scan'.seen = [scan.seen EXCEPT ![p] = ProbeResult(file[p])]
    BY <1>0, <1>4 DEF ScanProbe, ScanState, IsFirst, ProbedBeforeRecorded
  <2>2. p = InboxPath[c] => ProbeResult(file[p]) = c
    BY <1>0, <2>1, ManifestAssumption DEF SeenWhole, ProbeResult
  <2>3. scan.seen \in [Path -> PaperId \cup {None}]
    BY <1>0 DEF ScanState
  <2> QED
    BY <1>0, <1>4, <2>1, <2>2, <2>3 DEF ScanProbe, SeenWhole
<1>5. ASSUME NEW p \in Path, ScanRecordReady(p)
      PROVE  file' = file /\ SeenWhole(c)' /\ TruthAt(db', c) /\ TruthAt(tx', c)
  <2> DEFINE e == scan.seen[p]
             lane == ClassifyDocument(p, file[p])
  <2>1. e \in ValidPdf /\ lane \in Lane /\ e # None
    BY <1>5, ClassifyDocumentType, ManifestAssumption DEF ScanRecordReady, PaperId
  <2>2. PICK i \in InstanceForReady(tx, p, e, scan.observed) :
          tx' = RecordReadyClassification(RecordReady(tx, p, e, i), e, lane)
    BY <1>5 DEF ScanRecordReady
  <2>3. i \in InstanceId
    BY <2>1, <2>2, InstanceForReadyType, ManifestAssumption
  <2>4. p = InboxPath[c] => e = c
    BY <1>0, <2>1 DEF SeenWhole
  <2>5. TruthAt(tx', c)
    BY <1>0, <2>1, <2>2, <2>3, <2>4, RecordReadyTruth
  <2>6. scan'.observed = scan.observed /\ scan'.seen = scan.seen
    BY <1>0, <1>5 DEF ScanRecordReady, ScanState
  <2> QED
    BY <1>0, <1>5, <2>5, <2>6 DEF ScanRecordReady, SeenWhole
<1>6. ASSUME NEW p \in Path, ScanRecordPending(p)
      PROVE  file' = file /\ SeenWhole(c)' /\ TruthAt(db', c) /\ TruthAt(tx', c)
  <2>1. scan.seen[p] \in PaperId
    BY <1>0, <1>6, RecordedFileFacts DEF ScanRecordPending
  <2>2. PICK i \in InstanceForPending(tx, p, scan.seen[p]) :
          tx' = RecordPending(tx, p, scan.seen[p], i)
    BY <1>6 DEF ScanRecordPending
  <2>3. i \in InstanceId
    BY <2>1, <2>2, InstanceForPendingType
  <2>4. p # InboxPath[c]
    BY <1>0, <1>6, <2>1, ManifestAssumption DEF ScanRecordPending, SeenWhole
  <2>5. TruthAt(tx', c)
    BY <1>0, <2>1, <2>2, <2>3, <2>4, RecordPendingTruth
  <2>6. scan'.observed = scan.observed /\ scan'.seen = scan.seen
    BY <1>0, <1>6 DEF ScanRecordPending, ScanState
  <2> QED
    BY <1>0, <1>6, <2>5, <2>6 DEF ScanRecordPending, SeenWhole
<1>7. ASSUME NEW p \in Path, ScanReadFails(p)
      PROVE  file' = file /\ SeenWhole(c)' /\ TruthAt(db', c) /\ TruthAt(tx', c)
  BY <1>0, <1>7, EmptyTruth DEF ScanReadFails, RollBack, IdleScan, SeenWhole
<1> QED
  BY <1>1, <1>2, <1>3, <1>4, <1>5, <1>6, <1>7 DEF ScanStep

(* A kill, a dry run, or a write to other paths leaves it the truth.       *)
LEMMA EnvironmentTruth ==
  ASSUME InboxInvariant, Environment, NEW c \in ValidPdf, Untouched(c),
         altered' = altered \cup
           {p \in Path : file'[p] # file[p] \/ scan'.seen[p] \in Unstable},
         InboxPath[c] \notin altered'
  PROVE  /\ file'[InboxPath[c]] = file[InboxPath[c]]
         /\ SeenWhole(c)' /\ TruthAt(db', c) /\ TruthAt(tx', c)
<1> DEFINE t == InboxPath[c]
<1>0. /\ SeenWhole(c) /\ TruthAt(db, c) /\ TruthAt(tx, c) /\ InductiveInvariant
      /\ scan \in ScanState /\ db \in Manifest /\ t \in Path
      /\ file[t] \in {None, c}
  BY InboxAssumption DEF InboxInvariant, InboxNamesContent, InductiveInvariant, TypeOK
<1>1. file'[t] = file[t] /\ scan'.seen[t] \notin Unstable
  BY <1>0
<1>2. /\ Disturb.observed = scan.observed /\ Disturb.seen = scan.seen
      /\ Disturb \in ScanState
  BY <1>0, DisturbFacts
<1>3. CASE ScanCrash
  BY <1>0, <1>1, <1>3, EmptyTruth DEF ScanCrash, RollBack, IdleScan, SeenWhole
<1>4. CASE DryRunWalk \/ DryRunGoesOn
  <2>1. CASE DryRunWalk
    BY <1>0, <2>1 DEF DryRunWalk, Walk, IdleScan, SeenWhole
  <2>2. CASE DryRunCommit
    <3>1. db'.instance = db.instance /\ db'.pending = db.pending
      BY <1>0, <2>2 DEF DryRunCommit, RecordSnapshots, Manifest
    <3>2. TruthAt(db', c)
      BY <1>0, <3>1 DEF TruthAt, ExistingInstanceForPath
    <3> QED
      BY <1>0, <2>2, <3>2 DEF DryRunCommit, IdleScan, SeenWhole
  <2>3. ASSUME NEW p \in Path, DryRunStat(p)
        PROVE  SeenWhole(c)' /\ TruthAt(db', c) /\ TruthAt(tx', c)
    <3>1. scan'.observed = scan.observed /\ scan'.seen = scan.seen
      BY <1>0, <2>3 DEF DryRunStat, ScanState
    <3> QED
      BY <1>0, <2>3, <3>1 DEF DryRunStat, SeenWhole
  <2> QED
    BY <1>1, <1>4, <2>1, <2>2, <2>3 DEF DryRunGoesOn
<1>5. ASSUME scan' = Disturb, UNCHANGED <<db, tx>>
      PROVE  SeenWhole(c)' /\ TruthAt(db', c) /\ TruthAt(tx', c)
  BY <1>0, <1>1, <1>2, <1>5 DEF SeenWhole
<1>6. ASSUME NEW p \in Path, ScanProbeUnstable(p)
      PROVE  SeenWhole(c)' /\ TruthAt(db', c) /\ TruthAt(tx', c)
  <2>1. PICK u \in Unstable : scan' = [Disturb EXCEPT !.todo = @ \ {p}, !.seen[p] = u]
    BY <1>6 DEF ScanProbeUnstable
  <2>2. scan'.observed = scan.observed /\ scan'.seen = [scan.seen EXCEPT ![p] = u]
    BY <1>2, <2>1 DEF ScanState
  <2>3. scan.seen \in [Path -> PaperId \cup {None}]
    BY <1>0 DEF ScanState
  <2>4. t # p
    BY <1>1, <2>2, <2>3
  <2> HIDE DEF t
  <2>5. scan'.seen[t] = scan.seen[t]
    BY <1>0, <2>2, <2>3, <2>4
  <2> QED
    BY <1>0, <1>1, <1>6, <2>2, <2>5 DEF ScanProbeUnstable, SeenWhole, t
<1> QED
  BY <1>1, <1>3, <1>4, <1>5, <1>6 DEF Environment, FileChange, FileMove

(* A step that leaves the inbox, the scan and the manifest alone.          *)
LEMMA ImporterStep ==
  ASSUME InboxInvariant, UNCHANGED <<file, db, tx, scan, altered>>,
         changes' \in 0..MaxChanges, crashes' \in 0..MaxCrashes,
         source' \in FileState, events' \in SUBSET ValidPdf,
         importer' \in [Importer -> ImportState],
         \A c \in events' \ events : Untouched(c) => file[InboxPath[c]] = c,
         \A m \in Importer : ImportUnderWay(importer[m])'
  PROVE  InboxInvariant'
<1>1. InductiveInvariant'
  BY StepInsideScan DEF InboxInvariant, InductiveInvariant, TypeOK, ProbedBeforeRecorded
<1>2. InboxTypeOK'
  BY <1>1 DEF InboxInvariant, InductiveInvariant, InboxTypeOK
<1>3. \A c \in ValidPdf : InboxPath[c] \notin altered' =>
        /\ file'[InboxPath[c]] \in {file[InboxPath[c]], c}
        /\ SeenWhole(c)' /\ TruthAt(db', c) /\ TruthAt(tx', c)
  BY DEF InboxInvariant, Untouched, SeenWhole
<1>4. \A c \in events' \ events : InboxPath[c] \notin altered' => file'[InboxPath[c]] = c
  BY DEF Untouched
<1> QED
  BY <1>1, <1>2, <1>3, <1>4, InboxKeeps

(* One importer goes to a state that is true of the inbox.                 *)
LEMMA ImporterGoes ==
  ASSUME InboxInvariant, NEW m \in Importer, NEW state \in ImportState, Go(m, state),
         ImportUnderWay(state), UNCHANGED <<file, db, tx, scan, altered, source>>,
         changes' \in 0..MaxChanges, crashes' \in 0..MaxCrashes,
         events' \in SUBSET ValidPdf,
         \A c \in events' \ events : Untouched(c) => file[InboxPath[c]] = c
  PROVE  InboxInvariant'
<1>1. importer \in [Importer -> ImportState] /\ source' \in FileState
  BY DEF InboxInvariant, InboxTypeOK
<1>2. importer' \in [Importer -> ImportState]
  BY <1>1 DEF Go
<1>3. \A n \in Importer : ImportUnderWay(importer[n])'
  <2> TAKE n \in Importer
  <2>1. importer'[n] = importer[n] \/ importer'[n] = state
    BY <1>1 DEF Go
  <2> QED
    BY <2>1 DEF InboxInvariant, ImportUnderWay, Untouched
<1> QED
  BY <1>1, <1>2, <1>3, ImporterStep

(* An import whose source is changed goes on, with a hash that the source  *)
(* may not have any more.                                                  *)
LEMMA SourceChangedFacts ==
  ASSUME InboxInvariant, NEW n \in Importer, UNCHANGED <<file, altered>>
  PROVE  /\ SourceChanged[n] \in ImportState
         /\ In(n, "copy") => /\ SourceChanged[n].disturbed
                             /\ SourceChanged[n].sha \in ValidPdf
         /\ importer'[n] = SourceChanged[n] => ImportUnderWay(importer[n])'
<1>1. importer[n] \in ImportState /\ ImportUnderWay(importer[n])
  BY DEF InboxInvariant, InboxTypeOK
<1>2. CASE In(n, "copy")
  <2>1. SourceChanged[n] = [importer[n] EXCEPT !.disturbed = TRUE]
    BY <1>2 DEF SourceChanged
  <2>2. /\ SourceChanged[n] \in ImportState /\ SourceChanged[n].phase = "copy"
        /\ SourceChanged[n].disturbed /\ SourceChanged[n].sha \in ValidPdf
    BY <1>1, <1>2, <2>1 DEF ImportState, ImportUnderWay, In
  <2> QED
    BY <2>2 DEF ImportUnderWay
<1>3. CASE ~In(n, "copy")
  <2>1. SourceChanged[n] = importer[n]
    BY <1>3 DEF SourceChanged
  <2> QED
    BY <1>1, <1>3, <2>1 DEF ImportUnderWay, Untouched, In
<1> QED
  BY <1>2, <1>3

(* Another scan is disturbed by the file that an import puts in place.     *)
LEMMA ReplaceKeeps ==
  ASSUME InboxInvariant, NEW m \in Importer, ImportReplace(m)
  PROVE  InboxInvariant'
<1> DEFINE me == importer[m]
           t == InboxPath[me.sha]
<1>0. /\ InductiveInvariant /\ InboxTypeOK /\ TypeOK /\ ProbedBeforeRecorded
      /\ RowsConsistentOutside(tx, {}) /\ me \in ImportState /\ ImportUnderWay(me)
      /\ me.phase = "replace" /\ importer \in [Importer -> ImportState]
  BY DEF InboxInvariant, InductiveInvariant, InboxTypeOK, ImportReplace, In
<1>1. /\ me.sha \in ValidPdf /\ me.temp \in Content /\ t \in Path
      /\ t = Target(m)
      /\ ~me.disturbed => me.temp = me.sha
  BY <1>0, InboxAssumption DEF ImportUnderWay, Target
<1>2. /\ file' = [file EXCEPT ![t] = me.temp]
      /\ altered' = IF me.disturbed THEN altered \cup {t} ELSE altered
      /\ importer' = [importer EXCEPT ![m] = [me EXCEPT !.phase = "record", !.temp = None,
                                                        !.disturbed = FALSE]]
      /\ scan' = Disturb
      /\ UNCHANGED <<db, tx, changes, crashes, source, events>>
  BY <1>1 DEF ImportReplace, Go
<1>3. file \in [Path -> FileState] /\ file' \in [Path -> FileState] /\ altered \subseteq Path
  BY <1>0, <1>1, <1>2 DEF TypeOK, InboxTypeOK, FileState
<1>4. InductiveInvariant'
  <2>1. ProbedBeforeRecorded'
    BY <1>0, <1>2, DisturbFacts DEF ProbedBeforeRecorded
  <2> QED
    BY <1>0, <1>2, <1>3, <2>1, DisturbFacts, StepInsideScan DEF TypeOK
<1>5. [me EXCEPT !.phase = "record", !.temp = None, !.disturbed = FALSE] \in ImportState
  BY <1>0 DEF ImportState
<1>6. InboxTypeOK'
  BY <1>0, <1>1, <1>2, <1>3, <1>4, <1>5 DEF InboxTypeOK, InductiveInvariant
<1>7. ASSUME NEW c \in ValidPdf, InboxPath[c] \notin altered'
      PROVE  /\ file'[InboxPath[c]] \in {file[InboxPath[c]], c}
             /\ SeenWhole(c)' /\ TruthAt(db', c) /\ TruthAt(tx', c)
  <2>1. /\ Untouched(c) /\ SeenWhole(c) /\ TruthAt(db, c) /\ TruthAt(tx, c)
        /\ InboxPath[c] \in Path
    BY <1>2, <1>7, InboxAssumption DEF InboxInvariant, Untouched
  <2>2. file'[InboxPath[c]] = file[InboxPath[c]] \/ file'[InboxPath[c]] = c
    <3>1. CASE InboxPath[c] = t
      <4>1. c = me.sha /\ me.temp = me.sha
        BY <1>1, <1>2, <1>7, <3>1, InboxAssumption
      <4> QED
        BY <1>2, <1>3, <2>1, <3>1, <4>1
    <3>2. CASE InboxPath[c] # t
      BY <1>2, <1>3, <2>1, <3>2
    <3> QED
      BY <3>1, <3>2
  <2>3. SeenWhole(c)'
    BY <1>0, <1>2, <2>1, <2>2, DisturbFacts DEF SeenWhole
  <2> QED
    BY <1>2, <2>1, <2>2, <2>3
<1>8. ImportUnderWay(importer[m])'
  <2>1. /\ importer'[m].phase = "record" /\ importer'[m].sha = me.sha
    BY <1>0, <1>2 DEF ImportState
  <2>2. me.sha = me.temp \/ t \in altered'
    BY <1>1, <1>2
  <2>3. file'[t] = me.temp
    BY <1>1, <1>2, <1>3
  <2> QED
    BY <1>1, <2>1, <2>2, <2>3 DEF ImportUnderWay, Untouched
<1>9. \A n \in Importer : \/ importer'[n] = importer[n] /\ source' = source
                          \/ ImportUnderWay(importer[n])'
  BY <1>0, <1>2, <1>8
<1> QED
  BY <1>2, <1>4, <1>6, <1>7, <1>9, InboxKeeps

(* Each step of an import keeps it.                                        *)
LEMMA ImportKeeps ==
  ASSUME InboxInvariant, NEW m \in Importer,
         ImportStep(m) \/ ImportCopyTorn(m) \/ ImportCrash(m)
  PROVE  InboxInvariant'
<1> DEFINE me == importer[m]
<1>0. /\ InboxTypeOK /\ TypeOK /\ me \in ImportState /\ ImportUnderWay(me)
      /\ source \in FileState /\ events \in SUBSET ValidPdf
      /\ changes \in 0..MaxChanges /\ crashes \in 0..MaxCrashes
      /\ file \in [Path -> FileState]
  BY DEF InboxInvariant, InboxTypeOK, TypeOK
<1>1. NoImport \in ImportState /\ ImportUnderWay(NoImport)
  BY DEF NoImport, ImportState, ImportUnderWay
<1>2. CASE ImportProbe(m)
  <2>1. [NoImport EXCEPT !.phase = "copy", !.sha = source] \in ImportState
    BY <1>2 DEF ImportProbe, NoImport, ImportState
  <2>2. ImportUnderWay([NoImport EXCEPT !.phase = "copy", !.sha = source])
    BY <1>2 DEF ImportProbe, NoImport, ImportUnderWay
  <2> QED
    BY <1>0, <1>2, <2>1, <2>2, ImporterGoes DEF ImportProbe, vars
<1>3. CASE ImportExisting(m)
  <2>1. [me EXCEPT !.phase = "record", !.disturbed = FALSE] \in ImportState
    BY <1>0 DEF ImportState
  <2>2. me.phase = "copy" /\ me.sha \in ValidPdf /\ file[InboxPath[me.sha]] # None
    BY <1>0, <1>3 DEF ImportExisting, In, Target, ImportUnderWay
  <2>3. Untouched(me.sha) => file[InboxPath[me.sha]] = me.sha
    BY <2>2 DEF InboxInvariant, InboxNamesContent
  <2>4. ImportUnderWay([me EXCEPT !.phase = "record", !.disturbed = FALSE])
    BY <1>0, <2>2, <2>3 DEF ImportUnderWay, ImportState
  <2> QED
    BY <1>0, <1>3, <2>1, <2>4, ImporterGoes DEF ImportExisting, vars
<1>4. CASE ImportCopy(m)
  <2> DEFINE copied == [me EXCEPT !.phase = "replace", !.temp = source]
  <2>1. copied \in ImportState
    BY <1>0, <1>4 DEF ImportCopy, ImportState
  <2>2. ImportUnderWay(copied)
    BY <1>0, <1>4 DEF ImportCopy, In, ImportUnderWay, ImportState
  <2> QED
    BY <1>0, <1>4, <2>1, <2>2, ImporterGoes DEF ImportCopy, vars
<1>5. CASE ImportCopyTorn(m)
  <2>1. PICK c \in Content, t \in Content :
          /\ source' = c
          /\ importer' = [SourceChanged EXCEPT ![m].phase = "replace", ![m].temp = t]
    BY <1>5 DEF ImportCopyTorn
  <2> DEFINE torn == [SourceChanged[m] EXCEPT !.phase = "replace", !.temp = t]
  <2>2. /\ \A n \in Importer : SourceChanged[n] \in ImportState
        /\ SourceChanged[m].disturbed /\ SourceChanged[m].sha \in ValidPdf
    BY <1>5, SourceChangedFacts DEF ImportCopyTorn
  <2>3. SourceChanged \in [Importer -> ImportState]
    BY <2>2 DEF SourceChanged
  <2>4. /\ torn \in ImportState /\ torn.phase = "replace" /\ torn.temp \in Content
        /\ torn.disturbed /\ torn.sha \in ValidPdf
    BY <2>2 DEF ImportState
  <2>5. \A n \in Importer : importer'[n] = IF n = m THEN torn ELSE SourceChanged[n]
    BY <2>1, <2>3
  <2> HIDE DEF torn
  <2>6. importer' \in [Importer -> ImportState]
    BY <2>1, <2>2, <2>3, <2>4, <2>5
  <2>7. \A n \in Importer : ImportUnderWay(importer[n])'
    <3> TAKE n \in Importer
    <3>1. CASE n = m
      BY <2>4, <2>5, <3>1 DEF ImportUnderWay
    <3>2. CASE n # m
      BY <1>5, <2>5, <3>2, SourceChangedFacts DEF ImportCopyTorn
    <3> QED
      BY <3>1, <3>2
  <2>8. source' \in FileState /\ changes' \in 0..MaxChanges
    BY <1>0, <1>5, <2>1, ScanAssumption DEF ImportCopyTorn, FileState
  <2> QED
    BY <1>0, <1>5, <2>6, <2>7, <2>8, ImporterStep DEF ImportCopyTorn
<1>6. CASE ImportReplace(m)
  BY <1>6, ReplaceKeeps
<1>7. CASE ImportRecord(m)
  <2>1. me.phase = "record" /\ me.sha \in ValidPdf
    BY <1>0, <1>7 DEF ImportRecord, In, ImportUnderWay
  <2>2. \A c \in events' \ events : Untouched(c) => file[InboxPath[c]] = c
    BY <1>0, <1>7, <2>1 DEF ImportRecord, ImportUnderWay
  <2>3. events' \in SUBSET ValidPdf
    BY <1>0, <1>7, <2>1 DEF ImportRecord
  <2> QED
    BY <1>0, <1>1, <1>7, <2>2, <2>3, ImporterGoes DEF ImportRecord, vars
<1>8. CASE ImportFails(m)
  BY <1>0, <1>1, <1>8, ImporterGoes DEF ImportFails, vars
<1>9. CASE ImportLockedOut(m)
  BY <1>0, <1>1, <1>9, ImporterGoes DEF ImportLockedOut, vars
<1>10. CASE ImportCrash(m)
  <2>1. crashes' \in 0..MaxCrashes
    BY <1>0, <1>10, ScanAssumption DEF ImportCrash
  <2> QED
    BY <1>0, <1>1, <1>10, <2>1, ImporterGoes DEF ImportCrash
<1> QED
  BY <1>2, <1>3, <1>4, <1>5, <1>6, <1>7, <1>8, <1>9, <1>10 DEF ImportStep

(* Each step of a scan, or of the world around it, keeps it.               *)
LEMMA ScansKeepInbox ==
  ASSUME InboxInvariant, InboxNext, UNCHANGED <<source, importer, events>>,
         ScanStep \/ Environment, altered \subseteq altered',
         altered' \in SUBSET Path,
         \A c \in ValidPdf : InboxPath[c] \notin altered' =>
           /\ file'[InboxPath[c]] = file[InboxPath[c]]
           /\ SeenWhole(c)' /\ TruthAt(db', c) /\ TruthAt(tx', c)
  PROVE  InboxInvariant'
<1>1. InductiveInvariant'
  BY ScanNext DEF InboxInvariant, Next
<1>2. InboxTypeOK'
  BY <1>1 DEF InboxInvariant, InductiveInvariant, InboxTypeOK
<1> QED
  BY <1>1, <1>2, InboxKeeps

(* Each step keeps it.                                                     *)
LEMMA InboxStep ==
  ASSUME InboxInvariant, [InboxNext]_inboxVars
  PROVE  InboxInvariant'
<1>0. InboxTypeOK /\ TypeOK
  BY DEF InboxInvariant, InboxTypeOK
<1>1. ASSUME NEW m \in Importer, ImportStep(m) \/ ImportCopyTorn(m) \/ ImportCrash(m)
      PROVE  InboxInvariant'
  BY <1>1, ImportKeeps
<1>2. CASE SourceChange
  <2>1. changes' \in 0..MaxChanges
    BY <1>0, <1>2, ScanAssumption DEF SourceChange, TypeOK
  <2>2. importer' \in [Importer -> ImportState]
    BY <1>2, SourceChangedFacts DEF SourceChange, SourceChanged
  <2>3. \A m \in Importer : ImportUnderWay(importer[m])'
    BY <1>2, SourceChangedFacts DEF SourceChange
  <2> QED
    BY <1>0, <1>2, <2>1, <2>2, <2>3, ImporterStep DEF SourceChange, InboxTypeOK, TypeOK
<1>3. CASE ScanStep /\ UNCHANGED importVars
  <2>1. \A c \in ValidPdf : InboxPath[c] \notin altered' =>
          /\ file'[InboxPath[c]] = file[InboxPath[c]]
          /\ SeenWhole(c)' /\ TruthAt(db', c) /\ TruthAt(tx', c)
    BY <1>3, ScanStepTruth DEF importVars, Untouched
  <2> QED
    BY <1>0, <1>3, <2>1, ScansKeepInbox DEF importVars, InboxTypeOK, InboxNext
<1>4. CASE /\ Environment
           /\ altered' = altered \cup
                {p \in Path : file'[p] # file[p] \/ scan'.seen[p] \in Unstable}
           /\ UNCHANGED <<source, importer, events>>
  <2>1. \A c \in ValidPdf : InboxPath[c] \notin altered' =>
          /\ file'[InboxPath[c]] = file[InboxPath[c]]
          /\ SeenWhole(c)' /\ TruthAt(db', c) /\ TruthAt(tx', c)
    BY <1>4, EnvironmentTruth DEF Untouched
  <2>2. altered' \in SUBSET Path
    BY <1>0, <1>4 DEF InboxTypeOK
  <2> QED
    BY <1>4, <2>1, <2>2, ScansKeepInbox DEF InboxNext
<1>5. CASE UNCHANGED inboxVars
  <2>1. \A m \in Importer : ImportUnderWay(importer[m])'
    BY <1>5 DEF InboxInvariant, ImportUnderWay, Untouched, inboxVars, vars, importVars
  <2> QED
    BY <1>0, <1>5, <2>1, ImporterStep DEF inboxVars, vars, importVars, InboxTypeOK, TypeOK
<1> QED
  BY <1>1, <1>2, <1>3, <1>4, <1>5 DEF InboxNext

(* It holds whatever imports, scans and the world do.                      *)
THEOREM InboxInductive == InboxSpec => []InboxInvariant
BY InboxStart, InboxStep, PTL DEF InboxSpec

(* The importers, the inbox and the manifest are well-typed.               *)
THEOREM InboxTypeCorrect == InboxSpec => []InboxTypeOK
<1>1. InboxInvariant => InboxTypeOK
  BY DEF InboxInvariant
<1> QED
  BY <1>1, InboxInductive, PTL

(* An inbox file has the content its name is the hash of, however imports  *)
(* and scans meet, fail and are killed, unless the user wrote there or     *)
(* changed the source between an import's hash and its copy.               *)
THEOREM InboxFilesAreWhole == InboxSpec => []InboxNamesContent
<1>1. InboxInvariant => InboxNamesContent
  BY DEF InboxInvariant
<1> QED
  BY <1>1, InboxInductive, PTL

(* What was noted as imported is in the inbox, unless somebody altered it. *)
THEOREM InboxEventsHaveFiles == InboxSpec => []EventsHaveFiles
<1>1. InboxInvariant => EventsHaveFiles
  BY DEF InboxInvariant
<1> QED
  BY <1>1, InboxInductive, PTL

(* No scan records an imported file as anything but what it is.            *)
THEOREM InboxScansSeeWholeImports == InboxSpec => []ScansSeeWholeImports
<1>1. InboxInvariant => ScansSeeWholeImports
  BY DEF InboxInvariant, ScansSeeWholeImports
<1> QED
  BY <1>1, InboxInductive, PTL

-----------------------------------------------------------------------------
(* What ImportsBecomeAvailable rests on.  Imports beside the scans leave   *)
(* no quiet scan with a false account: what they write disturbs it.        *)
LEMMA InboxQuietNext ==
  ASSUME InboxInvariant', QuietInvariant, [InboxNext]_inboxVars
  PROVE  QuietInvariant'
<1>0. InductiveInvariant' /\ scan \in ScanState
  BY DEF InboxInvariant, QuietInvariant, InductiveInvariant, TypeOK
<1>1. ASSUME UNCHANGED <<file, db, tx, scan>> PROVE QuietInvariant'
  BY <1>0, <1>1 DEF QuietInvariant, QuietSeen, QuietAccount, Handled, TrueAt, AccountsFor,
                    StandsFor, OwnNamed
<1>2. ASSUME scan' = Disturb PROVE QuietInvariant'
  <2>1. scan'.phase # "idle" => ~scan'.quiet
    BY <1>0, <1>2 DEF Disturb, ScanState
  <2>2. scan'.phase = "record" => scan'.phase # "idle"
    OBVIOUS
  <2> QED
    BY <1>0, <2>1, <2>2 DEF QuietInvariant, QuietSeen, QuietAccount
<1>3. ASSUME NEW m \in Importer, ImportStep(m) \/ ImportCopyTorn(m) \/ ImportCrash(m)
      PROVE  QuietInvariant'
  BY <1>1, <1>2, <1>3 DEF ImportStep, ImportProbe, ImportExisting, ImportCopy,
     ImportReplace, ImportRecord, ImportFails, ImportLockedOut, ImportCopyTorn,
     ImportCrash, vars
<1>4. CASE SourceChange
  BY <1>1, <1>4 DEF SourceChange
<1>5. CASE ScanStep \/ Environment
  BY <1>5, QuietNext DEF Next
<1>6. CASE UNCHANGED inboxVars
  BY <1>1, <1>6 DEF inboxVars, vars
<1> QED
  BY <1>3, <1>4, <1>5, <1>6 DEF InboxNext

(* An inbox file of which the manifest tells the truth is available.       *)
LEMMA SettledIsAvailable ==
  ASSUME InductiveInvariant, NEW c \in ValidPdf, SettledAt(db, InboxPath[c], c)
  PROVE  Available(c)
<1>1. PICK i \in InstanceId : /\ db.instance[i] # None
                              /\ db.instance[i].sha = c
                              /\ db.instance[i].status = "available"
  <2>1. None \notin ValidPdf
    BY ManifestAssumption DEF PaperId
  <2> QED
    BY <2>1 DEF SettledAt
<1>2. db.decision[c] # None
  BY <1>1 DEF InductiveInvariant, RowsConsistentOutside, AvailableIsClassified
<1> QED
  BY <1>1, <1>2 DEF Available

(* Beside any imports, too, a scan that nothing disturbed leaves the truth *)
(* about every file, and then every inbox file that has the content of its *)
(* name is available and classified; or the scan has named one more row.   *)
THEOREM InboxQuietScansSettle ==
  /\ InboxSpec => QuietScanSettles
  /\ InboxSpec =>
       [][(ScanCommit /\ scan.quiet) =>
            \/ \A c \in ValidPdf : file[InboxPath[c]] = c => Available(c)'
            \/ OwnNamed(db') # OwnNamed(db)]_vars
<1>1. InboxInit => QuietInvariant
  BY QuietInit DEF InboxInit
<1>2. InboxSpec => []QuietInvariant
  BY <1>1, InboxQuietNext, InboxInductive, PTL DEF InboxSpec
<1>3. QuietInvariant =>
        [(ScanCommit /\ scan.quiet) =>
           /\ OwnNamed(db) \subseteq OwnNamed(db')
           /\ \/ \A p \in Path : SettledAt(db', p, file[p])
              \/ OwnNamed(db') # OwnNamed(db)]_vars
  BY CommitSettles
<1>4. QuietInvariant /\ InductiveInvariant' =>
        [(ScanCommit /\ scan.quiet) =>
           \/ \A c \in ValidPdf : file[InboxPath[c]] = c => Available(c)'
           \/ OwnNamed(db') # OwnNamed(db)]_vars
  <2> SUFFICES ASSUME QuietInvariant, InductiveInvariant', ScanCommit, scan.quiet,
                      \A p \in Path : SettledAt(db', p, file[p]),
                      NEW c \in ValidPdf, file[InboxPath[c]] = c
               PROVE  Available(c)'
    BY CommitSettles
  <2>1. InboxPath[c] \in Path
    BY InboxAssumption
  <2>2. SettledAt(db, InboxPath[c], c)'
    BY <2>1 DEF SettledAt, ExistingInstanceForPath
  <2>3. (InductiveInvariant /\ SettledAt(db, InboxPath[c], c) => Available(c))'
    BY SettledIsAvailable, PTL
  <2> QED
    BY <2>2, <2>3
<1>5. InboxInvariant => InductiveInvariant
  BY DEF InboxInvariant
<1> QED
  BY <1>2, <1>3, <1>4, <1>5, InboxInductive, PTL DEF QuietScanSettles

=============================================================================
