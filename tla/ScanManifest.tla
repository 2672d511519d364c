----------------------------- MODULE ScanManifest -----------------------------
(***************************************************************************)
(* `rpv scan --once`: one process walks the storage roots, probes every    *)
(* PDF it found, and records the batch in the SQLite manifest in one       *)
(* transaction, while the files go on changing underneath it (a cloud      *)
(* client, the user) and the process may be killed at any step.            *)
(***************************************************************************)
EXTENDS ManifestTables

CONSTANTS
  MaxChanges,  \* bound: how often files change
  MaxCrashes   \* bound: how often the scanner is killed

ASSUME ScanAssumption == MaxChanges \in Nat /\ MaxCrashes \in Nat

VARIABLES
  file,     \* the file system: what is at each path now
  db,       \* the committed manifest
  tx,       \* the scanner's uncommitted copy of it
  scan,     \* the scanner's own state
  changes,  \* how often a file has changed
  crashes   \* how often the scanner was killed

vars == <<file, db, tx, scan, changes, crashes>>

(* seen is what probe_sync_ready, stat what probe_sync_metadata has        *)
(* reported: a dry run is in the phase "stat" from its walk to its commit. *)
(* quiet is a history field: no file has changed since the walk began.     *)
ScanState ==
  [phase : {"idle", "probe", "record", "stat"}, todo : SUBSET Path,
   observed : SUBSET Path, seen : [Path -> PaperId \cup {None}],
   stat : [Path -> DryStatus \cup {None}], quiet : BOOLEAN]

IdleScan == [phase |-> "idle", todo |-> {}, observed |-> {},
             seen |-> [p \in Path |-> None], stat |-> [p \in Path |-> None],
             quiet |-> TRUE]

TypeOK ==
  /\ file \in [Path -> FileState]
  /\ db \in Manifest
  /\ tx \in Manifest
  /\ scan \in ScanState
  /\ changes \in 0..MaxChanges
  /\ crashes \in 0..MaxCrashes

-----------------------------------------------------------------------------
(* The files, as the sync client and the user change them.                 *)

Disturb == [scan EXCEPT !.quiet = scan.phase = "idle"]

FileChange(p) ==
  /\ changes < MaxChanges
  /\ \E f \in FileState \ {file[p]} : file' = [file EXCEPT ![p] = f]
  /\ changes' = changes + 1
  /\ scan' = Disturb
  /\ UNCHANGED <<db, tx, crashes>>

FileMove(p, q) ==
  /\ changes < MaxChanges
  /\ file[p] # None /\ file[q] = None
  /\ file' = [file EXCEPT ![q] = file[p], ![p] = None]
  /\ changes' = changes + 1
  /\ scan' = Disturb
  /\ UNCHANGED <<db, tx, crashes>>

-----------------------------------------------------------------------------
(* One scan.                                                               *)

(* sorted(root.rglob("*")), kept when is_file() and .pdf                   *)
Walk(phase) ==
  /\ scan.phase = "idle"
  /\ LET found == {p \in Path : file[p] # None}
     IN scan' = [IdleScan EXCEPT !.phase = phase, !.todo = found,
                                 !.observed = found]
  /\ UNCHANGED <<file, db, tx, changes, crashes>>

ScanWalk == Walk("probe")

ScanProbe(p) ==
  /\ scan.phase = "probe"
  /\ IsFirst(p, scan.todo)
  /\ scan' = [scan EXCEPT !.todo = @ \ {p}, !.seen[p] = ProbeResult(file[p])]
  /\ UNCHANGED <<file, db, tx, changes, crashes>>

(* The file is written between the two samples of its size and mtime.      *)
ScanProbeUnstable(p) ==
  /\ scan.phase = "probe"
  /\ IsFirst(p, scan.todo)
  /\ changes < MaxChanges
  /\ file[p] \in Content
  /\ \E u \in Unstable, c \in Content :
       /\ file' = [file EXCEPT ![p] = c]
       /\ scan' = [Disturb EXCEPT !.todo = @ \ {p}, !.seen[p] = u]
  /\ changes' = changes + 1
  /\ UNCHANGED <<db, tx, crashes>>

(* The connection is opened and the tables created once all is probed.     *)
ScanBegin ==
  /\ scan.phase = "probe" /\ scan.todo = {}
  /\ scan' = [scan EXCEPT !.phase = "record", !.todo = scan.observed]
  /\ tx' = db
  /\ UNCHANGED <<file, db, changes, crashes>>

(* A ready file.  The classifier opens the file again: the lane is that of *)
(* what is at the path now, recorded for the paper of what was hashed.     *)
ScanRecordReady(p) ==
  /\ scan.phase = "record"
  /\ IsFirst(p, scan.todo)
  /\ scan.seen[p] \in ValidPdf
  /\ file[p] \in Content
  /\ LET c == scan.seen[p]
         lane == ClassifyDocument(p, file[p])
     IN \E i \in InstanceForReady(tx, p, c, scan.observed) :
          tx' = RecordReadyClassification(RecordReady(tx, p, c, i), c, lane)
  /\ scan' = [scan EXCEPT !.todo = @ \ {p}]
  /\ UNCHANGED <<file, db, changes, crashes>>

ScanRecordPending(p) ==
  /\ scan.phase = "record"
  /\ IsFirst(p, scan.todo)
  /\ scan.seen[p] \notin ValidPdf
  /\ LET seed == scan.seen[p]
     IN \E i \in InstanceForPending(tx, p, seed) :
          tx' = RecordPending(tx, p, seed, i)
  /\ scan' = [scan EXCEPT !.todo = @ \ {p}]
  /\ UNCHANGED <<file, db, changes, crashes>>

ScanCommit ==
  /\ scan.phase = "record" /\ scan.todo = {}
  /\ db' = MarkMissing(tx, scan.observed)
  /\ scan' = IdleScan /\ tx' = EmptyManifest
  /\ UNCHANGED <<file, changes, crashes>>

RollBack == scan' = IdleScan /\ tx' = EmptyManifest /\ UNCHANGED db

(* read_bytes of a file that is gone or locked by now raises OSError: the  *)
(* whole batch is rolled back.                                             *)
ScanReadFails(p) ==
  /\ scan.phase = "record"
  /\ IsFirst(p, scan.todo)
  /\ scan.seen[p] \in ValidPdf /\ file[p] \notin Content
  /\ RollBack
  /\ UNCHANGED <<file, changes, crashes>>

ScanCrash ==
  /\ scan.phase # "idle"
  /\ crashes < MaxCrashes
  /\ crashes' = crashes + 1
  /\ RollBack
  /\ UNCHANGED <<file, changes>>

(* `rpv scan --once --dry-run`: the same walk, then a look at each file    *)
(* that was found, without reading it; the connection is opened only then, *)
(* and no row but the snapshot's is written.                               *)
DryRunWalk == Walk("stat")

DryRunStat(p) ==
  /\ scan.phase = "stat"
  /\ IsFirst(p, scan.todo)
  /\ \E status \in MetadataResults(file[p]) :
       scan' = [scan EXCEPT !.todo = @ \ {p}, !.stat[p] = status]
  /\ UNCHANGED <<file, db, tx, changes, crashes>>

DryRunCommit ==
  /\ scan.phase = "stat" /\ scan.todo = {}
  /\ db' = RecordSnapshots(db, scan.observed, scan.stat)
  /\ scan' = IdleScan
  /\ UNCHANGED <<file, tx, changes, crashes>>

-----------------------------------------------------------------------------
Init ==
  /\ file \in [Path -> FileState]
  /\ db = EmptyManifest /\ tx = EmptyManifest
  /\ scan = IdleScan
  /\ changes = 0 /\ crashes = 0

ScanStep ==
  \/ ScanWalk \/ ScanBegin \/ ScanCommit
  \/ \E p \in Path : \/ ScanProbe(p) \/ ScanRecordReady(p)
                     \/ ScanRecordPending(p) \/ ScanReadFails(p)

DryRunGoesOn == DryRunCommit \/ \E p \in Path : DryRunStat(p)

Environment ==
  \/ ScanCrash \/ DryRunWalk \/ DryRunGoesOn
  \/ \E p \in Path : FileChange(p) \/ ScanProbeUnstable(p)
  \/ \E p, q \in Path : FileMove(p, q)

Next == ScanStep \/ Environment

Spec == Init /\ [][Next]_vars

(* The scan is run again and again (a schedule, or the user), however many *)
(* dry runs there are between, and a run that is not killed goes on: its   *)
(* steps wait for nobody.                                                  *)
FairSpec == Spec /\ SF_vars(ScanStep) /\ WF_vars(DryRunGoesOn)

-----------------------------------------------------------------------------
(* What the other commands find in the manifest after any history of       *)
(* changes, scans, dry runs, failed reads and kills.                       *)
CommittedOneRowPerPath == OneRowPerPathOutside(db, {})
CommittedAvailableIsClassified == AvailableIsClassified(db)
CommittedAvailableMatchesSnapshot == AvailableMatchesSnapshotOutside(db, {})
CommittedPendingNotAvailable == PendingNotAvailable(db)

(* What makes them inductive: the working copy is as consistent as the     *)
(* committed one after every file, and a file is recorded only after it    *)
(* was probed.                                                             *)
ProbedBeforeRecorded ==
  /\ scan.todo \subseteq scan.observed
  /\ \A p \in scan.observed : scan.phase # "stat" /\ scan.seen[p] = None =>
       scan.phase = "probe" /\ p \in scan.todo
  /\ \A p \in scan.observed : scan.phase = "stat" /\ scan.stat[p] = None =>
       p \in scan.todo

InductiveInvariant ==
  /\ TypeOK
  /\ RowsConsistentOutside(db, {}) /\ RowsConsistentOutside(tx, {})
  /\ ProbedBeforeRecorded

-----------------------------------------------------------------------------
(* What repeated scans settle on once the files stop changing.             *)

(* Files may be copied over one another, moved, locked and unlocked: when  *)
(* they have come to rest, the manifest says the truth about every one of  *)
(* them from some scan on.  One scan is not enough for it.                 *)
ManifestConverges == <>[](\A p \in Path : SettledAt(db, p, file[p]))

(* ... and from some scan on, scanning changes no row but the snapshot's.  *)
TrackedTables == <<db.paper, db.decision, db.instance, db.pending, db.queue>>
ManifestStabilises == <>[][UNCHANGED TrackedTables]_db

(* Why they settle.  A row whose id was made from what is at its path now  *)
(* is never lost to a file with another content; any other row may be,     *)
(* and then its path stands without one until the next scan.  A scan that  *)
(* nothing disturbed never undoes such a naming, and unless it adds one,   *)
(* it leaves the truth about every file: while the files rest, at most as  *)
(* many scans as there are ids leave something out.                        *)
OwnNamed(d) ==
  {i \in InstanceId : /\ d.instance[i] # None
                      /\ file[d.instance[i].path] # None
                      /\ ProbeResult(file[d.instance[i].path]) = i}

QuietScanSettles ==
  [][(ScanCommit /\ scan.quiet) =>
       /\ OwnNamed(db) \subseteq OwnNamed(db')
       /\ \/ \A p \in Path : SettledAt(db', p, file[p])
          \/ OwnNamed(db') # OwnNamed(db)]_vars

(* docs/onedrive-sharepoint.md:26, "Treat sync-conflict and cloud-only     *)
(* files as pending": a scan nothing disturbed has a retry row for every   *)
(* file it could not read.                                                 *)
UnreadableFilesArePending ==
  [][(ScanCommit /\ scan.quiet) =>
       \A p \in scan.observed : file[p] = Unreadable => db'.pending[p] # None]_vars

=============================================================================
