---------------------------- MODULE ConcurrentScans ----------------------------
(***************************************************************************)
(* Several `rpv scan --once` at a time, on one manifest: a schedule and a  *)
(* user, or an `rpv ingest` next to a scan.  SQLite lets one of them write *)
(* at a time, but the transaction of a batch begins with its first write,  *)
(* and the rows of the first file are looked up before it.                 *)
(***************************************************************************)
EXTENDS ManifestTables

CONSTANTS
  Scanner,     \* the processes that scan
  MaxChanges,  \* bound: how often files change
  MaxCrashes   \* bound: how often a scanner is killed

ASSUME ConcurrentAssumption ==
  /\ None \notin Scanner
  /\ MaxChanges \in Nat /\ MaxCrashes \in Nat

VARIABLES
  file,     \* the file system: what is at each path now
  db,       \* the committed manifest
  lock,     \* the scanner inside a write transaction, None if there is none
  tx,       \* its uncommitted copy of the manifest
  scanner,  \* each scanner's own state
  raced,    \* history: paths written with the answer of an overtaken lookup
  changes,  \* how often a file has changed
  crashes   \* how often a scanner was killed

vars == <<file, db, lock, tx, scanner, raced, changes, crashes>>

(* id is the instance that the lookups for the first file have found.      *)
ScannerState ==
  [phase : {"idle", "probe", "lookup", "moved", "begin", "record"},
   todo : SUBSET Path, observed : SUBSET Path,
   seen : [Path -> PaperId \cup {None}], id : InstanceId \cup {None}]

Idle == [phase |-> "idle", todo |-> {}, observed |-> {},
         seen |-> [p \in Path |-> None], id |-> None]

ConcurrentTypeOK ==
  /\ file \in [Path -> FileState]
  /\ db \in Manifest
  /\ lock \in Scanner \cup {None}
  /\ tx \in Manifest
  /\ scanner \in [Scanner -> ScannerState]
  /\ raced \in SUBSET Path
  /\ changes \in 0..MaxChanges
  /\ crashes \in 0..MaxCrashes

Become(s, state) == scanner' = [scanner EXCEPT ![s] = state]

At(s, phase) == scanner[s].phase = phase

IsNext(s, p) == IsFirst(p, scanner[s].todo)

Ready(s, p) == scanner[s].seen[p] \in ValidPdf

FileChange(p) ==
  /\ changes < MaxChanges
  /\ \E f \in FileState \ {file[p]} : file' = [file EXCEPT ![p] = f]
  /\ changes' = changes + 1
  /\ UNCHANGED <<db, lock, tx, scanner, raced, crashes>>

-----------------------------------------------------------------------------
(* The walk, and a probe of each file found; the last one leads on to the  *)
(* connection and its tables, which are there already.                     *)
Probed(state) ==
  IF state.todo = {} THEN [state EXCEPT !.phase = "lookup", !.todo = state.observed]
  ELSE state

ScanWalk(s) ==
  /\ At(s, "idle")
  /\ LET found == {p \in Path : file[p] # None}
     IN Become(s, Probed([Idle EXCEPT !.phase = "probe", !.todo = found,
                                      !.observed = found]))
  /\ UNCHANGED <<file, db, lock, tx, raced, changes, crashes>>

ScanProbe(s, p) ==
  /\ At(s, "probe") /\ IsNext(s, p)
  /\ Become(s, Probed([scanner[s] EXCEPT !.todo = @ \ {p},
                                         !.seen[p] = ProbeResult(file[p])]))
  /\ UNCHANGED <<file, db, lock, tx, raced, changes, crashes>>

(* The file is written between the two samples of its size and mtime.      *)
ScanProbeUnstable(s, p) ==
  /\ At(s, "probe") /\ IsNext(s, p)
  /\ changes < MaxChanges
  /\ file[p] \in Content
  /\ \E u \in Unstable, c \in Content :
       /\ file' = [file EXCEPT ![p] = c]
       /\ Become(s, Probed([scanner[s] EXCEPT !.todo = @ \ {p}, !.seen[p] = u]))
  /\ changes' = changes + 1
  /\ UNCHANGED <<db, lock, tx, raced, crashes>>

-----------------------------------------------------------------------------
(* The first file.  Python begins the transaction at the first INSERT: the *)
(* SELECT by path, and the one by hash after it, each read what is         *)
(* committed at that moment, and hold nothing.                             *)
ScanLookUpPath(s, p) ==
  /\ At(s, "lookup") /\ IsNext(s, p)
  /\ LET here == ExistingInstanceForPath(db, p)
         me == scanner[s]
     IN \/ \E i \in here : Become(s, [me EXCEPT !.phase = "begin", !.id = i])
        \/ /\ here = {} /\ ~Ready(s, p)
           /\ Become(s, [me EXCEPT !.phase = "begin", !.id = me.seen[p]])
        \/ /\ here = {} /\ Ready(s, p)
           /\ Become(s, [me EXCEPT !.phase = "moved"])
  /\ UNCHANGED <<file, db, lock, tx, raced, changes, crashes>>

ScanLookUpMoved(s, p) ==
  /\ At(s, "moved") /\ IsNext(s, p)
  /\ LET me == scanner[s]
         moved == MovedInstanceForSha(db, me.seen[p], me.observed)
     IN \E i \in IF moved = {} THEN {me.seen[p]} ELSE moved :
          Become(s, [me EXCEPT !.phase = "begin", !.id = i])
  /\ UNCHANGED <<file, db, lock, tx, raced, changes, crashes>>

(* What the lookups answer on the manifest d.                              *)
InstanceFor(d, s, p) ==
  LET me == scanner[s]
  IN IF Ready(s, p) THEN InstanceForReady(d, p, me.seen[p], me.observed)
     ELSE InstanceForPending(d, p, me.seen[p])

CanRead(s, p) == Ready(s, p) => file[p] \in Content

Record(d, s, p, i) ==
  LET seed == scanner[s].seen[p]
  IN IF Ready(s, p)
       THEN RecordReadyClassification(RecordReady(d, p, seed, i), seed,
                                      ClassifyDocument(p, file[p]))
       ELSE RecordPending(d, p, seed, i)

Recorded(s, p) ==
  Become(s, [scanner[s] EXCEPT !.phase = "record", !.todo = @ \ {p}, !.id = None])

(* The first write: it waits for the lock, and takes the id that was       *)
(* looked up before.                                                       *)
ScanBegin(s, p) ==
  /\ At(s, "begin") /\ IsNext(s, p) /\ CanRead(s, p)
  /\ lock = None /\ lock' = s
  /\ LET i == scanner[s].id
     IN /\ tx' = Record(db, s, p, i)
        /\ raced' = IF i \in InstanceFor(db, s, p) THEN raced ELSE raced \cup {p}
  /\ Recorded(s, p)
  /\ UNCHANGED <<file, db, changes, crashes>>

(* Every other file is looked up inside the transaction.                   *)
ScanRecord(s, p) ==
  /\ At(s, "record") /\ IsNext(s, p) /\ CanRead(s, p)
  /\ \E i \in InstanceFor(tx, s, p) : tx' = Record(tx, s, p, i)
  /\ Recorded(s, p)
  /\ UNCHANGED <<file, db, lock, raced, changes, crashes>>

-----------------------------------------------------------------------------
(* The ends of a scan.                                                     *)

(* Mutant of Release: the transaction stays open.                          *)
ReleaseNothing(s) == UNCHANGED lock /\ tx' = EmptyManifest

Release(s) == lock' = None /\ tx' = EmptyManifest

ScanCommit(s) ==
  /\ At(s, "record") /\ scanner[s].todo = {}
  /\ db' = MarkMissing(tx, scanner[s].observed)
  /\ Release(s) /\ Become(s, Idle)
  /\ UNCHANGED <<file, raced, changes, crashes>>

(* Nothing was found: mark_missing is the only write.                      *)
ScanCommitEmpty(s) ==
  /\ At(s, "lookup") /\ scanner[s].todo = {} /\ lock = None
  /\ db' = MarkMissing(db, {})
  /\ Become(s, Idle)
  /\ UNCHANGED <<file, lock, tx, raced, changes, crashes>>

RollBack(s) ==
  /\ IF lock = s THEN Release(s) ELSE UNCHANGED <<lock, tx>>
  /\ Become(s, Idle)
  /\ UNCHANGED <<file, db, raced, changes>>

ScanReadFails(s, p) ==
  /\ IsNext(s, p) /\ ~CanRead(s, p)
  /\ At(s, "record") \/ (At(s, "begin") /\ lock = None)
  /\ RollBack(s) /\ UNCHANGED crashes

(* "database is locked": the other scan has kept the lock for longer than  *)
(* sqlite3's timeout.                                                      *)
ScanLockedOut(s) ==
  /\ At(s, "begin") \/ (At(s, "lookup") /\ scanner[s].todo = {})
  /\ lock # None
  /\ RollBack(s) /\ UNCHANGED crashes

ScanCrash(s) ==
  /\ ~At(s, "idle")
  /\ crashes < MaxCrashes
  /\ crashes' = crashes + 1
  /\ RollBack(s)

-----------------------------------------------------------------------------
Init ==
  /\ file \in [Path -> FileState]
  /\ db = EmptyManifest /\ tx = EmptyManifest
  /\ lock = None /\ scanner = [s \in Scanner |-> Idle]
  /\ raced = {} /\ changes = 0 /\ crashes = 0

ScannerStep(s) ==
  \/ ScanWalk(s) \/ ScanCommit(s) \/ ScanCommitEmpty(s) \/ ScanLockedOut(s)
  \/ \E p \in Path : \/ ScanProbe(s, p) \/ ScanLookUpPath(s, p)
                     \/ ScanLookUpMoved(s, p) \/ ScanBegin(s, p)
                     \/ ScanRecord(s, p) \/ ScanReadFails(s, p)

Next ==
  \/ \E s \in Scanner : ScannerStep(s) \/ ScanCrash(s)
  \/ \E p \in Path : FileChange(p) \/ \E s \in Scanner : ScanProbeUnstable(s, p)

Spec == Init /\ [][Next]_vars

(* Each scanner is run again and again, and one that waits for the lock    *)
(* gets it or gives up.                                                    *)
FairSpec == Spec /\ \A s \in Scanner : WF_vars(ScannerStep(s))

-----------------------------------------------------------------------------
(* Two rows for one path come from a race at the first file of a batch,    *)
(* and from nothing else: all other lookups are inside the transaction.    *)
OnlyRacesDoubleRows == OneRowPerPathOutside(db, raced)

(* Likewise, an instance disagrees with the snapshot of its path only      *)
(* where a race left a second row.                                         *)
OnlyRacesHideChanges == AvailableMatchesSnapshotOutside(db, raced)

(* However scans overlap, nothing unclassified becomes available ...       *)
RacesClassify == AvailableIsClassified(db)

(* ... and no retry row refers to an available instance.                   *)
RacesKeepRetries == PendingNotAvailable(db)

(* What makes these inductive: the working copy is as consistent as the    *)
(* committed manifest, and a file is looked up and recorded only after it  *)
(* was probed.                                                             *)
ProbedBeforeRecorded(me) ==
  /\ me.todo \subseteq me.observed
  /\ \A p \in me.observed : me.seen[p] = None =>
       me.phase = "idle" \/ (me.phase = "probe" /\ p \in me.todo)
  /\ me.phase = "begin" => me.id # None

InductiveInvariant ==
  /\ ConcurrentTypeOK
  /\ RowsConsistentOutside(db, raced) /\ RowsConsistentOutside(tx, raced)
  /\ \A s \in Scanner : ProbedBeforeRecorded(scanner[s])

(* A path that no race has touched ends up with the truth about its file,  *)
(* although every scan may overwrite what a newer one has recorded.        *)
UnracedPathsSettle ==
  <>[](\A p \in Path \ raced : SettledAt(db, p, file[p]))

=============================================================================
