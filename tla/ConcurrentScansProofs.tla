------------------------ MODULE ConcurrentScansProofs ------------------------
(***************************************************************************)
(* What overlapping scans leave in the manifest, for any number of         *)
(* scanners, paths, contents, file changes and kills.                      *)
(***************************************************************************)
EXTENDS ConcurrentScans, ManifestTablesProofs

-----------------------------------------------------------------------------
(* One row of a path that joins the raced ones harms nobody else.          *)
LEMMA MoreRaced ==
  ASSUME NEW d, NEW R, NEW S, R \subseteq S, RowsConsistentOutside(d, R)
  PROVE  RowsConsistentOutside(d, S)
BY DEF RowsConsistentOutside, OneRowPerPathOutside, AvailableMatchesSnapshotOutside

(* The lookups give an id, and one that has the path to itself.            *)
LEMMA InstanceForFacts ==
  ASSUME NEW d \in Manifest, NEW s \in Scanner, NEW p \in Path,
         scanner[s].seen[p] \in PaperId, NEW i \in InstanceFor(d, s, p)
  PROVE  /\ i \in InstanceId
         /\ \A R : OneRowPerPathOutside(d, R) /\ p \notin R => SoleRow(d, p, i)
<1>1. CASE Ready(s, p)
  <2>1. scanner[s].seen[p] \in Content
    BY <1>1, ManifestAssumption DEF Ready
  <2> QED
    BY <1>1, <2>1, InstanceForReadyType, ReadyInstanceOwnsPath DEF InstanceFor
<1>2. CASE ~Ready(s, p)
  BY <1>2, InstanceForPendingType, PendingInstanceOwnsPath DEF InstanceFor
<1> QED
  BY <1>1, <1>2

(* A recorded file keeps the types.                                        *)
LEMMA RecordType ==
  ASSUME NEW d \in Manifest, NEW s \in Scanner, NEW p \in Path, NEW i \in InstanceId,
         scanner[s].seen[p] \in PaperId
  PROVE  Record(d, s, p, i) \in Manifest
<1> DEFINE seed == scanner[s].seen[p]
           lane == ClassifyDocument(p, file[p])
<1>1. CASE Ready(s, p)
  <2>1. seed \in Content
    BY <1>1, ManifestAssumption DEF Ready
  <2>2. lane \in Lane
    BY ClassifyDocumentType
  <2>3. RecordReady(d, p, seed, i) \in Manifest
    BY <2>1, RecordReadyType
  <2>4. RecordReadyClassification(RecordReady(d, p, seed, i), seed, lane) \in Manifest
    BY <2>2, <2>3, RecordReadyClassificationType
  <2> QED
    BY <1>1, <2>4 DEF Record
<1>2. CASE ~Ready(s, p)
  BY <1>2, RecordPendingType DEF Record
<1> QED
  BY <1>1, <1>2

(* A recorded file keeps the rows consistent outside the raced paths, when *)
(* its id has the path to itself or the path is raced.                     *)
LEMMA RecordKeepsRows ==
  ASSUME NEW d \in Manifest, NEW R, RowsConsistentOutside(d, R),
         NEW s \in Scanner, NEW p \in Path, NEW i \in InstanceId,
         scanner[s].seen[p] \in PaperId, p \in R \/ SoleRow(d, p, i)
  PROVE  RowsConsistentOutside(Record(d, s, p, i), R)
<1>1. CASE Ready(s, p)
  BY <1>1, ClassifyDocumentType, RecordReadyKeepsRows DEF Record, Ready
<1>2. CASE ~Ready(s, p)
  BY <1>2, RecordPendingKeepsRows DEF Record
<1> QED
  BY <1>1, <1>2

-----------------------------------------------------------------------------
(* The inductive invariant.                                                *)

(* A scanner that does nothing is in a legal state.                        *)
LEMMA IdleFacts == Idle \in ScannerState /\ ProbedBeforeRecorded(Idle)
BY DEF Idle, ScannerState, ProbedBeforeRecorded

(* The inductive invariant holds before the first scan.                    *)
LEMMA ConcurrentInit == Init => InductiveInvariant
<1> SUFFICES ASSUME Init PROVE InductiveInvariant
  OBVIOUS
<1>1. ConcurrentTypeOK
  BY EmptyManifestType, IdleFacts, ConcurrentAssumption DEF Init, ConcurrentTypeOK
<1>2. RowsConsistentOutside(db, raced) /\ RowsConsistentOutside(tx, raced)
  BY EmptyManifestRows DEF Init
<1>3. \A s \in Scanner : ProbedBeforeRecorded(scanner[s])
  BY IdleFacts DEF Init
<1> QED
  BY <1>1, <1>2, <1>3 DEF InductiveInvariant

(* A step of scanner s into the state me, with what it does to the tables. *)
LEMMA ScannerGoes ==
  ASSUME InductiveInvariant, NEW s \in Scanner, NEW me \in ScannerState,
         ProbedBeforeRecorded(me), Become(s, me),
         file' \in [Path -> FileState], changes' \in 0..MaxChanges,
         crashes' \in 0..MaxCrashes, lock' \in Scanner \cup {None},
         db' \in Manifest, tx' \in Manifest, raced' \in SUBSET Path,
         RowsConsistentOutside(db', raced'), RowsConsistentOutside(tx', raced')
  PROVE  InductiveInvariant'
<1>1. scanner' = [scanner EXCEPT ![s] = me] /\ scanner \in [Scanner -> ScannerState]
  BY DEF Become, InductiveInvariant, ConcurrentTypeOK
<1>2. ConcurrentTypeOK'
  BY <1>1 DEF InductiveInvariant, ConcurrentTypeOK
<1>3. \A t \in Scanner : ProbedBeforeRecorded(scanner'[t])
  BY <1>1 DEF InductiveInvariant
<1>4. RowsConsistentOutside(db, raced)' /\ RowsConsistentOutside(tx, raced)'
  BY DEF RowsConsistentOutside, OneRowPerPathOutside, AvailableIsClassified,
         AvailableMatchesSnapshotOutside, PendingNotAvailable
<1>5. (\A t \in Scanner : ProbedBeforeRecorded(scanner[t]))'
  BY <1>3 DEF ProbedBeforeRecorded
<1> QED
  BY <1>2, <1>4, <1>5 DEF InductiveInvariant

(* Likewise a step that changes no file.                                   *)
LEMMA ScannerSteps ==
  ASSUME InductiveInvariant, NEW s \in Scanner, NEW me \in ScannerState,
         ProbedBeforeRecorded(me), Become(s, me), file' = file, changes' = changes,
         crashes' \in 0..MaxCrashes, lock' \in Scanner \cup {None},
         db' \in Manifest, tx' \in Manifest, raced' \in SUBSET Path,
         RowsConsistentOutside(db', raced'), RowsConsistentOutside(tx', raced')
  PROVE  InductiveInvariant'
<1>1. file' \in [Path -> FileState] /\ changes' \in 0..MaxChanges
  BY DEF InductiveInvariant, ConcurrentTypeOK
<1> QED
  BY <1>1, ScannerGoes

(* What the invariant says of a scanner and of the next file it records.   *)
LEMMA ScannerFacts ==
  ASSUME InductiveInvariant, NEW s \in Scanner
  PROVE  /\ scanner[s] \in ScannerState /\ ProbedBeforeRecorded(scanner[s])
         /\ db \in Manifest /\ tx \in Manifest /\ lock \in Scanner \cup {None}
         /\ raced \in SUBSET Path /\ crashes \in 0..MaxCrashes
         /\ RowsConsistentOutside(db, raced) /\ RowsConsistentOutside(tx, raced)
         /\ \A p \in Path :
              (IsNext(s, p) /\ ~At(s, "idle") /\ ~At(s, "probe")) =>
                 scanner[s].seen[p] \in PaperId
<1>1. scanner[s] \in ScannerState /\ ProbedBeforeRecorded(scanner[s])
  BY DEF InductiveInvariant, ConcurrentTypeOK
<1>2. \A p \in Path : (IsNext(s, p) /\ ~At(s, "idle") /\ ~At(s, "probe")) =>
                        scanner[s].seen[p] \in PaperId
  BY <1>1 DEF IsNext, IsFirst, At, ScannerState, ProbedBeforeRecorded
<1> QED
  BY <1>1, <1>2 DEF InductiveInvariant, ConcurrentTypeOK

(* The last probe leads on to the lookups, with everything probed.         *)
LEMMA ProbedFacts ==
  ASSUME NEW me \in ScannerState, ProbedBeforeRecorded(me), me.phase = "probe"
  PROVE  Probed(me) \in ScannerState /\ ProbedBeforeRecorded(Probed(me))
<1>1. CASE me.todo = {}
  <2> DEFINE on == [me EXCEPT !.phase = "lookup", !.todo = me.observed]
  <2>1. /\ on \in ScannerState /\ on.phase = "lookup" /\ on.todo = me.observed
        /\ on.observed = me.observed /\ on.seen = me.seen
    BY DEF ScannerState
  <2>2. \A p \in me.observed : me.seen[p] # None
    BY <1>1 DEF ProbedBeforeRecorded
  <2> HIDE DEF on
  <2>3. ProbedBeforeRecorded(on)
    BY <2>1, <2>2 DEF ProbedBeforeRecorded
  <2> QED
    BY <1>1, <2>1, <2>3 DEF Probed, on
<1>2. CASE me.todo # {}
  BY <1>2 DEF Probed
<1> QED
  BY <1>1, <1>2

(* Whatever has become of its transaction, a scanner that rolls back       *)
(* leaves the committed rows alone.                                        *)
LEMMA RollBackKeeps ==
  ASSUME InductiveInvariant, NEW s \in Scanner, RollBack(s), crashes' \in 0..MaxCrashes
  PROVE  InductiveInvariant'
<1>1. /\ db' = db /\ raced' = raced /\ Become(s, Idle) /\ file' = file
      /\ changes' = changes
      /\ \/ tx' = EmptyManifest /\ lock' = None
         \/ tx' = tx /\ lock' = lock
  BY DEF RollBack, Release
<1>2. RowsConsistentOutside(EmptyManifest, raced)
  BY EmptyManifestRows
<1> QED
  BY <1>1, <1>2, EmptyManifestType, IdleFacts, ScannerFacts, ScannerSteps

(* A scanner that goes on to its next file has probed that file.           *)
LEMMA RecordedFacts ==
  ASSUME InductiveInvariant, NEW s \in Scanner, NEW p \in Path,
         At(s, "begin") \/ At(s, "record")
  PROVE  LET me == [scanner[s] EXCEPT !.phase = "record", !.todo = @ \ {p}, !.id = None]
         IN me \in ScannerState /\ ProbedBeforeRecorded(me)
<1> DEFINE me == [scanner[s] EXCEPT !.phase = "record", !.todo = @ \ {p}, !.id = None]
<1>1. scanner[s] \in ScannerState /\ ProbedBeforeRecorded(scanner[s])
  BY ScannerFacts
<1>2. /\ me \in ScannerState /\ me.phase = "record" /\ me.todo = scanner[s].todo \ {p}
      /\ me.observed = scanner[s].observed /\ me.seen = scanner[s].seen
  BY <1>1 DEF ScannerState
<1> HIDE DEF me
<1>3. ProbedBeforeRecorded(me)
  BY <1>1, <1>2 DEF ProbedBeforeRecorded, At
<1> QED
  BY <1>2, <1>3 DEF me

(* The lookups of the first file leave an instance id behind.              *)
LEMMA LookedUpFacts ==
  ASSUME InductiveInvariant, NEW s \in Scanner, At(s, "lookup") \/ At(s, "moved"),
         NEW i \in InstanceId
  PROVE  LET me == [scanner[s] EXCEPT !.phase = "begin", !.id = i]
         IN me \in ScannerState /\ ProbedBeforeRecorded(me)
<1> DEFINE me == [scanner[s] EXCEPT !.phase = "begin", !.id = i]
<1>1. scanner[s] \in ScannerState /\ ProbedBeforeRecorded(scanner[s])
  BY ScannerFacts
<1>2. /\ me \in ScannerState /\ me.phase = "begin" /\ me.todo = scanner[s].todo
      /\ me.observed = scanner[s].observed /\ me.seen = scanner[s].seen /\ me.id = i
  BY <1>1 DEF ScannerState
<1>3. i # None
  BY ManifestAssumption DEF InstanceId, PaperId
<1> HIDE DEF me
<1>4. ProbedBeforeRecorded(me)
  BY <1>1, <1>2, <1>3 DEF ProbedBeforeRecorded, At
<1> QED
  BY <1>2, <1>4 DEF me

(* What a probe has reported, whatever it is, is kept for the record.      *)
LEMMA ProbeKeeps ==
  ASSUME InductiveInvariant, NEW s \in Scanner, NEW p \in Path, At(s, "probe"),
         NEW seen \in PaperId
  PROVE  LET me == [scanner[s] EXCEPT !.todo = @ \ {p}, !.seen[p] = seen]
         IN Probed(me) \in ScannerState /\ ProbedBeforeRecorded(Probed(me))
<1> DEFINE me == [scanner[s] EXCEPT !.todo = @ \ {p}, !.seen[p] = seen]
<1>0. scanner[s] \in ScannerState /\ ProbedBeforeRecorded(scanner[s])
  BY ScannerFacts
<1>1. seen # None
  BY ManifestAssumption
<1>2. /\ me \in ScannerState /\ me.phase = "probe" /\ me.todo = scanner[s].todo \ {p}
      /\ me.observed = scanner[s].observed
      /\ me.seen = [scanner[s].seen EXCEPT ![p] = seen]
      /\ scanner[s].seen \in [Path -> PaperId \cup {None}]
      /\ scanner[s].observed \subseteq Path /\ scanner[s].phase = "probe"
  BY <1>0 DEF At, ScannerState
<1> HIDE DEF me
<1>3. ProbedBeforeRecorded(me)
  BY <1>0, <1>1, <1>2 DEF ProbedBeforeRecorded
<1>4. Probed(me) \in ScannerState /\ ProbedBeforeRecorded(Probed(me))
  BY <1>2, <1>3, ProbedFacts
<1> QED
  BY <1>4 DEF me

(* A file that is written while it is probed stays for a later scan.       *)
LEMMA UnstableKeeps ==
  ASSUME InductiveInvariant, NEW s \in Scanner, NEW p \in Path, ScanProbeUnstable(s, p)
  PROVE  InductiveInvariant'
<1>1. PICK u \in Unstable, c \in Content :
        /\ file' = [file EXCEPT ![p] = c]
        /\ Become(s, Probed([scanner[s] EXCEPT !.todo = @ \ {p}, !.seen[p] = u]))
  BY DEF ScanProbeUnstable
<1> DEFINE me == Probed([scanner[s] EXCEPT !.todo = @ \ {p}, !.seen[p] = u])
<1>2. u \in PaperId
  BY DEF PaperId, Hashless
<1>3. me \in ScannerState /\ ProbedBeforeRecorded(me)
  BY <1>2, ProbeKeeps DEF ScanProbeUnstable
<1>4. file' \in [Path -> FileState] /\ changes' \in 0..MaxChanges
  BY <1>1, ConcurrentAssumption
     DEF ScanProbeUnstable, InductiveInvariant, ConcurrentTypeOK, FileState
<1>5. Become(s, me)
  BY <1>1
<1>6. /\ db \in Manifest /\ tx \in Manifest /\ lock \in Scanner \cup {None}
      /\ raced \in SUBSET Path /\ crashes \in 0..MaxCrashes
      /\ RowsConsistentOutside(db, raced) /\ RowsConsistentOutside(tx, raced)
  BY ScannerFacts
<1> HIDE DEF me
<1> QED
  BY <1>3, <1>4, <1>5, <1>6, ScannerGoes DEF ScanProbeUnstable

(* The first write of a batch: the path joins the raced ones when the id   *)
(* is not one that the lookups would give by now.                          *)
LEMMA BeginKeeps ==
  ASSUME InductiveInvariant, NEW s \in Scanner, NEW p \in Path, ScanBegin(s, p)
  PROVE  InductiveInvariant'
<1> DEFINE i == scanner[s].id
           me == [scanner[s] EXCEPT !.phase = "record", !.todo = @ \ {p}, !.id = None]
<1>1. At(s, "begin") /\ IsNext(s, p) /\ tx' = Record(db, s, p, i)
  BY DEF ScanBegin
<1>2. scanner[s].seen[p] \in PaperId
  BY <1>1, ScannerFacts DEF At
<1>3. i \in InstanceId
  BY <1>1, ScannerFacts DEF At, ScannerState, ProbedBeforeRecorded
<1>4. db \in Manifest /\ RowsConsistentOutside(db, raced) /\ raced \in SUBSET Path
  BY ScannerFacts
<1>5. raced \subseteq raced' /\ raced' \in SUBSET Path
  BY <1>4 DEF ScanBegin
<1>6. RowsConsistentOutside(db, raced')
  BY <1>4, <1>5, MoreRaced
<1>7. p \in raced' \/ SoleRow(db, p, i)
  <2>1. CASE i \in InstanceFor(db, s, p)
    <3>1. OneRowPerPathOutside(db, raced)
      BY <1>4 DEF RowsConsistentOutside
    <3> QED
      BY <1>2, <1>4, <1>5, <2>1, <3>1, InstanceForFacts
  <2>2. CASE i \notin InstanceFor(db, s, p)
    BY <2>2 DEF ScanBegin
  <2> QED
    BY <2>1, <2>2
<1>8. tx' \in Manifest
  BY <1>1, <1>2, <1>3, <1>4, RecordType
<1>9. RowsConsistentOutside(tx', raced')
  BY <1>1, <1>2, <1>3, <1>4, <1>6, <1>7, RecordKeepsRows
<1>10. me \in ScannerState /\ ProbedBeforeRecorded(me)
  BY <1>1, RecordedFacts
<1>11. /\ Become(s, me) /\ file' = file /\ changes' = changes /\ db' = db
       /\ crashes' = crashes /\ lock' = s
  BY DEF ScanBegin, Recorded
<1>12. crashes \in 0..MaxCrashes
  BY ScannerFacts
<1> HIDE DEF i, me
<1> QED
  BY <1>4, <1>5, <1>6, <1>8, <1>9, <1>10, <1>11, <1>12, ScannerSteps

(* A later file of the batch is looked up inside the transaction, and its  *)
(* id has the path to itself unless the path was raced before.             *)
LEMMA RecordStepKeeps ==
  ASSUME InductiveInvariant, NEW s \in Scanner, NEW p \in Path, ScanRecord(s, p)
  PROVE  InductiveInvariant'
<1> DEFINE me == [scanner[s] EXCEPT !.phase = "record", !.todo = @ \ {p}, !.id = None]
<1>1. At(s, "record") /\ IsNext(s, p)
  BY DEF ScanRecord
<1>2. scanner[s].seen[p] \in PaperId
  BY <1>1, ScannerFacts DEF At
<1>3. /\ tx \in Manifest /\ RowsConsistentOutside(tx, raced) /\ raced \in SUBSET Path
      /\ db \in Manifest /\ RowsConsistentOutside(db, raced)
      /\ lock \in Scanner \cup {None} /\ crashes \in 0..MaxCrashes
  BY ScannerFacts
<1>4. PICK i \in InstanceFor(tx, s, p) : tx' = Record(tx, s, p, i)
  BY DEF ScanRecord
<1>5. OneRowPerPathOutside(tx, raced)
  BY <1>3 DEF RowsConsistentOutside
<1>6. i \in InstanceId /\ (p \in raced \/ SoleRow(tx, p, i))
  BY <1>2, <1>3, <1>4, <1>5, InstanceForFacts
<1>7. tx' \in Manifest
  BY <1>2, <1>3, <1>4, <1>6, RecordType
<1>8. RowsConsistentOutside(tx', raced)
  BY <1>2, <1>3, <1>4, <1>6, RecordKeepsRows
<1>9. me \in ScannerState /\ ProbedBeforeRecorded(me)
  BY <1>1, RecordedFacts
<1>10. /\ Become(s, me) /\ file' = file /\ changes' = changes /\ db' = db
       /\ crashes' = crashes /\ lock' = lock /\ raced' = raced
  BY DEF ScanRecord, Recorded
<1> HIDE DEF me
<1> QED
  BY <1>3, <1>7, <1>8, <1>9, <1>10, ScannerSteps

(* Each step of a scanner keeps the inductive invariant.                   *)
LEMMA ScannerStepKeeps ==
  ASSUME InductiveInvariant, NEW s \in Scanner, ScannerStep(s)
  PROVE  InductiveInvariant'
<1>0. /\ scanner[s] \in ScannerState /\ ProbedBeforeRecorded(scanner[s])
      /\ db \in Manifest /\ tx \in Manifest /\ lock \in Scanner \cup {None}
      /\ raced \in SUBSET Path /\ crashes \in 0..MaxCrashes
      /\ RowsConsistentOutside(db, raced) /\ RowsConsistentOutside(tx, raced)
      /\ file \in [Path -> FileState]
  BY ScannerFacts DEF InductiveInvariant, ConcurrentTypeOK
<1>1. CASE ScanWalk(s)
  <2> DEFINE found == {p \in Path : file[p] # None}
             walked == [Idle EXCEPT !.phase = "probe", !.todo = found, !.observed = found]
  <2>1. /\ walked \in ScannerState /\ walked.phase = "probe"
        /\ walked.todo = found /\ walked.observed = found
    BY DEF Idle, ScannerState
  <2>2. Become(s, Probed(walked))
    BY <1>1 DEF ScanWalk
  <2> HIDE DEF walked
  <2>3. ProbedBeforeRecorded(walked)
    BY <2>1 DEF ProbedBeforeRecorded
  <2>4. Probed(walked) \in ScannerState /\ ProbedBeforeRecorded(Probed(walked))
    BY <2>1, <2>3, ProbedFacts
  <2> QED
    BY <1>0, <1>1, <2>2, <2>4, ScannerSteps DEF ScanWalk
<1>2. ASSUME NEW p \in Path, ScanProbe(s, p) PROVE InductiveInvariant'
  <2> DEFINE me == [scanner[s] EXCEPT !.todo = @ \ {p}, !.seen[p] = ProbeResult(file[p])]
  <2>1. ProbeResult(file[p]) \in PaperId
    BY <1>0, ProbeResultType
  <2>2. Probed(me) \in ScannerState /\ ProbedBeforeRecorded(Probed(me))
    BY <1>2, <2>1, ProbeKeeps DEF ScanProbe
  <2>3. Become(s, Probed(me))
    BY <1>2 DEF ScanProbe
  <2> HIDE DEF me
  <2> QED
    BY <1>0, <1>2, <2>2, <2>3, ScannerSteps DEF ScanProbe
<1>3. ASSUME NEW p \in Path, ScanLookUpPath(s, p) PROVE InductiveInvariant'
  <2>1. scanner[s].seen[p] \in PaperId /\ At(s, "lookup")
    BY <1>3, ScannerFacts DEF ScanLookUpPath, At
  <2>2. ASSUME NEW i \in InstanceId,
               Become(s, [scanner[s] EXCEPT !.phase = "begin", !.id = i])
        PROVE  InductiveInvariant'
    BY <1>0, <1>3, <2>1, <2>2, LookedUpFacts, ScannerSteps DEF ScanLookUpPath
  <2>3. ASSUME Become(s, [scanner[s] EXCEPT !.phase = "moved"])
        PROVE  InductiveInvariant'
    <3> DEFINE me == [scanner[s] EXCEPT !.phase = "moved"]
    <3>1. /\ me \in ScannerState /\ me.phase = "moved" /\ me.todo = scanner[s].todo
          /\ me.observed = scanner[s].observed /\ me.seen = scanner[s].seen
      BY <1>0 DEF ScannerState
    <3>2. Become(s, me)
      BY <2>3
    <3> HIDE DEF me
    <3>3. ProbedBeforeRecorded(me)
      BY <1>0, <2>1, <3>1 DEF ProbedBeforeRecorded, At
    <3> QED
      BY <1>0, <1>3, <3>1, <3>2, <3>3, ScannerSteps DEF ScanLookUpPath
  <2>4. \A i \in ExistingInstanceForPath(db, p) : i \in InstanceId
    BY DEF ExistingInstanceForPath
  <2>5. scanner[s].seen[p] \in InstanceId
    BY <2>1 DEF PaperId, InstanceId
  <2>6. \/ \E i \in ExistingInstanceForPath(db, p) :
             Become(s, [scanner[s] EXCEPT !.phase = "begin", !.id = i])
        \/ Become(s, [scanner[s] EXCEPT !.phase = "begin", !.id = scanner[s].seen[p]])
        \/ Become(s, [scanner[s] EXCEPT !.phase = "moved"])
    BY <1>3 DEF ScanLookUpPath
  <2> QED
    BY <2>2, <2>3, <2>4, <2>5, <2>6
<1>4. ASSUME NEW p \in Path, ScanLookUpMoved(s, p) PROVE InductiveInvariant'
  <2>1. scanner[s].seen[p] \in PaperId /\ At(s, "moved")
    BY <1>4, ScannerFacts DEF ScanLookUpMoved, At
  <2>2. PICK i \in InstanceId : Become(s, [scanner[s] EXCEPT !.phase = "begin", !.id = i])
    BY <1>4, <2>1 DEF ScanLookUpMoved, MovedInstanceForSha, PaperId, InstanceId
  <2> QED
    BY <1>0, <1>4, <2>1, <2>2, LookedUpFacts, ScannerSteps DEF ScanLookUpMoved
<1>5. CASE ScanCommit(s)
  <2>1. scanner[s].observed \in SUBSET Path
    BY <1>0 DEF ScannerState
  <2>2. db' \in Manifest /\ RowsConsistentOutside(db', raced)
    BY <1>0, <1>5, <2>1, MarkMissingType, MarkMissingKeepsRows DEF ScanCommit
  <2>3. RowsConsistentOutside(EmptyManifest, raced)
    BY EmptyManifestRows
  <2> QED
    BY <1>0, <1>5, <2>2, <2>3, EmptyManifestType, IdleFacts, ScannerSteps
       DEF ScanCommit, Release
<1>6. CASE ScanCommitEmpty(s)
  <2>1. db' \in Manifest /\ RowsConsistentOutside(db', raced)
    BY <1>0, <1>6, MarkMissingType, MarkMissingKeepsRows DEF ScanCommitEmpty
  <2> QED
    BY <1>0, <1>6, <2>1, IdleFacts, ScannerSteps DEF ScanCommitEmpty
<1>7. CASE ScanLockedOut(s)
  BY <1>0, <1>7, RollBackKeeps DEF ScanLockedOut
<1>8. ASSUME NEW p \in Path, ScanReadFails(s, p) PROVE InductiveInvariant'
  BY <1>0, <1>8, RollBackKeeps DEF ScanReadFails
<1> QED
  BY <1>1, <1>2, <1>3, <1>4, <1>5, <1>6, <1>7, <1>8, BeginKeeps, RecordStepKeeps
     DEF ScannerStep

(* Each step of a scanner, each kill and each change of a file keeps it.   *)
LEMMA ConcurrentNext ==
  ASSUME InductiveInvariant, [Next]_vars
  PROVE  InductiveInvariant'
<1>1. ASSUME NEW s \in Scanner, ScanCrash(s) PROVE InductiveInvariant'
  <2>1. crashes' \in 0..MaxCrashes
    BY <1>1, ScannerFacts, ConcurrentAssumption DEF ScanCrash
  <2> QED
    BY <1>1, <2>1, RollBackKeeps DEF ScanCrash
<1>2. CASE (\E p \in Path : FileChange(p)) \/ UNCHANGED vars
  <2>1. /\ UNCHANGED <<db, lock, tx, scanner, raced, crashes>>
        /\ changes' = changes \/ (changes < MaxChanges /\ changes' = changes + 1)
        /\ \/ file' = file
           \/ \E p \in Path, f \in FileState : file' = [file EXCEPT ![p] = f]
    BY <1>2 DEF FileChange, vars
  <2>2. file' \in [Path -> FileState] /\ changes' \in 0..MaxChanges
    BY <2>1, ConcurrentAssumption DEF InductiveInvariant, ConcurrentTypeOK
  <2>3. ConcurrentTypeOK'
    BY <2>1, <2>2 DEF InductiveInvariant, ConcurrentTypeOK
  <2>4. RowsConsistentOutside(db, raced)' /\ RowsConsistentOutside(tx, raced)'
    BY <2>1 DEF InductiveInvariant, RowsConsistentOutside, OneRowPerPathOutside,
       AvailableIsClassified, AvailableMatchesSnapshotOutside, PendingNotAvailable
  <2>5. (\A s \in Scanner : ProbedBeforeRecorded(scanner[s]))'
    BY <2>1 DEF InductiveInvariant, ProbedBeforeRecorded
  <2> QED
    BY <2>3, <2>4, <2>5 DEF InductiveInvariant
<1> QED
  BY <1>1, <1>2, ScannerStepKeeps, UnstableKeeps DEF Next

(* Overlapping scans keep the inductive invariant for ever.                *)
THEOREM ConcurrentInductive == Spec => []InductiveInvariant
BY ConcurrentInit, ConcurrentNext, PTL DEF Spec

(* The manifest is well-typed, however the scans overlap.                  *)
THEOREM ConcurrentTypeCorrect == Spec => []ConcurrentTypeOK
<1>1. InductiveInvariant => ConcurrentTypeOK
  BY DEF InductiveInvariant
<1> QED
  BY <1>1, ConcurrentInductive, PTL

(* Only a race at the first file of a batch leaves two rows for one path.  *)
THEOREM ConcurrentOneRow == Spec => []OnlyRacesDoubleRows
<1>1. InductiveInvariant => OnlyRacesDoubleRows
  BY DEF InductiveInvariant, RowsConsistentOutside, OnlyRacesDoubleRows
<1> QED
  BY <1>1, ConcurrentInductive, PTL

(* Only there may an available instance disagree with its snapshot.        *)
THEOREM ConcurrentMatchesSnapshot == Spec => []OnlyRacesHideChanges
<1>1. InductiveInvariant => OnlyRacesHideChanges
  BY DEF InductiveInvariant, RowsConsistentOutside, OnlyRacesHideChanges
<1> QED
  BY <1>1, ConcurrentInductive, PTL

(* No overlap of scans makes an unclassified paper available.              *)
THEOREM ConcurrentClassified == Spec => []RacesClassify
<1>1. InductiveInvariant => RacesClassify
  BY DEF InductiveInvariant, RowsConsistentOutside, RacesClassify
<1> QED
  BY <1>1, ConcurrentInductive, PTL

(* No overlap of scans leaves a retry row for an available instance.       *)
THEOREM ConcurrentRetries == Spec => []RacesKeepRetries
<1>1. InductiveInvariant => RacesKeepRetries
  BY DEF InductiveInvariant, RowsConsistentOutside, RacesKeepRetries
<1> QED
  BY <1>1, ConcurrentInductive, PTL

-----------------------------------------------------------------------------
(* Scans that take turns.  No scanner writes while another one has looked  *)
(* up the first file of its batch and not begun to record it: what holds   *)
(* if a scan is alone, and would hold if the transaction of a batch began  *)
(* before its first lookup.                                                *)
HasLookedUp(s) == At(s, "moved") \/ At(s, "begin")

Writing(s) == At(s, "record") \/ (At(s, "lookup") /\ scanner[s].todo = {})

TakeTurns == \A s, t \in Scanner : HasLookedUp(s) /\ Writing(t) => s = t

(* What scanner s has looked up is what the lookups would still answer.    *)
LookupStands(s) ==
  \A p \in Path : IsNext(s, p) =>
    /\ At(s, "moved") => Ready(s, p) /\ ExistingInstanceForPath(db, p) = {}
    /\ At(s, "begin") => scanner[s].id \in InstanceFor(db, s, p)

NothingOvertaken == raced = {} /\ \A s \in Scanner : LookupStands(s)

(* A step of scanner s leaves the lookups of the others standing.          *)
LEMMA OtherLookupsStand ==
  ASSUME InductiveInvariant, NothingOvertaken, TakeTurns,
         NEW s \in Scanner, NEW me, Become(s, me), raced' = raced,
         db' = db \/ Writing(s), LookupStands(s)'
  PROVE  NothingOvertaken'
<1>1. ASSUME NEW t \in Scanner, t # s PROVE LookupStands(t)'
  <2>1. scanner'[t] = scanner[t]
    BY <1>1 DEF Become, InductiveInvariant, ConcurrentTypeOK
  <2>2. CASE db' = db
    BY <2>1, <2>2 DEF NothingOvertaken, LookupStands, IsNext, At, Ready, InstanceFor
  <2>3. CASE Writing(s)
    <3>1. ~HasLookedUp(t)
      BY <1>1, <2>3 DEF TakeTurns
    <3> QED
      BY <2>1, <3>1 DEF LookupStands, HasLookedUp, At
  <2> QED
    BY <2>2, <2>3
<1> QED
  BY <1>1 DEF NothingOvertaken

(* The new state of a scanner.                                             *)
LEMMA Became ==
  ASSUME InductiveInvariant, NEW s \in Scanner, NEW me, Become(s, me)
  PROVE  scanner'[s] = me
BY DEF Become, InductiveInvariant, ConcurrentTypeOK

(* A scanner that has looked nothing up, or has used what it looked up.    *)
LEMMA NoLookupStands ==
  ASSUME InductiveInvariant, NEW s \in Scanner, NEW me, Become(s, me),
         me.phase \notin {"moved", "begin"}
  PROVE  LookupStands(s)'
BY Became DEF LookupStands, At

(* The two lookups, on a manifest that does not change under them.         *)
LEMMA LookingUpStands ==
  ASSUME InductiveInvariant, NEW s \in Scanner, LookupStands(s), NEW p \in Path,
         ScanLookUpPath(s, p) \/ ScanLookUpMoved(s, p)
  PROVE  LookupStands(s)'
<1> DEFINE here == ExistingInstanceForPath(db, p)
           moved == MovedInstanceForSha(db, scanner[s].seen[p], scanner[s].observed)
<1>1. scanner[s] \in ScannerState /\ db' = db /\ IsNext(s, p)
  BY Zenon DEF ScanLookUpPath, ScanLookUpMoved, InductiveInvariant, ConcurrentTypeOK
<1>2. \/ Become(s, [scanner[s] EXCEPT !.phase = "moved"]) /\ here = {} /\ Ready(s, p)
      \/ \E i \in InstanceFor(db, s, p) :
           Become(s, [scanner[s] EXCEPT !.phase = "begin", !.id = i])
  <2>1. CASE ScanLookUpPath(s, p)
    <3>1. CASE here # {}
      <4>1. InstanceFor(db, s, p) = here
        BY <3>1 DEF InstanceFor, InstanceForReady, InstanceForPending
      <4>2. \E i \in here : Become(s, [scanner[s] EXCEPT !.phase = "begin", !.id = i])
        BY <2>1, <3>1, Zenon DEF ScanLookUpPath
      <4> QED
        BY <4>1, <4>2, Zenon
    <3>2. CASE here = {} /\ ~Ready(s, p)
      <4>1. InstanceFor(db, s, p) = {scanner[s].seen[p]}
        BY <3>2 DEF InstanceFor, InstanceForPending
      <4>2. Become(s, [scanner[s] EXCEPT !.phase = "begin", !.id = scanner[s].seen[p]])
        BY <2>1, <3>2 DEF ScanLookUpPath
      <4> QED
        BY <4>1, <4>2
    <3>3. CASE here = {} /\ Ready(s, p)
      <4>1. Become(s, [scanner[s] EXCEPT !.phase = "moved"])
        BY <2>1, <3>3 DEF ScanLookUpPath
      <4> QED
        BY <3>3, <4>1, Zenon
    <3> QED
      BY <3>1, <3>2, <3>3, Zenon
  <2>2. CASE ScanLookUpMoved(s, p)
    <3>1. here = {} /\ Ready(s, p)
      BY <1>1, <2>2, Zenon DEF ScanLookUpMoved, LookupStands
    <3>2. InstanceFor(db, s, p) = IF moved = {} THEN {scanner[s].seen[p]} ELSE moved
      BY <3>1 DEF InstanceFor, InstanceForReady
    <3>3. \E i \in IF moved = {} THEN {scanner[s].seen[p]} ELSE moved :
            Become(s, [scanner[s] EXCEPT !.phase = "begin", !.id = i])
      BY <2>2, Zenon DEF ScanLookUpMoved
    <3> QED
      BY <3>2, <3>3, Zenon
  <2> QED
    BY <2>1, <2>2, Zenon
<1> HIDE DEF here, moved
<1>3. /\ scanner'[s].todo = scanner[s].todo /\ scanner'[s].seen = scanner[s].seen
      /\ scanner'[s].observed = scanner[s].observed
      /\ \/ scanner'[s].phase = "moved" /\ here = {} /\ Ready(s, p)
         \/ scanner'[s].phase = "begin" /\ scanner'[s].id \in InstanceFor(db, s, p)
  <2>1. CASE Become(s, [scanner[s] EXCEPT !.phase = "moved"]) /\ here = {} /\ Ready(s, p)
    <3>1. scanner'[s] = [scanner[s] EXCEPT !.phase = "moved"]
      BY <2>1, Became
    <3> QED
      BY <1>1, <2>1, <3>1 DEF ScannerState
  <2>2. ASSUME NEW i \in InstanceFor(db, s, p),
               Become(s, [scanner[s] EXCEPT !.phase = "begin", !.id = i])
        PROVE  /\ scanner'[s].todo = scanner[s].todo /\ scanner'[s].seen = scanner[s].seen
               /\ scanner'[s].observed = scanner[s].observed
               /\ scanner'[s].phase = "begin" /\ scanner'[s].id \in InstanceFor(db, s, p)
    <3>1. scanner'[s] = [scanner[s] EXCEPT !.phase = "begin", !.id = i]
      BY <2>2, Became
    <3> QED
      BY <1>1, <3>1 DEF ScannerState
  <2> QED
    BY <1>2, <2>1, <2>2, Zenon
<1>4. ASSUME NEW q \in Path, IsNext(s, q)' PROVE q = p
  BY <1>1, <1>3, <1>4, ManifestAssumption DEF IsNext, IsFirst
<1>5. InstanceFor(db, s, p)' = InstanceFor(db, s, p) /\ (Ready(s, p)' <=> Ready(s, p))
  BY <1>1, <1>3 DEF InstanceFor, Ready
<1>6. here = ExistingInstanceForPath(db', p)
  BY <1>1 DEF here
<1> QED
  BY <1>3, <1>4, <1>5, <1>6 DEF LookupStands, At

(* While the scans take turns, no lookup is ever overtaken.                *)
LEMMA TurnsStand ==
  ASSUME InductiveInvariant, NothingOvertaken, TakeTurns, [Next]_vars
  PROVE  NothingOvertaken'
<1>1. ASSUME NEW s \in Scanner, NEW me, Become(s, me), me.phase \notin {"moved", "begin"},
             raced' = raced, db' = db \/ Writing(s)
      PROVE  NothingOvertaken'
  BY <1>1, NoLookupStands, OtherLookupsStand
<1>2. ASSUME NEW s \in Scanner, RollBack(s) PROVE NothingOvertaken'
  BY <1>1, <1>2 DEF RollBack, Idle
<1>3. ASSUME NEW s \in Scanner, ScannerStep(s) PROVE NothingOvertaken'
  <2>1. CASE ScanWalk(s)
    BY <1>1, <2>1 DEF ScanWalk, Probed, Idle
  <2>2. ASSUME NEW p \in Path, ScanProbe(s, p) PROVE NothingOvertaken'
    <3> DEFINE me == [scanner[s] EXCEPT !.todo = @ \ {p}, !.seen[p] = ProbeResult(file[p])]
    <3>1. me.phase = "probe" /\ Probed(me).phase \in {"probe", "lookup"}
      BY <2>2, ScannerFacts DEF ScanProbe, At, Probed, ScannerState
    <3>2. Become(s, Probed(me)) /\ raced' = raced /\ db' = db
      BY <2>2 DEF ScanProbe
    <3> HIDE DEF me
    <3> QED
      BY <1>1, <3>1, <3>2
  <2>3. ASSUME NEW p \in Path, ScanLookUpPath(s, p) \/ ScanLookUpMoved(s, p)
        PROVE  NothingOvertaken'
    <3>1. LookupStands(s)'
      BY <2>3, LookingUpStands DEF NothingOvertaken
    <3>2. raced' = raced /\ db' = db
      BY <2>3, Zenon DEF ScanLookUpPath, ScanLookUpMoved
    <3>3. \E me : Become(s, me)
      BY <2>3, Zenon DEF ScanLookUpPath, ScanLookUpMoved
    <3> QED
      BY <3>1, <3>2, <3>3, OtherLookupsStand
  <2>4. ASSUME NEW p \in Path, ScanBegin(s, p) PROVE NothingOvertaken'
    <3>1. scanner[s].id \in InstanceFor(db, s, p)
      BY <2>4 DEF ScanBegin, NothingOvertaken, LookupStands
    <3>2. raced' = raced /\ db' = db
      BY <2>4, <3>1 DEF ScanBegin
    <3> QED
      BY <1>1, <2>4, <3>2, ScannerFacts DEF ScanBegin, Recorded, ScannerState
  <2>5. ASSUME NEW p \in Path, ScanRecord(s, p) PROVE NothingOvertaken'
    BY <1>1, <2>5, ScannerFacts DEF ScanRecord, Recorded, ScannerState
  <2>6. CASE ScanCommit(s)
    BY <1>1, <2>6 DEF ScanCommit, Writing, Idle
  <2>7. CASE ScanCommitEmpty(s)
    BY <1>1, <2>7 DEF ScanCommitEmpty, Writing, Idle
  <2>8. CASE ScanLockedOut(s) \/ \E p \in Path : ScanReadFails(s, p)
    BY <1>2, <2>8 DEF ScanLockedOut, ScanReadFails
  <2> QED
    BY <1>3, <2>1, <2>2, <2>3, <2>4, <2>5, <2>6, <2>7, <2>8 DEF ScannerStep
<1>4. CASE (\E p \in Path : FileChange(p)) \/ UNCHANGED vars
  BY <1>4 DEF FileChange, vars, NothingOvertaken, LookupStands, IsNext, At, Ready, InstanceFor
<1>5. ASSUME NEW s \in Scanner, NEW p \in Path, ScanProbeUnstable(s, p)
      PROVE  NothingOvertaken'
  <2>1. PICK u \in Unstable :
          Become(s, Probed([scanner[s] EXCEPT !.todo = @ \ {p}, !.seen[p] = u]))
    BY <1>5 DEF ScanProbeUnstable
  <2> DEFINE me == [scanner[s] EXCEPT !.todo = @ \ {p}, !.seen[p] = u]
  <2>2. me.phase = "probe" /\ Probed(me).phase \in {"probe", "lookup"}
    BY <1>5, ScannerFacts DEF ScanProbeUnstable, At, Probed, ScannerState
  <2>3. Become(s, Probed(me)) /\ raced' = raced /\ db' = db
    BY <1>5, <2>1 DEF ScanProbeUnstable
  <2> HIDE DEF me
  <2> QED
    BY <1>1, <2>2, <2>3
<1> QED
  BY <1>2, <1>3, <1>4, <1>5 DEF Next, ScanCrash

(* Overlapping scans race only through the gap between the first lookup    *)
(* and the first write: if no scanner writes in the gap of another, no     *)
(* path is raced, and the manifest is as consistent as under single scans. *)
THEOREM TurnsKeepRows == (Spec /\ []TakeTurns) => [](raced = {} /\ RowsConsistentOutside(db, {}))
<1>1. Init => NothingOvertaken
  BY DEF Init, Idle, NothingOvertaken, LookupStands, At
<1>2. InductiveInvariant /\ NothingOvertaken => raced = {} /\ RowsConsistentOutside(db, {})
  BY DEF InductiveInvariant, NothingOvertaken
<1> QED
  BY <1>1, <1>2, TurnsStand, ConcurrentInductive, PTL DEF Spec

(* A scanner that is alone takes turns with nobody.                        *)
THEOREM LoneScannerKeepsRows ==
  ASSUME \A s, t \in Scanner : s = t
  PROVE  Spec => [](raced = {} /\ RowsConsistentOutside(db, {}))
<1>1. TakeTurns
  BY DEF TakeTurns
<1> QED
  BY <1>1, TurnsKeepRows, PTL

=============================================================================
