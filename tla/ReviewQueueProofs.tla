--------------------------- MODULE ReviewQueueProofs ---------------------------
(***************************************************************************)
(* What any interleaving of reviewers, agents and scans leaves in the      *)
(* review queue, for every set of papers and clients and every number of   *)
(* requests, scans and seconds.                                            *)
(***************************************************************************)
EXTENDS ReviewQueue, TLAPS

(* A request that acts on what it read earlier: an item that was loaded    *)
(* green had been released, ...                                            *)
LoadedGreenIsReleased ==
  \A c \in Client :
    (/\ client[c].phase = "loaded"
     /\ client[c].item # None
     /\ client[c].item.lane = "green") => Released(client[c].cmd.paper)

(* ... and every paper that lacks a row now was among those selected.      *)
SelectionIsComplete ==
  \A c \in Client :
    (client[c].phase = "selected" /\ client[c].cmd.kind = "list") =>
      \A p \in Paper :
        (db.lane[p] \in ManualReviewLanes /\ db.queue[p] = None) =>
          client[c].missing[p] # None

IInv ==
  /\ TypeOK
  /\ LaneIsExplained
  /\ GreenRowIsReleased
  /\ LoadedGreenIsReleased
  /\ SelectionIsComplete

-----------------------------------------------------------------------------
(* A decision names a paper; a reclassification is made on the command     *)
(* line and names a lane, a merge names another paper.                     *)
LEMMA CommandFacts ==
  ASSUME NEW cmd \in Command
  PROVE  /\ cmd.paper \in Paper
         /\ cmd.kind # "list" => cmd \in Decision
         /\ cmd.kind \in {"list", "approve", "reject", "defer", "quarantine",
                          "reclassify", "merge"}
         /\ cmd.kind = "reclassify" => cmd.arg \in Lane /\ cmd.surface = "cli"
         /\ cmd.kind = "merge" => cmd.arg \in Paper
         /\ cmd.surface \in {"cli", "mcp"}
BY DEF Command, Decision

(* The entry of a request is one of the audit log.                         *)
LEMMA EntryType ==
  ASSUME NEW c \in Client, NEW cmd \in Decision, NEW time \in Clock,
         NEW action \in {"release", "update", "quarantine", "classify"}
  PROVE  /\ EntryOf(c, cmd, time, action) \in AuditEntry
         /\ EntryOf(c, cmd, time, action).paper = cmd.paper
         /\ EntryOf(c, cmd, time, action).actor = c
         /\ EntryOf(c, cmd, time, action).time = time
         /\ EntryOf(c, cmd, time, action).surface = cmd.surface
         /\ EntryOf(c, cmd, time, action).kind = cmd.kind
         /\ EntryOf(c, cmd, time, action).arg = cmd.arg
         /\ EntryOf(c, cmd, time, action).action = action
BY DEF AuditEntry, EntryOf

(* An entry of the audit log grants lanes only, never their absence.       *)
LEMMA GrantsLane ==
  ASSUME NEW e \in AuditEntry
  PROVE  ~EntryGrants(e, None)
<1>1. PICK c \in Client, cmd \in Decision, time \in Clock,
           action \in {"release", "update", "quarantine", "classify"} :
             e = EntryOf(c, cmd, time, action)
  BY DEF AuditEntry
<1>2. cmd \in Command /\ e.kind = cmd.kind /\ e.arg = cmd.arg
  BY <1>1, EntryType DEF Decision
<1>3. None \notin Lane /\ "green" \in Lane
  BY ReviewAssumption DEF Lane
<1> QED
  BY <1>2, <1>3, CommandFacts DEF EntryGrants

(* The row a decision writes is a row of the queue, and it is green only   *)
(* if the item was or the decision releases it.                            *)
LEMMA RowAfterType ==
  ASSUME NEW cmd \in Decision, NEW item \in Row
  PROVE  /\ RowAfter(cmd, item) \in Row
         /\ RowAfter(cmd, item).lane = "green" =>
              \/ item.lane = "green"
              \/ ActionOf(cmd) = "release"
              \/ cmd.kind = "reclassify" /\ cmd.arg = "green"
<1>1. cmd \in Command /\ cmd.kind # "list"
  BY DEF Decision
<1>2. cmd.kind \in {"approve", "reject", "defer", "quarantine", "reclassify", "merge"}
  BY <1>1, CommandFacts
<1>3. item.lane \in Lane /\ item.stage \in StageStatus
  BY DEF Row
<1>4. CASE cmd.kind = "approve"
  BY <1>4 DEF RowAfter, ActionOf, Row, Lane, StageStatus
<1>5. CASE cmd.kind \in {"reject", "defer", "merge"}
  BY <1>3, <1>5 DEF RowAfter, Row, StageStatus
<1>6. CASE cmd.kind = "quarantine"
  BY <1>6 DEF RowAfter, Row, Lane, StageStatus
<1>7. CASE cmd.kind = "reclassify"
  <2>1. cmd.arg \in Lane
    BY <1>1, <1>7, CommandFacts
  <2> QED
    BY <1>7, <2>1 DEF RowAfter, Row, StageAfterReclassify, StageStatus
<1> QED
  BY <1>2, <1>4, <1>5, <1>6, <1>7

(* Inserting the missing rows changes the queue only, and where it had     *)
(* none; a synced row is never green.                                      *)
LEMMA InsertFacts ==
  ASSUME NEW d \in Manifest, NEW missing \in [Paper -> {"amber", "red"} \cup {None}],
         CanInsert(d, missing)
  PROVE  /\ InsertRows(d, missing) \in Manifest
         /\ InsertRows(d, missing).lane = d.lane
         /\ InsertRows(d, missing).classified = d.classified
         /\ InsertRows(d, missing).audit = d.audit
         /\ InsertRows(d, missing).decision = d.decision
         /\ InsertRows(d, missing).merge = d.merge
         /\ \A p \in Paper :
              LET row == InsertRows(d, missing).queue[p]
              IN /\ row # None /\ row.lane = "green" => row = d.queue[p]
                 /\ row = None => d.queue[p] = None /\ missing[p] = None
<1> DEFINE Synced(p) == [lane |-> missing[p], stage |-> SyncedStageForLane(missing[p])]
           queue == [p \in Paper |-> IF missing[p] = None THEN d.queue[p] ELSE Synced(p)]
<1>1. \A p \in Paper : missing[p] # None =>
        /\ Synced(p) \in Row /\ Synced(p).lane = missing[p]
        /\ missing[p] # "green"
  BY DEF Row, Lane, StageStatus, SyncedStageForLane
<1>2. None \notin Row
  BY ReviewAssumption DEF Row
<1>3. d.queue \in [Paper -> Row \cup {None}]
  BY DEF Manifest
<1>4. InsertRows(d, missing) = [d EXCEPT !.queue = queue]
  BY <1>3 DEF InsertRows
<1> HIDE DEF Synced
<1>5. queue \in [Paper -> Row \cup {None}]
  BY <1>1, <1>3
<1>6. \A p \in Paper :
        /\ queue[p] # None /\ queue[p].lane = "green" => queue[p] = d.queue[p]
        /\ queue[p] = None => d.queue[p] = None /\ missing[p] = None
  BY <1>1, <1>2
<1> HIDE DEF queue
<1> QED
  BY <1>4, <1>5, <1>6 DEF Manifest

(* What a request finds when its transaction starts.                       *)
LEMMA WriteFacts ==
  ASSUME IInv, NEW c \in Client, CanWrite(c)
  PROVE  /\ client[c].cmd \in Command /\ client[c].time \in Clock
         /\ Base(c) \in Manifest
         /\ Base(c).lane = db.lane /\ Base(c).classified = db.classified
         /\ Base(c).audit = db.audit /\ Base(c).decision = db.decision
         /\ Base(c).merge = db.merge
         /\ \A p \in Paper :
              LET row == Base(c).queue[p]
              IN /\ row # None /\ row.lane = "green" => Released(p)
                 /\ row = None => db.queue[p] = None
                 /\ row = None /\ client[c].phase = "selected" =>
                      client[c].missing[p] = None
         /\ Item(c) \in Row \cup {None}
         /\ Item(c) # None /\ Item(c).lane = "green" => Released(client[c].cmd.paper)
<1>1. /\ db \in Manifest /\ client[c] \in ClientState
      /\ client[c].phase \in {"selected", "loaded"}
  BY DEF IInv, TypeOK, CanWrite
<1>2. client[c].cmd \in Command /\ client[c].time \in Clock
  BY <1>1 DEF ClientState, Decision
<1>3. client[c].cmd.paper \in Paper
  BY <1>2, CommandFacts
<1>4. CASE client[c].phase = "loaded"
  <2>1. Base(c) = db /\ Item(c) = client[c].item
    BY <1>4 DEF Base, Item
  <2>2. client[c].item \in Row \cup {None}
    BY <1>1, <1>4 DEF ClientState
  <2>3. client[c].item # None /\ client[c].item.lane = "green" => Released(client[c].cmd.paper)
    BY <1>4 DEF IInv, LoadedGreenIsReleased
  <2>4. \A p \in Paper : (db.queue[p] # None /\ db.queue[p].lane = "green") => Released(p)
    BY DEF IInv, GreenRowIsReleased
  <2> QED
    BY <1>1, <1>2, <1>4, <2>1, <2>2, <2>3, <2>4
<1>5. CASE client[c].phase = "selected"
  <2>1. /\ Base(c) = InsertRows(db, client[c].missing)
        /\ Item(c) = Base(c).queue[client[c].cmd.paper]
        /\ CanInsert(db, client[c].missing)
    BY <1>5 DEF Base, Item, CanWrite
  <2>2. client[c].missing \in [Paper -> {"amber", "red"} \cup {None}]
    BY <1>1, <1>5 DEF ClientState
  <2>3. /\ Base(c) \in Manifest
        /\ Base(c).lane = db.lane /\ Base(c).classified = db.classified
        /\ Base(c).audit = db.audit /\ Base(c).decision = db.decision
        /\ Base(c).merge = db.merge
        /\ \A p \in Paper :
             LET row == Base(c).queue[p]
             IN /\ row # None /\ row.lane = "green" => row = db.queue[p]
                /\ row = None => db.queue[p] = None /\ client[c].missing[p] = None
    BY <1>1, <2>1, <2>2, InsertFacts
  <2>4. \A p \in Paper :
             LET row == Base(c).queue[p]
             IN row # None /\ row.lane = "green" => Released(p)
    BY <2>3 DEF IInv, GreenRowIsReleased
  <2>5. Item(c) \in Row \cup {None}
    BY <1>3, <2>1, <2>3 DEF Manifest
  <2> QED
    BY <1>2, <1>3, <2>1, <2>3, <2>4, <2>5
<1> QED
  BY <1>1, <1>4, <1>5

(* The end of a request, whatever it wrote, keeps the invariant if it kept *)
(* the audit log, released what it made green and left no lane without its *)
(* row that had one.                                                       *)
LEMMA RequestEnds ==
  ASSUME IInv, NEW c \in Client, Done(c), db' \in Manifest,
         UNCHANGED <<clock, requests, scans>>,
         db.audit \subseteq db'.audit, LaneIsExplained', GreenRowIsReleased',
         \A p \in Paper : db'.queue[p] = None =>
           db.queue[p] = None /\ db'.lane[p] = db.lane[p]
  PROVE  IInv'
<1>1. /\ client \in [Client -> ClientState]
      /\ client' = [client EXCEPT ![c] = Idle]
      /\ Idle \in ClientState /\ Idle.phase = "idle"
  BY DEF IInv, TypeOK, Done, Idle, ClientState
<1>2. TypeOK'
  BY <1>1 DEF IInv, TypeOK
<1>3. \A k \in Client : client'[k] = client[k] \/ client'[k].phase = "idle"
  BY <1>1
<1>4. LoadedGreenIsReleased'
  BY <1>3 DEF IInv, LoadedGreenIsReleased, Released
<1>5. SelectionIsComplete'
  BY <1>3 DEF IInv, SelectionIsComplete
<1> QED
  BY <1>2, <1>4, <1>5 DEF IInv

(* A scan or the clock keeps it if no row becomes green, and none is       *)
(* missing of a lane that needs one.                                       *)
LEMMA EnvironmentStep ==
  ASSUME IInv, UNCHANGED <<client, requests>>, db' \in Manifest,
         clock' \in Clock, scans' \in 0..MaxScans, db'.audit = db.audit,
         LaneIsExplained',
         \A p \in Paper :
           /\ db'.queue[p] = db.queue[p] \/ db'.queue[p] = None
                \/ db'.queue[p].lane # "green"
           /\ (db'.queue[p] = None /\ db'.lane[p] \in ManualReviewLanes) =>
                db.queue[p] = None /\ db'.lane[p] = db.lane[p]
  PROVE  IInv'
<1>1. TypeOK'
  BY DEF IInv, TypeOK
<1>2. GreenRowIsReleased'
  BY DEF IInv, GreenRowIsReleased, Released
<1>3. LoadedGreenIsReleased'
  BY DEF IInv, LoadedGreenIsReleased, Released
<1>4. SelectionIsComplete'
  BY DEF IInv, SelectionIsComplete
<1> QED
  BY <1>1, <1>2, <1>3, <1>4 DEF IInv

-----------------------------------------------------------------------------
(* Reading keeps the invariant: the papers without a row that a request    *)
(* selects are all there are, and the item it loads is the one in the      *)
(* queue.                                                                  *)
LEMMA SelectKeeps ==
  ASSUME IInv, NEW c \in Client, NEW cmd \in Command, NEW time \in Clock,
         ReviewSelect(c, cmd, time)
  PROVE  IInv'
<1> DEFINE missing == MissingRows(db, SyncLanes(cmd))
           selected == [phase |-> "selected", cmd |-> cmd, time |-> time,
                        missing |-> missing]
<1>1. /\ client' = [client EXCEPT ![c] = selected] /\ requests' = requests + 1
      /\ requests < MaxRequests /\ UNCHANGED <<db, clock, scans>>
  BY DEF ReviewSelect
<1>2. SyncLanes(cmd) \subseteq {"amber", "red"}
  BY ReviewAssumption DEF SyncLanes
<1>3. \A p \in Paper : missing[p] = IF db.lane[p] \in SyncLanes(cmd) /\ db.queue[p] = None
                                      THEN db.lane[p] ELSE None
  BY DEF MissingRows
<1>4. missing \in [Paper -> {"amber", "red"} \cup {None}]
  BY <1>2 DEF MissingRows
<1>5. cmd.kind = "list" =>
        \A p \in Paper : (db.lane[p] \in ManualReviewLanes /\ db.queue[p] = None) =>
          missing[p] # None
  <2> SUFFICES ASSUME cmd.kind = "list", NEW p \in Paper,
                      db.lane[p] \in ManualReviewLanes, db.queue[p] = None
               PROVE  missing[p] # None
    OBVIOUS
  <2>1. SyncLanes(cmd) = ManualReviewLanes
    BY DEF SyncLanes
  <2>2. missing[p] = db.lane[p]
    BY <1>3, <2>1
  <2>3. None \notin ManualReviewLanes
    BY ReviewAssumption DEF Lane
  <2> QED
    BY <2>2, <2>3
<1> HIDE DEF missing
<1>6. selected \in ClientState
  BY <1>4 DEF ClientState
<1>7. selected.phase = "selected" /\ selected.cmd = cmd /\ selected.missing = missing
  OBVIOUS
<1> HIDE DEF selected
<1>8. requests' \in 0..MaxRequests
  BY <1>1, ReviewAssumption DEF IInv, TypeOK
<1>9. client \in [Client -> ClientState]
  BY DEF IInv, TypeOK
<1>10. TypeOK'
  BY <1>1, <1>6, <1>8, <1>9 DEF IInv, TypeOK
<1>11. LaneIsExplained' /\ GreenRowIsReleased'
  BY <1>1 DEF IInv, LaneIsExplained, GreenRowIsReleased, Released
<1>12. LoadedGreenIsReleased'
  BY <1>1, <1>7, <1>9 DEF IInv, LoadedGreenIsReleased, Released
<1>13. SelectionIsComplete'
  BY <1>1, <1>5, <1>7, <1>9 DEF IInv, SelectionIsComplete
<1> QED
  BY <1>10, <1>11, <1>12, <1>13 DEF IInv

(* An item that is loaded green is green in the queue, and so released.    *)
LEMMA LoadKeeps ==
  ASSUME IInv, NEW c \in Client, ReviewLoad(c)
  PROVE  IInv'
<1> DEFINE cmd == client[c].cmd
           loaded == [phase |-> "loaded", cmd |-> cmd, time |-> client[c].time,
                      item |-> db.queue[cmd.paper]]
<1>1. /\ client' = [client EXCEPT ![c] = loaded] /\ client[c].phase = "selected"
      /\ UNCHANGED <<db, clock, requests, scans>>
  BY DEF ReviewLoad
<1>2. client \in [Client -> ClientState] /\ client[c] \in ClientState /\ db \in Manifest
  BY DEF IInv, TypeOK
<1>3. cmd \in Command /\ cmd \in Decision /\ client[c].time \in Clock
  BY <1>1, <1>2 DEF ClientState, Decision, ReviewLoad
<1>4. cmd.paper \in Paper
  BY <1>3, CommandFacts
<1>5. loaded \in ClientState
  BY <1>2, <1>3, <1>4 DEF ClientState, Manifest
<1>6. /\ loaded.phase = "loaded" /\ loaded.cmd = cmd
      /\ loaded.item = db.queue[cmd.paper]
  OBVIOUS
<1> HIDE DEF loaded
<1>7. TypeOK'
  BY <1>1, <1>2, <1>5 DEF IInv, TypeOK
<1>8. LaneIsExplained' /\ GreenRowIsReleased'
  BY <1>1 DEF IInv, LaneIsExplained, GreenRowIsReleased, Released
<1>9. LoadedGreenIsReleased'
  BY <1>1, <1>2, <1>4, <1>6 DEF IInv, LoadedGreenIsReleased, GreenRowIsReleased, Released
<1>10. SelectionIsComplete'
  BY <1>1, <1>2, <1>6 DEF IInv, SelectionIsComplete
<1> QED
  BY <1>7, <1>8, <1>9, <1>10 DEF IInv

(* A list, a request without an item, and one that is rolled back.         *)
LEMMA EmptyRequestKeeps ==
  ASSUME IInv, NEW c \in Client, ReviewList(c) \/ ReviewMissing(c) \/ ReviewFail(c)
  PROVE  IInv'
<1>1. CASE ReviewList(c) \/ ReviewMissing(c)
  <2>1. /\ CanWrite(c) /\ db' = Base(c) /\ Done(c) /\ UNCHANGED <<clock, requests, scans>>
    BY <1>1 DEF ReviewList, ReviewMissing
  <2>2. /\ Base(c) \in Manifest /\ Base(c).lane = db.lane
        /\ Base(c).classified = db.classified /\ Base(c).audit = db.audit
        /\ \A p \in Paper :
             LET row == Base(c).queue[p]
             IN /\ row # None /\ row.lane = "green" => Released(p)
                /\ row = None => db.queue[p] = None
    BY <2>1, WriteFacts
  <2>3. LaneIsExplained'
    BY <2>1, <2>2 DEF IInv, LaneIsExplained
  <2>4. GreenRowIsReleased'
    BY <2>1, <2>2 DEF GreenRowIsReleased, Released
  <2> QED
    BY <2>1, <2>2, <2>3, <2>4, RequestEnds
<1>2. CASE ReviewFail(c)
  <2>1. Done(c) /\ UNCHANGED <<db, clock, requests, scans>> /\ db \in Manifest
    BY <1>2 DEF ReviewFail, IInv, TypeOK
  <2>2. LaneIsExplained' /\ GreenRowIsReleased'
    BY <2>1 DEF IInv, LaneIsExplained, GreenRowIsReleased, Released
  <2> QED
    BY <2>1, <2>2, RequestEnds
<1> QED
  BY <1>1, <1>2

(* A refused approval writes its entry, and the rows that were missing.    *)
LEMMA RefuseKeeps ==
  ASSUME IInv, NEW c \in Client, ReviewRefuse(c)
  PROVE  IInv'
<1> DEFINE entry == EntryOf(c, client[c].cmd, client[c].time, "quarantine")
<1>1. /\ CanWrite(c) /\ client[c].cmd.kind # "list" /\ Done(c)
      /\ db' = [Base(c) EXCEPT !.audit = @ \cup {entry}]
      /\ UNCHANGED <<clock, requests, scans>>
  BY DEF ReviewRefuse, Decides
<1>2. /\ Base(c) \in Manifest /\ Base(c).lane = db.lane
      /\ Base(c).classified = db.classified /\ Base(c).audit = db.audit
      /\ client[c].cmd \in Command /\ client[c].time \in Clock
      /\ \A p \in Paper :
           LET row == Base(c).queue[p]
           IN /\ row # None /\ row.lane = "green" => Released(p)
              /\ row = None => db.queue[p] = None
  BY <1>1, WriteFacts
<1>3. entry \in AuditEntry
  BY <1>1, <1>2, CommandFacts, EntryType
<1> HIDE DEF entry
<1>4. /\ db' \in Manifest /\ db'.lane = db.lane /\ db'.classified = db.classified
      /\ db'.queue = Base(c).queue /\ db'.audit = db.audit \cup {entry}
  BY <1>1, <1>2, <1>3 DEF Manifest
<1>5. LaneIsExplained'
  BY <1>4 DEF IInv, LaneIsExplained
<1>6. GreenRowIsReleased'
  BY <1>2, <1>4 DEF GreenRowIsReleased, Released
<1> QED
  BY <1>1, <1>2, <1>4, <1>5, <1>6, RequestEnds

(* What a decision leaves in the tables, field by field.                   *)
LEMMA ApplyFields ==
  ASSUME IInv, NEW c \in Client, ReviewApply(c)
  PROVE  LET cmd == client[c].cmd
             entry == EntryOf(c, cmd, client[c].time, ActionOf(cmd))
         IN /\ CanWrite(c) /\ Done(c) /\ UNCHANGED <<clock, requests, scans>>
            /\ cmd \in Decision /\ entry \in AuditEntry /\ entry \notin db.audit
            /\ Item(c) \in Row
            /\ db' \in Manifest
            /\ db'.lane = [db.lane EXCEPT ![cmd.paper] = PaperLaneAfter(db, cmd)]
            /\ db'.queue = [Base(c).queue EXCEPT ![cmd.paper] = RowAfter(cmd, Item(c))]
            /\ db'.classified = db.classified
            /\ db'.audit = db.audit \cup {entry}
<1> DEFINE cmd == client[c].cmd
           entry == EntryOf(c, cmd, client[c].time, ActionOf(cmd))
<1>1. /\ CanWrite(c) /\ cmd.kind # "list" /\ Item(c) # None /\ Done(c)
      /\ CanRecord(db, cmd, entry)
      /\ db' = Apply(Base(c), cmd, Item(c), entry)
      /\ UNCHANGED <<clock, requests, scans>>
  BY DEF ReviewApply, Decides
<1>2. /\ Base(c) \in Manifest /\ Base(c).lane = db.lane
      /\ Base(c).classified = db.classified /\ Base(c).audit = db.audit
      /\ cmd \in Command /\ client[c].time \in Clock /\ Item(c) \in Row
  BY <1>1, WriteFacts
<1>3. cmd \in Decision /\ cmd.paper \in Paper
  BY <1>1, <1>2, CommandFacts
<1>4. ActionOf(cmd) \in {"release", "update", "quarantine", "classify"}
  BY DEF ActionOf
<1>5. entry \in AuditEntry /\ entry.time = client[c].time /\ entry.actor = c
  BY <1>2, <1>3, <1>4, EntryType
<1>6. RowAfter(cmd, Item(c)) \in Row
  BY <1>2, <1>3, RowAfterType
<1>7. PaperLaneAfter(db, cmd) \in Lane \cup {None}
  BY <1>2, <1>3, CommandFacts DEF PaperLaneAfter, IInv, TypeOK, Manifest, Lane
<1>8. PaperLaneAfter(Base(c), cmd) = PaperLaneAfter(db, cmd)
  BY <1>2 DEF PaperLaneAfter
<1>9. ReasonOf[entry.actor] \in Reason
  BY <1>5, ReviewAssumption
<1>10. DecisionsOf(cmd, entry) \in SUBSET (Paper \X Lane \X Clock \X Reason)
  BY <1>2, <1>3, <1>5, <1>9, CommandFacts DEF DecisionsOf
<1>11. MergesOf(cmd, entry) \in SUBSET (Paper \X Paper \X Clock \X Reason)
  BY <1>2, <1>3, <1>5, <1>9, CommandFacts DEF MergesOf
<1>12. entry \notin db.audit
  BY <1>1 DEF CanRecord
<1> HIDE DEF cmd, entry
<1>13. /\ db'.lane = [db.lane EXCEPT ![cmd.paper] = PaperLaneAfter(db, cmd)]
       /\ db'.queue = [Base(c).queue EXCEPT ![cmd.paper] = RowAfter(cmd, Item(c))]
       /\ db'.classified = db.classified
       /\ db'.audit = db.audit \cup {entry}
       /\ db' = [Base(c) EXCEPT !.lane = db'.lane, !.queue = db'.queue, !.audit = db'.audit,
                                !.decision = db'.decision, !.merge = db'.merge]
       /\ db'.decision = Base(c).decision \cup DecisionsOf(cmd, entry)
       /\ db'.merge = Base(c).merge \cup MergesOf(cmd, entry)
  BY <1>1, <1>2, <1>8 DEF Apply, Manifest
<1>14. db' \in Manifest
  <2>1. /\ db'.lane \in [Paper -> Lane \cup {None}]
        /\ db'.queue \in [Paper -> Row \cup {None}]
        /\ db'.audit \in SUBSET AuditEntry
    BY <1>2, <1>3, <1>5, <1>6, <1>7, <1>13 DEF Manifest
  <2>2. /\ db'.decision \in SUBSET (Paper \X Lane \X Clock \X Reason)
        /\ db'.merge \in SUBSET (Paper \X Paper \X Clock \X Reason)
    BY <1>2, <1>10, <1>11, <1>13 DEF Manifest
  <2> QED
    BY <1>2, <1>13, <2>1, <2>2 DEF Manifest
<1> QED
  BY <1>1, <1>2, <1>3, <1>5, <1>12, <1>13, <1>14 DEF cmd, entry

(* A lane that a decision changes is the one its entry grants.             *)
LEMMA DecisionGrants ==
  ASSUME NEW d, NEW cmd \in Decision, NEW c \in Client, NEW time \in Clock,
         PaperLaneAfter(d, cmd) # d.lane[cmd.paper]
  PROVE  /\ PaperLaneAfter(d, cmd) \in Lane
         /\ EntryGrants(EntryOf(c, cmd, time, ActionOf(cmd)), PaperLaneAfter(d, cmd))
<1> DEFINE entry == EntryOf(c, cmd, time, ActionOf(cmd))
<1>1. cmd \in Command
  BY DEF Decision
<1>2. ActionOf(cmd) \in {"release", "update", "quarantine", "classify"}
  BY DEF ActionOf
<1>3. /\ entry.surface = cmd.surface /\ entry.kind = cmd.kind /\ entry.arg = cmd.arg
      /\ entry.action = ActionOf(cmd)
  BY <1>2, EntryType
<1> HIDE DEF entry
<1>4. CASE cmd.surface = "cli" /\ cmd.kind = "approve"
  BY <1>3, <1>4 DEF PaperLaneAfter, EntryGrants, ActionOf, entry, Lane
<1>5. CASE cmd.surface = "cli" /\ cmd.kind = "reclassify"
  BY <1>1, <1>3, <1>5, CommandFacts DEF PaperLaneAfter, EntryGrants, entry
<1> QED
  BY <1>4, <1>5 DEF PaperLaneAfter

(* A decision explains the lane and the row that it writes.                *)
LEMMA ApplyKeeps ==
  ASSUME IInv, NEW c \in Client, ReviewApply(c)
  PROVE  IInv'
<1> DEFINE cmd == client[c].cmd
           entry == EntryOf(c, cmd, client[c].time, ActionOf(cmd))
<1>1. /\ CanWrite(c) /\ Done(c) /\ UNCHANGED <<clock, requests, scans>>
      /\ cmd \in Decision /\ Item(c) \in Row /\ db' \in Manifest
      /\ db'.lane = [db.lane EXCEPT ![cmd.paper] = PaperLaneAfter(db, cmd)]
      /\ db'.queue = [Base(c).queue EXCEPT ![cmd.paper] = RowAfter(cmd, Item(c))]
      /\ db'.classified = db.classified
      /\ db'.audit = db.audit \cup {entry}
  BY ApplyFields
<1>2. /\ client[c].time \in Clock /\ Base(c) \in Manifest
      /\ \A p \in Paper :
           LET row == Base(c).queue[p]
           IN /\ row # None /\ row.lane = "green" => Released(p)
              /\ row = None => db.queue[p] = None
      /\ Item(c) # None /\ Item(c).lane = "green" => Released(cmd.paper)
  BY <1>1, WriteFacts
<1>3. cmd \in Command /\ cmd.paper \in Paper
  BY <1>1, CommandFacts DEF Decision
<1>4. ActionOf(cmd) \in {"release", "update", "quarantine", "classify"}
  BY DEF ActionOf
<1>5. /\ entry.paper = cmd.paper /\ entry.kind = cmd.kind
      /\ entry.arg = cmd.arg /\ entry.action = ActionOf(cmd)
  BY <1>1, <1>2, <1>4, EntryType
<1>6. PaperLaneAfter(db, cmd) # db.lane[cmd.paper] => EntryGrants(entry, PaperLaneAfter(db, cmd))
  BY <1>1, <1>2, DecisionGrants
<1>7. /\ RowAfter(cmd, Item(c)) \in Row
      /\ RowAfter(cmd, Item(c)).lane = "green" =>
           \/ Item(c).lane = "green"
           \/ ActionOf(cmd) = "release"
           \/ cmd.kind = "reclassify" /\ cmd.arg = "green"
  BY <1>1, RowAfterType
<1>8. None \notin Row
  BY ReviewAssumption DEF Row
<1>9. db \in Manifest
  BY DEF IInv, TypeOK
<1> HIDE DEF cmd, entry
<1>10. LaneIsExplained'
  <2>1. \A p \in Paper : db'.lane[p] = IF p = cmd.paper THEN PaperLaneAfter(db, cmd)
                                         ELSE db.lane[p]
    BY <1>1, <1>9 DEF Manifest
  <2> QED
    BY <1>1, <1>5, <1>6, <2>1 DEF IInv, LaneIsExplained
<1>11. \A p \in Paper : db'.queue[p] = IF p = cmd.paper THEN RowAfter(cmd, Item(c))
                                         ELSE Base(c).queue[p]
  BY <1>1, <1>2 DEF Manifest
<1>12. \A p \in Paper : Released(p) => Released(p)'
  BY <1>1 DEF Released
<1>13. GreenRowIsReleased'
  <2> SUFFICES ASSUME NEW p \in Paper, db'.queue[p] # None, db'.queue[p].lane = "green"
               PROVE  Released(p)'
    BY DEF GreenRowIsReleased
  <2>1. CASE p # cmd.paper
    BY <1>2, <1>11, <1>12, <2>1
  <2>2. CASE p = cmd.paper
    <3>1. CASE Item(c).lane = "green"
      BY <1>1, <1>2, <1>8, <1>12, <2>2, <3>1
    <3>2. CASE ActionOf(cmd) = "release" \/ (cmd.kind = "reclassify" /\ cmd.arg = "green")
      BY <1>1, <1>5, <2>2, <3>2 DEF Released
    <3> QED
      BY <1>7, <1>11, <2>2, <3>1, <3>2
  <2> QED
    BY <2>1, <2>2
<1>14. \A p \in Paper : db'.queue[p] = None =>
         db.queue[p] = None /\ db'.lane[p] = db.lane[p]
  BY <1>1, <1>2, <1>7, <1>8, <1>9, <1>11 DEF Manifest
<1> QED
  BY <1>1, <1>10, <1>13, <1>14, RequestEnds

(* A scan explains the lane it gives, and leaves no lane without the row   *)
(* that the configuration asks for.                                        *)
LEMMA ScanKeeps ==
  ASSUME IInv, NEW p \in Paper, NEW l \in Lane, ScanRegister(p) \/ ScanClassify(p, l)
  PROVE  IInv'
<1>1. db \in Manifest /\ UNCHANGED <<client, clock, requests>> /\ clock \in Clock
  BY DEF IInv, TypeOK, ScanRegister, ScanClassify
<1>2. scans' \in 0..MaxScans
  BY ReviewAssumption DEF IInv, TypeOK, ScanRegister, ScanClassify
<1>3. CASE ScanClassify(p, l)
  <2> DEFINE row == IF l \in ManualReviewLanes
                      THEN [lane |-> l, stage |-> StageForLane(l)] ELSE None
  <2>1. l \in ManualReviewLanes => /\ row \in Row /\ row # None
                                   /\ row.lane = l /\ l # "green"
    BY ReviewAssumption DEF Row, StageForLane, Lane, StageStatus
  <2>2. l \notin ManualReviewLanes => row = None
    OBVIOUS
  <2>3. db' = [db EXCEPT !.lane[p] = l, !.classified[p] = l, !.queue[p] = row]
    BY <1>3 DEF ScanClassify
  <2> HIDE DEF row
  <2>4. /\ db' \in Manifest /\ db'.audit = db.audit
        /\ db'.lane = [db.lane EXCEPT ![p] = l]
        /\ db'.classified = [db.classified EXCEPT ![p] = l]
        /\ db'.queue = [db.queue EXCEPT ![p] = row]
    BY <1>1, <2>1, <2>2, <2>3 DEF Manifest
  <2>5. \A q \in Paper :
          /\ db'.lane[q] = IF q = p THEN l ELSE db.lane[q]
          /\ db'.classified[q] = IF q = p THEN l ELSE db.classified[q]
          /\ db'.queue[q] = IF q = p THEN row ELSE db.queue[q]
    BY <1>1, <2>4 DEF Manifest
  <2>6. LaneIsExplained'
    BY <2>4, <2>5 DEF IInv, LaneIsExplained
  <2> QED
    BY <1>1, <1>2, <2>1, <2>2, <2>4, <2>5, <2>6, EnvironmentStep
<1>4. CASE ScanRegister(p)
  <2>1. db' = [db EXCEPT !.lane[p] = "green"] /\ db.lane[p] = None
    BY <1>4 DEF ScanRegister
  <2>2. /\ db' \in Manifest /\ db'.audit = db.audit /\ db'.queue = db.queue
        /\ db'.classified = db.classified /\ db'.lane = [db.lane EXCEPT ![p] = "green"]
    BY <1>1, <2>1 DEF Manifest, Lane
  <2>3. \A q \in Paper : db'.lane[q] = IF q = p THEN "green" ELSE db.lane[q]
    BY <1>1, <2>2 DEF Manifest
  <2>4. db.classified[p] = None
    <3>1. \A e \in db.audit : ~EntryGrants(e, None)
      BY <1>1, GrantsLane DEF Manifest
    <3>2. None # "green"
      BY ReviewAssumption DEF Lane
    <3> QED
      BY <2>1, <3>1, <3>2 DEF IInv, LaneIsExplained
  <2>5. LaneIsExplained'
    BY <2>2, <2>3, <2>4 DEF IInv, LaneIsExplained
  <2>6. "green" \notin ManualReviewLanes
    BY ReviewAssumption
  <2> QED
    BY <1>1, <1>2, <2>2, <2>3, <2>5, <2>6, EnvironmentStep
<1> QED
  BY <1>3, <1>4

(* The manifests that requests start from satisfy the invariant.           *)
LEMMA InitKeeps == Init => IInv
<1> SUFFICES ASSUME Init PROVE IInv
  OBVIOUS
<1>1. PICK lane \in [Paper -> Lane \cup {None}], queue \in [Paper -> Row \cup {None}] :
        /\ \A p \in Paper : queue[p] \in ScannedRow(lane[p])
        /\ db = [lane |-> lane, classified |-> lane, queue |-> queue,
                 audit |-> {}, decision |-> {}, merge |-> {}]
  BY DEF Init
<1>2. /\ client = [c \in Client |-> Idle] /\ Idle.phase = "idle" /\ Idle \in ClientState
      /\ clock = 0 /\ requests = 0 /\ scans = 0
  BY DEF Init, Idle, ClientState
<1>3. TypeOK
  BY <1>1, <1>2, ReviewAssumption DEF TypeOK, Manifest, Clock
<1>4. LaneIsExplained
  BY <1>1 DEF LaneIsExplained
<1>5. GreenRowIsReleased
  BY <1>1 DEF GreenRowIsReleased, ScannedRow
<1>6. LoadedGreenIsReleased /\ SelectionIsComplete
  BY <1>2 DEF LoadedGreenIsReleased, SelectionIsComplete
<1> QED
  BY <1>3, <1>4, <1>5, <1>6 DEF IInv

(* The clock keeps the invariant.                                          *)
LEMMA TickKeeps ==
  ASSUME IInv, Tick
  PROVE  IInv'
<1>1. /\ UNCHANGED <<db, client, requests, scans>> /\ db \in Manifest
      /\ clock' \in Clock /\ scans' \in 0..MaxScans
  BY ReviewAssumption DEF IInv, TypeOK, Tick, Clock
<1>2. LaneIsExplained'
  BY <1>1 DEF IInv, LaneIsExplained
<1> QED
  BY <1>1, <1>2, EnvironmentStep

-----------------------------------------------------------------------------
(* The inductive invariant of the queue, however requests interleave.      *)
THEOREM ReviewInductive == Spec => []IInv
<1>1. IInv /\ [Next]_vars => IInv'
  <2> SUFFICES ASSUME IInv, [Next]_vars PROVE IInv'
    OBVIOUS
  <2>1. CASE UNCHANGED vars
    BY <2>1 DEF vars, IInv, TypeOK, LaneIsExplained, GreenRowIsReleased, Released,
       LoadedGreenIsReleased, SelectionIsComplete
  <2>2. ASSUME NEW c \in Client, NEW cmd \in Command, NEW time \in Clock,
               ReviewSelect(c, cmd, time)
        PROVE  IInv'
    BY <2>2, SelectKeeps
  <2>3. ASSUME NEW c \in Client,
               \/ ReviewLoad(c) \/ ReviewList(c) \/ ReviewMissing(c)
               \/ ReviewRefuse(c) \/ ReviewApply(c) \/ ReviewFail(c)
        PROVE  IInv'
    BY <2>3, LoadKeeps, EmptyRequestKeeps, RefuseKeeps, ApplyKeeps
  <2>4. ASSUME NEW p \in Paper, ScanRegister(p) \/ \E l \in Lane : ScanClassify(p, l)
        PROVE  IInv'
    BY <2>4, ScanKeeps DEF Lane
  <2> QED
    BY <2>1, <2>2, <2>3, <2>4, TickKeeps DEF Next
<1> QED
  BY InitKeeps, <1>1, PTL DEF Spec

(* The manifest, the requests and the counters have their types.           *)
THEOREM ReviewTypeCorrect == Spec => []TypeOK
<1>1. IInv => TypeOK
  BY DEF IInv
<1> QED
  BY ReviewInductive, <1>1, PTL

(* Every lane is the classifier's or has an audited decision behind it.    *)
THEOREM ReviewLaneIsExplained == Spec => []LaneIsExplained
<1>1. IInv => LaneIsExplained
  BY DEF IInv
<1> QED
  BY ReviewInductive, <1>1, PTL

(* Every green row has an audited release behind it, although reject and   *)
(* merge write back a lane that they read before their transaction.        *)
THEOREM ReviewGreenRowIsReleased == Spec => []GreenRowIsReleased
<1>1. IInv => GreenRowIsReleased
  BY DEF IInv
<1> QED
  BY ReviewInductive, <1>1, PTL

(* A committed list has every paper that is configured for review.         *)
THEOREM ReviewListIsComplete == Spec => ListIsComplete
<1>1. IInv => [\A c \in Client : ReviewList(c) =>
        \A p \in Paper : db'.lane[p] \in ManualReviewLanes => db'.queue[p] # None]_vars
  <2> SUFFICES ASSUME IInv, NEW c \in Client, ReviewList(c), NEW p \in Paper,
                      db'.lane[p] \in ManualReviewLanes
               PROVE  db'.queue[p] # None
    OBVIOUS
  <2>1. /\ CanWrite(c) /\ client[c].cmd.kind = "list" /\ db' = Base(c)
    BY DEF ReviewList
  <2>2. /\ Base(c).lane = db.lane
        /\ Base(c).queue[p] = None => db.queue[p] = None
        /\ Base(c).queue[p] = None /\ client[c].phase = "selected" =>
             client[c].missing[p] = None
    BY <2>1, WriteFacts
  <2>3. CASE client[c].phase = "selected"
    BY <2>1, <2>2, <2>3 DEF IInv, SelectionIsComplete
  <2>4. CASE client[c].phase = "loaded"
    BY <2>1, <2>4 DEF IInv, TypeOK, ClientState, Decision
  <2> QED
    BY <2>1, <2>3, <2>4 DEF CanWrite
<1> QED
  BY ReviewInductive, <1>1, PTL DEF ListIsComplete

-----------------------------------------------------------------------------
(* The queue implements AuditedLanes, whose steps are named after what     *)
(* they do to lanes and trail: a note, a decision, a scan, or nothing.     *)
THEOREM ReviewDecisionsAreAudited == Spec => DecisionsAreAudited
<1>1. Init => Audited!Init
  BY DEF Init, Audited!Init
<1>2. IInv /\ [Next]_vars => [Audited!Next]_(Audited!vars)
  <2> SUFFICES ASSUME IInv, [Next]_vars
               PROVE  Audited!Next \/ UNCHANGED Audited!vars
    OBVIOUS
  <2>1. CASE db' = db
    BY <2>1 DEF Audited!vars
  <2>2. ASSUME NEW c \in Client, ReviewList(c) \/ ReviewMissing(c)
        PROVE  UNCHANGED Audited!vars
    <3>1. CanWrite(c) /\ db' = Base(c)
      BY <2>2 DEF ReviewList, ReviewMissing
    <3> QED
      BY <3>1, WriteFacts DEF Audited!vars
  <2>3. ASSUME NEW c \in Client, ReviewRefuse(c)
        PROVE  Audited!Next
    <3> DEFINE entry == EntryOf(c, client[c].cmd, client[c].time, "quarantine")
    <3>1. /\ CanWrite(c) /\ client[c].cmd.kind # "list" /\ entry \notin db.audit
          /\ db' = [Base(c) EXCEPT !.audit = @ \cup {entry}]
      BY <2>3 DEF ReviewRefuse, Decides
    <3>2. /\ Base(c) \in Manifest /\ Base(c).lane = db.lane
          /\ Base(c).classified = db.classified /\ Base(c).audit = db.audit
          /\ client[c].cmd \in Command /\ client[c].time \in Clock
      BY <3>1, WriteFacts
    <3>3. entry \in AuditEntry
      BY <3>1, <3>2, CommandFacts, EntryType
    <3> HIDE DEF entry
    <3>4. /\ db'.lane = db.lane /\ db'.classified = db.classified
          /\ db'.audit = db.audit \cup {entry}
      BY <3>1, <3>2 DEF Manifest
    <3>5. Audited!Note(entry)
      BY <3>1, <3>4 DEF Audited!Note
    <3> QED
      BY <3>3, <3>4, <3>5 DEF Audited!Next
  <2>4. ASSUME NEW c \in Client, ReviewApply(c)
        PROVE  Audited!Next
    <3> DEFINE cmd == client[c].cmd
               entry == EntryOf(c, cmd, client[c].time, ActionOf(cmd))
    <3>1. /\ cmd \in Decision /\ entry \in AuditEntry /\ entry \notin db.audit
          /\ CanWrite(c)
          /\ db'.lane = [db.lane EXCEPT ![cmd.paper] = PaperLaneAfter(db, cmd)]
          /\ db'.classified = db.classified
          /\ db'.audit = db.audit \cup {entry}
      BY <2>4, ApplyFields
    <3>2. client[c].time \in Clock /\ ActionOf(cmd) \in {"release", "update", "quarantine", "classify"}
      BY <3>1, WriteFacts DEF ActionOf
    <3>3. entry.paper = cmd.paper
      BY <3>1, <3>2, EntryType
    <3>4. PaperLaneAfter(db, cmd) # db.lane[cmd.paper] =>
            /\ PaperLaneAfter(db, cmd) \in Lane
            /\ EntryGrants(entry, PaperLaneAfter(db, cmd))
      BY <3>1, <3>2, DecisionGrants
    <3>5. db \in Manifest
      BY DEF IInv, TypeOK
    <3> HIDE DEF cmd, entry
    <3>6. CASE PaperLaneAfter(db, cmd) = db.lane[cmd.paper]
      <4>1. db'.lane = db.lane
        BY <3>1, <3>5, <3>6 DEF Manifest
      <4>2. Audited!Note(entry)
        BY <3>1, <4>1 DEF Audited!Note
      <4> QED
        BY <3>1, <4>2 DEF Audited!Next
    <3>7. CASE PaperLaneAfter(db, cmd) # db.lane[cmd.paper]
      <4>1. Audited!Decide(entry, PaperLaneAfter(db, cmd))
        BY <3>1, <3>3, <3>4, <3>7 DEF Audited!Decide, EntryPaper
      <4> QED
        BY <3>1, <3>4, <3>7, <4>1 DEF Audited!Next
    <3> QED
      BY <3>6, <3>7
  <2>5. ASSUME NEW p \in Paper, NEW l \in Lane, ScanClassify(p, l)
        PROVE  Audited!Next
    <3>1. /\ db \in Manifest
          /\ db'.lane = [db.lane EXCEPT ![p] = l] /\ db'.audit = db.audit
          /\ db'.classified = [db.classified EXCEPT ![p] = l]
      BY <2>5 DEF ScanClassify, IInv, TypeOK, Manifest
    <3>2. Audited!Classify(p, l)
      BY <3>1 DEF Audited!Classify
    <3> QED
      BY <3>2 DEF Audited!Next
  <2>6. ASSUME NEW p \in Paper, ScanRegister(p)
        PROVE  Audited!Next
    <3>1. /\ db \in Manifest /\ db.lane[p] = None
          /\ db'.lane = [db.lane EXCEPT ![p] = "green"] /\ db'.audit = db.audit
          /\ db'.classified = db.classified
      BY <2>6 DEF ScanRegister, IInv, TypeOK, Manifest
    <3>2. Audited!Register(p, "green") /\ "green" \in Lane
      BY <3>1 DEF Audited!Register, Lane
    <3> QED
      BY <3>2 DEF Audited!Next
  <2> QED
    BY <2>1, <2>2, <2>3, <2>4, <2>5, <2>6
       DEF Next, vars, ReviewSelect, ReviewLoad, ReviewFail, Tick
<1> QED
  BY ReviewInductive, <1>1, <1>2, PTL DEF Spec, DecisionsAreAudited, Audited!Spec

=============================================================================
