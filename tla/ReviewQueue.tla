----------------------------- MODULE ReviewQueue ------------------------------
(***************************************************************************)
(* The review queue: reviewers who list, approve, reject, reclassify and   *)
(* merge with `rpv review`, agents who decide through the MCP tool         *)
(* apply_review_decision, and scans that reclassify papers meanwhile, all  *)
(* on one SQLite manifest.                                                 *)
(*                                                                         *)
(* Python's sqlite3 opens a transaction before the first INSERT or UPDATE, *)
(* not before a SELECT.  A request therefore selects the papers without a  *)
(* queue row on its own, and when there is none loads its item on its own  *)
(* too; only what it writes, and what it reads after its first write, is   *)
(* one atomic step.                                                        *)
(***************************************************************************)
EXTENDS Naturals, VaultLanes

CONSTANTS
  Paper,
  Client,             \* reviewers and agents: an actor with a stated reason
  Reason, ReasonOf,   \* the reasons, and the one of each client
  None,
  ManualReviewLanes,  \* config.approval.manual_review_lanes
  MaxClock,           \* bound: the timestamps, in seconds
  MaxRequests,        \* bound: how many requests are made
  MaxScans            \* bound: how many scans reclassify a paper

ASSUME ReviewAssumption ==
  /\ ManualReviewLanes \subseteq {"amber", "red"}
  /\ ReasonOf \in [Client -> Reason]
  /\ None \notin Lane \cup Paper \cup [lane : Lane, stage : StageStatus]
  /\ MaxClock \in Nat /\ MaxRequests \in Nat /\ MaxScans \in Nat

Clock == 0..MaxClock

Command ==
  [surface : {"cli"}, kind : {"list"}, paper : Paper, arg : {None},
   sensitive : {FALSE}]
  \cup
  [surface : {"cli", "mcp"}, kind : {"approve"}, paper : Paper, arg : {None},
   sensitive : BOOLEAN]
  \cup
  [surface : {"cli", "mcp"}, kind : {"reject"}, paper : Paper, arg : {None},
   sensitive : {FALSE}]
  \cup
  [surface : {"mcp"}, kind : {"defer", "quarantine"}, paper : Paper,
   arg : {None}, sensitive : {FALSE}]
  \cup
  [surface : {"cli"}, kind : {"reclassify"}, paper : Paper, arg : Lane,
   sensitive : {FALSE}]
  \cup
  [surface : {"cli"}, kind : {"merge"}, paper : Paper, arg : Paper,
   sensitive : {FALSE}]

Row == [lane : Lane, stage : StageStatus]

(* What audit_id is the digest of: actor stands for actor and reason.      *)
EntryOf(c, cmd, time, action) ==
  [paper |-> cmd.paper, actor |-> c, time |-> time, surface |-> cmd.surface,
   kind |-> cmd.kind, arg |-> cmd.arg, action |-> action]

Decision == {cmd \in Command : cmd.kind # "list"}

AuditEntry ==
  {EntryOf(c, cmd, time, action) : c \in Client, cmd \in Decision, time \in Clock,
     action \in {"release", "update", "quarantine", "classify"}}

Manifest ==
  [lane       : [Paper -> Lane \cup {None}],
   classified : [Paper -> Lane \cup {None}],  \* by the scan's decision row
   queue      : [Paper -> Row \cup {None}],
   audit      : SUBSET AuditEntry,
   decision   : SUBSET (Paper \X Lane \X Clock \X Reason),   \* the decision_ids
   merge      : SUBSET (Paper \X Paper \X Clock \X Reason)]  \* the merge_ids

Idle == [phase |-> "idle"]

ClientState ==
  [phase : {"idle"}]
  \cup [phase : {"selected"}, cmd : Command, time : Clock,
        missing : [Paper -> {"amber", "red"} \cup {None}]]
  \cup [phase : {"loaded"}, cmd : Decision, time : Clock, item : Row \cup {None}]

VARIABLES
  db,        \* the committed manifest
  client,    \* where each client is in its request
  clock,
  requests,  \* how many requests were made
  scans      \* how many scans there were

vars == <<db, client, clock, requests, scans>>

TypeOK ==
  /\ db \in Manifest
  /\ client \in [Client -> ClientState]
  /\ clock \in Clock
  /\ requests \in 0..MaxRequests
  /\ scans \in 0..MaxScans

-----------------------------------------------------------------------------
(* sync_required_review_items.                                             *)

(* review_list, review_show and the MCP tool pass the configured lanes;    *)
(* the other `rpv review` commands leave the default.                      *)
SyncLanes(cmd) ==
  IF cmd.surface = "mcp" \/ cmd.kind = "list"
    THEN ManualReviewLanes ELSE {"amber", "red"}

(* The papers that lack a queue row, each with its lane.                   *)
MissingRows(d, lanes) ==
  [p \in Paper |-> IF d.lane[p] \in lanes /\ d.queue[p] = None
                     THEN d.lane[p] ELSE None]

NoneMissing(missing) == \A p \in Paper : missing[p] = None

(* queue_item_id is a digest of the paper: the second INSERT would fail.   *)
CanInsert(d, missing) ==
  \A p \in Paper : missing[p] # None => d.queue[p] = None

InsertRows(d, missing) ==
  [d EXCEPT !.queue = [p \in Paper |->
     IF missing[p] = None THEN @[p]
       ELSE [lane |-> missing[p], stage |-> SyncedStageForLane(missing[p])]]]

-----------------------------------------------------------------------------
(* The decisions, on the manifest d and the item that was loaded.          *)

RefusedApproval(cmd, item) ==
  cmd.kind = "approve" /\ item.lane = "red" /\ ~cmd.sensitive

(* Mutant of RowAfter: a merged paper is released.                         *)
RowAfterMergeReleases(cmd, item) ==
  CASE cmd.kind \in {"approve", "merge"} -> [lane |-> "green", stage |-> "complete"]
    [] cmd.kind = "reject"     -> [lane |-> item.lane, stage |-> "failed"]
    [] cmd.kind = "defer"      -> [lane |-> item.lane, stage |-> "pending"]
    [] cmd.kind = "quarantine" -> [lane |-> "red", stage |-> "quarantined"]
    [] cmd.kind = "reclassify" -> [lane |-> cmd.arg,
                                   stage |-> StageAfterReclassify(cmd.arg)]

RowAfter(cmd, item) ==
  CASE cmd.kind = "approve"    -> [lane |-> "green", stage |-> "complete"]
    [] cmd.kind = "reject"     -> [lane |-> item.lane, stage |-> "failed"]
    [] cmd.kind = "defer"      -> [lane |-> item.lane, stage |-> "pending"]
    [] cmd.kind = "quarantine" -> [lane |-> "red", stage |-> "quarantined"]
    [] cmd.kind = "reclassify" -> [lane |-> cmd.arg,
                                   stage |-> StageAfterReclassify(cmd.arg)]
    [] cmd.kind = "merge"      -> [lane |-> item.lane, stage |-> "complete"]

(* Mutants of PaperLaneAfter: a merge stores its target as the lane; a     *)
(* rejected paper is made red.                                             *)
PaperLaneAfterMerge(d, cmd) ==
  CASE cmd.kind = "merge" -> cmd.arg
    [] cmd.surface = "cli" /\ cmd.kind = "approve"    -> "green"
    [] cmd.surface = "cli" /\ cmd.kind = "reclassify" -> cmd.arg
    [] OTHER -> d.lane[cmd.paper]

PaperLaneAfterReject(d, cmd) ==
  CASE cmd.surface = "cli" /\ cmd.kind = "reject"     -> "red"
    [] cmd.surface = "cli" /\ cmd.kind = "approve"    -> "green"
    [] cmd.surface = "cli" /\ cmd.kind = "reclassify" -> cmd.arg
    [] OTHER -> d.lane[cmd.paper]

(* Only the command line writes to the paper itself.                       *)
PaperLaneAfter(d, cmd) ==
  CASE cmd.surface = "cli" /\ cmd.kind = "approve"    -> "green"
    [] cmd.surface = "cli" /\ cmd.kind = "reclassify" -> cmd.arg
    [] OTHER -> d.lane[cmd.paper]

ActionOf(cmd) ==
  CASE cmd.kind = "approve"    -> "release"
    [] cmd.kind = "quarantine" -> "quarantine"
    [] cmd.kind = "reclassify" -> "classify"
    [] OTHER -> "update"

(* Ids without the actor: two actors who say the same, for the same reason *)
(* and in the same second, collide on them.                                *)
DecisionsOf(cmd, entry) ==
  IF cmd.kind = "reclassify"
    THEN {<<cmd.paper, cmd.arg, entry.time, ReasonOf[entry.actor]>>} ELSE {}

MergesOf(cmd, entry) ==
  IF cmd.kind = "merge"
    THEN {<<cmd.paper, cmd.arg, entry.time, ReasonOf[entry.actor]>>} ELSE {}

(* Mutant of CanRecord: INSERT OR IGNORE into the audit log.               *)
CanRecordAgain(d, cmd, entry) ==
  /\ DecisionsOf(cmd, entry) \cap d.decision = {}
  /\ MergesOf(cmd, entry) \cap d.merge = {}

(* A duplicate id raises IntegrityError, and the transaction rolls back.   *)
CanRecord(d, cmd, entry) ==
  /\ entry \notin d.audit
  /\ DecisionsOf(cmd, entry) \cap d.decision = {}
  /\ MergesOf(cmd, entry) \cap d.merge = {}

Apply(d, cmd, item, entry) ==
  [d EXCEPT !.lane[cmd.paper] = PaperLaneAfter(d, cmd),
            !.queue[cmd.paper] = RowAfter(cmd, item),
            !.audit = @ \cup {entry},
            !.decision = @ \cup DecisionsOf(cmd, entry),
            !.merge = @ \cup MergesOf(cmd, entry)]

TargetMissing(d, cmd) == cmd.kind = "merge" /\ d.lane[cmd.arg] = None

-----------------------------------------------------------------------------
(* A request.                                                              *)

(* The command line stamps its request itself; an agent passes its own     *)
(* timestamp, which may be any, and the same again when it retries.        *)
ReviewSelect(c, cmd, time) ==
  /\ client[c].phase = "idle"
  /\ cmd.surface = "cli" => time = clock
  /\ requests < MaxRequests
  /\ requests' = requests + 1
  /\ client' = [client EXCEPT ![c] =
       [phase |-> "selected", cmd |-> cmd, time |-> time,
        missing |-> MissingRows(db, SyncLanes(cmd))]]
  /\ UNCHANGED <<db, clock, scans>>

(* No row was missing: the item is read with no transaction open.          *)
ReviewLoad(c) ==
  /\ client[c].phase = "selected"
  /\ NoneMissing(client[c].missing)
  /\ client[c].cmd.kind # "list"
  /\ client' = [client EXCEPT ![c] =
       [phase |-> "loaded", cmd |-> client[c].cmd, time |-> client[c].time,
        item |-> db.queue[client[c].cmd.paper]]]
  /\ UNCHANGED <<db, clock, requests, scans>>

(* What the request writes to, and what it read, when its transaction      *)
(* starts: with rows to insert, it starts with them and the item is read   *)
(* inside it.                                                              *)
CanWrite(c) ==
  \/ client[c].phase = "loaded"
  \/ /\ client[c].phase = "selected"
     /\ CanInsert(db, client[c].missing)
     /\ ~NoneMissing(client[c].missing) \/ client[c].cmd.kind = "list"

Base(c) ==
  IF client[c].phase = "loaded" THEN db ELSE InsertRows(db, client[c].missing)

Item(c) ==
  IF client[c].phase = "loaded" THEN client[c].item
    ELSE Base(c).queue[client[c].cmd.paper]

Done(c) == client' = [client EXCEPT ![c] = Idle]

Decides(c) == CanWrite(c) /\ client[c].cmd.kind # "list" /\ Item(c) # None

(* Mutant of ReviewList: the synced rows are not committed.                *)
ReviewListUncommitted(c) ==
  /\ CanWrite(c) /\ client[c].cmd.kind = "list"
  /\ Done(c)
  /\ UNCHANGED <<db, clock, requests, scans>>

ReviewList(c) ==
  /\ CanWrite(c) /\ client[c].cmd.kind = "list"
  /\ db' = Base(c)
  /\ Done(c)
  /\ UNCHANGED <<clock, requests, scans>>

(* No such item, or no such paper to merge into: the synced rows stay.     *)
ReviewMissing(c) ==
  /\ CanWrite(c) /\ client[c].cmd.kind # "list"
  /\ Item(c) = None \/ TargetMissing(db, client[c].cmd)
  /\ db' = Base(c)
  /\ Done(c)
  /\ UNCHANGED <<clock, requests, scans>>

ReviewRefuse(c) ==
  /\ Decides(c)
  /\ LET cmd == client[c].cmd
         entry == EntryOf(c, cmd, client[c].time, "quarantine")
     IN /\ RefusedApproval(cmd, Item(c))
        /\ entry \notin db.audit
        /\ db' = [Base(c) EXCEPT !.audit = @ \cup {entry}]
  /\ Done(c)
  /\ UNCHANGED <<clock, requests, scans>>

(* The UPDATE needs its row: a scan may have deleted the one that was read.*)
ReviewApply(c) ==
  /\ Decides(c)
  /\ LET cmd == client[c].cmd
         entry == EntryOf(c, cmd, client[c].time, ActionOf(cmd))
     IN /\ ~RefusedApproval(cmd, Item(c))
        /\ ~TargetMissing(db, cmd)
        /\ Base(c).queue[cmd.paper] # None
        /\ CanRecord(db, cmd, entry)
        /\ db' = Apply(Base(c), cmd, Item(c), entry)
  /\ Done(c)
  /\ UNCHANGED <<clock, requests, scans>>

(* A kill, a lock that is not released in time, a duplicate id, a row that *)
(* is gone: whatever was written is rolled back.                           *)
ReviewFail(c) ==
  /\ client[c].phase # "idle"
  /\ Done(c)
  /\ UNCHANGED <<db, clock, requests, scans>>

-----------------------------------------------------------------------------
(* A scan classifies a paper: it commits the lane, its decision row, and a *)
(* queue row if the configuration asks for one.                            *)
ScanClassify(p, lane) ==
  /\ scans < MaxScans
  /\ scans' = scans + 1
  /\ db' = [db EXCEPT
       !.lane[p] = lane, !.classified[p] = lane,
       !.queue[p] = IF lane \in ManualReviewLanes
                      THEN [lane |-> lane, stage |-> StageForLane(lane)] ELSE None]
  /\ UNCHANGED <<client, clock, requests>>

(* A scan registers a file it could not read as a paper.                   *)
ScanRegister(p) ==
  /\ scans < MaxScans
  /\ db.lane[p] = None
  /\ scans' = scans + 1
  /\ db' = [db EXCEPT !.lane[p] = "green"]
  /\ UNCHANGED <<client, clock, requests>>

Tick ==
  /\ clock < MaxClock
  /\ clock' = clock + 1
  /\ UNCHANGED <<db, client, requests, scans>>

-----------------------------------------------------------------------------
(* A manifest that scans have filled, maybe under another configuration:   *)
(* a paper may lack the row its lane asks for now, or have one too many.   *)
ScannedRow(lane) ==
  IF lane \in {"amber", "red"}
    THEN {None, [lane |-> lane, stage |-> StageForLane(lane)]} ELSE {None}

Init ==
  /\ \E lane \in [Paper -> Lane \cup {None}], queue \in [Paper -> Row \cup {None}] :
       /\ \A p \in Paper : queue[p] \in ScannedRow(lane[p])
       /\ db = [lane |-> lane, classified |-> lane, queue |-> queue,
                audit |-> {}, decision |-> {}, merge |-> {}]
  /\ client = [c \in Client |-> Idle]
  /\ clock = 0 /\ requests = 0 /\ scans = 0

Next ==
  \/ \E c \in Client :
       \/ \E cmd \in Command, time \in Clock : ReviewSelect(c, cmd, time)
       \/ ReviewLoad(c) \/ ReviewList(c) \/ ReviewMissing(c)
       \/ ReviewRefuse(c) \/ ReviewApply(c) \/ ReviewFail(c)
  \/ \E p \in Paper : ScanRegister(p) \/ \E l \in Lane : ScanClassify(p, l)
  \/ Tick

Spec == Init /\ [][Next]_vars

-----------------------------------------------------------------------------
(* The reviewer's side of the manifest implements AuditedLanes.            *)

EntryPaper(e) == e.paper

EntryGrants(e, lane) ==
  /\ e.surface = "cli"
  /\ \/ e.kind = "approve" /\ e.action = "release" /\ lane = "green"
     \/ e.kind = "reclassify" /\ lane = e.arg

Audited == INSTANCE AuditedLanes WITH
  lane <- db.lane, classified <- db.classified, trail <- db.audit,
  Entry <- AuditEntry, PaperOf <- EntryPaper, Grants <- EntryGrants

(* Every decision is one step with its one audit entry, however requests   *)
(* interleave, fail, repeat or act on what they read before a scan; only a *)
(* scan changes a lane without an entry.                                   *)
DecisionsAreAudited == Audited!Spec

(* A paper is in the lane the classifier gave it last, or in one that an   *)
(* audited decision of the command line gave it.  The lane an MCP decision *)
(* puts on the queue row never reaches the paper.                          *)
LaneIsExplained ==
  \A p \in Paper :
    \/ db.lane[p] = db.classified[p]
    \/ db.classified[p] = None /\ db.lane[p] = "green"
    \/ \E e \in db.audit : e.paper = p /\ EntryGrants(e, db.lane[p])

Released(p) ==
  \E e \in db.audit :
    /\ e.paper = p
    /\ \/ e.action = "release"
       \/ e.kind = "reclassify" /\ e.arg = "green"

(* A queue row is green only if the audit log holds some release of the    *)
(* paper, or reclassification to green, from before: neither a scan nor a  *)
(* sync is the first to make it green.  It need not be the last word: a    *)
(* reject or merge that had loaded the row then may write green back over  *)
(* what a scan has made of it since.                                       *)
GreenRowIsReleased ==
  \A p \in Paper :
    (db.queue[p] # None /\ db.queue[p].lane = "green") => Released(p)

(* When `rpv review list` has committed, every paper in a lane that is     *)
(* configured for review has a row, although the papers without one were   *)
(* selected before the transaction began.                                  *)
ListIsComplete ==
  [][\A c \in Client : ReviewList(c) =>
       \A p \in Paper : db'.lane[p] \in ManualReviewLanes => db'.queue[p] # None]_vars

(* docs/mcp-tools.md:75, "A Red approve without `allow_sensitive: true` is *)
(* refused": an approval without consent leaves a red row as it is.        *)
RedApprovalNeedsConsent ==
  [][\A c \in Client :
       (/\ ReviewApply(c)
        /\ client[c].cmd.surface = "mcp" /\ client[c].cmd.kind = "approve"
        /\ ~client[c].cmd.sensitive) =>
         db.queue[client[c].cmd.paper].lane # "red"]_vars

=============================================================================
