# A verification development for the Research PDF Vault

The vault keeps a SQLite manifest of the PDFs under a few storage roots. It
scans them, gives each paper a privacy lane (green, amber, red), lets reviewers
decide about the uncertain ones, indexes the green ones, joins duplicates, and
collects the constructs that papers measure. These modules model the parts of
it that change state, check them with TLC on small instances, and prove the
most important safety properties with TLAPS for every instance.

Source paths below are relative to
`src/plugins/research-pdf-vault/scripts/research_pdf_vault/`.

| If you want to know ...                            | read |
|----------------------------------------------------|------|
| what the system consists of                        | 1. Inventory |
| which module stands for which code                 | 2. Modules |
| what is checked, and with which bounds             | 3. Runs |
| what holds for every value of the constants        | 4. Proofs |
| where the code differs from its documents or tests | 5. Disagreements |
| what is missing                                    | 6. What is not modelled, 7. Plan |

## 1. Inventory

All commands are separate processes of `rpv` (or requests to the MCP server)
that share three things: the storage roots, which a cloud client and the user
change at any moment; the SQLite manifest, which one process at a time may
write; and the cache directory. Nothing runs all the time. Commands are run by
hand, by agents, and by scheduled automations, again and again. Python's
`sqlite3` begins a transaction at the first INSERT, UPDATE or DELETE, so that
what a command has SELECTed before is read outside of it: most of the
interleavings in these modules come from that.

| Component | State | Operations | Shares it with |
|---|---|---|---|
| Scanning: `scanner.py`, `scan_db.py`, `scan_ids.py` | tables paper, paper_instance, filesystem_snapshot, pending_sync | walk, probe, record ready or pending, mark missing, dry run | files; index build and review read what it commits |
| Sync readiness: `sync_ready.py` | none | probe one file: ready, invalid, unstable, unreadable, gone | files |
| Classification: `classification.py`, `scan_classification.py`, `document_traits.py` | classification_decision, review_queue, paper.privacy_lane | classify a document, store the lane, sync its queue row | called by the scan, for files it has hashed before |
| Lane policy: `schema.py`, `quarantine.py`, `review_policy.py` | none | lane to stage; may this row have a vector path? | everyone |
| Review: `review_actions.py`, `review_storage.py`, `review_cli.py`, `audit.py` | review_queue, audit_log, review_merge, paper.privacy_lane | list, show, approve, reject, reclassify, merge | scans, MCP, index build |
| MCP decision: `mcp_review.py` | review_queue, audit_log | approve, reject, defer, quarantine | the same |
| Index build: `index_build.py`, `vector_store.py`, `fts.py`, `extraction.py` | artifact_status, index_chunk, chunk_embedding, chunk_fts, extracted_passage, audit_log, text cache | select, quarantine, skip, extract, store, commit | files, scans, reviews |
| Deduplication: `dedup.py`, `dedup_conflicts.py`, `identity.py` | none; reads the manifest once | union-find over identity keys, paper ids, merge candidates | metadata |
| Constructs and map: `constructs.py`, `constructs_review.py`, `constructs_export.py`, `literature_map.py` | construct_registry, construct_candidate, literature_node, literature_edge, exports/ | build, approve, reject, reassign, export, map build | index build, scans, reviews |
| Inbox import: `import_cli.py` | inbox files, import_event | probe, copy, replace, record | files; scans walk the inbox |
| MCP read tools: `mcp_papers.py`, `mcp_db.py` | none; one read-only connection per request, without a transaction | get_paper, search_papers, SELECT by SELECT | index build, scans, reviews |
| Chunking, embeddings, metadata, OCR, the other MCP tools, reports, notifications, configuration, command line | none that another step reads | pure functions, queries, dispatch | - |

What is hard about them, and what makes them right:

* **Scanning.** Files change between walk, probe, second read by the classifier
  and commit; a row is found by path, else by hash, else by an id that for an
  unreadable file digests no content; ids stay with a path while its content
  changes, and rows move to other paths on a conflict. Scans overlap, and
  the first file of each is looked up before its transaction begins. It is
  right if the rows of the four tables agree with one another after every
  commit, if a race disturbs no path but its own, and if repeated scans arrive
  at the truth once the files rest.
* **Review.** Every request reads before its transaction begins. It is right if
  every lane and every release has a reason on record, if each decision and its
  audit entry are one step, if a committed list is complete, and if a red paper
  is released by consent only.
* **Index build.** Lanes are read before the transaction, files once more after
  that, one failed read undoes the build, and a paper can have several
  instances. It is right if an artifact row tells whether the paper is
  embedded, and if an undisturbed build leaves what lanes and files call for.
* **MCP reads.** A request reads lanes in one SELECT and passages in the next,
  while builds, scans and reviews commit; and passages of papers that turned
  red may still be in the index. It is right if nobody is shown text of a paper
  that is red all along, and if answers become right, and searches find what
  they should and nothing else, once everything rests.
* **Inbox import.** The source is read once for its hash and once for its copy; two
  imports of one file run side by side; scans walk the inbox meanwhile; kills
  leave temporaries, or files without an event. It is right if a file of the
  inbox, once there, has the content its name says, unless a user or a change
  of the source in that gap sees to the contrary, and if what is imported ends
  up available.
* **Deduplication.** The keys are in a frozenset of strings, iterated in an order that
  changes with the hash seed of the process. It is right if the groups do not
  depend on that order, if the walk to the root ends, and if a match is never
  lost in silence.
* **Constructs.** Builds upsert what reviewers have decided about, and the map
  only ever adds. It is right if no rebuild undoes a decision and the map ends
  up true.

`PROJECT.json` lists the hazards line by line, with the properties that would
show each of them going wrong.

## 2. Modules

`VaultLanes` and `DocumentClassifier` hold the pure policy functions,
`ManifestTables` the statements of a scan; the other modules are state machines.

```
VaultLanes <- DocumentClassifier <- ManifestTables <- ManifestTablesProofs
ManifestTables <- ScanManifest <- InboxImport <- ScanManifestProofs
ManifestTables <- ConcurrentScans <- ConcurrentScansProofs
VaultLanes <- ReviewQueue <- ReviewQueueProofs     (implements AuditedLanes)
VaultLanes <- IndexBuild <- IndexBuildProofs
IndexBuild <- McpPapers <- McpPapersProofs         (implements IndexBuild)
VaultLanes <- ConstructRegistry <- ConstructRegistryProofs
Deduplication <- DeduplicationProofs
MC<module> instantiates <module> for TLC
```

The two kinds of composition: `InboxImport` puts importers beside the scanner
of `ScanManifest`, on the same files; `McpPapers` puts a reader beside the whole
of `IndexBuild`, on the same tables. In both, the steps of the extended module
are disjuncts of the new next-state relation.

Conventions: a table is a function from its primary key to a row or `None`; a
transaction is a copy of the tables that is committed as a whole, or, where no
other process can see its steps, one action; a paper id is the digest of a
content, hence the content itself. Each mutant, an operator commented `Mutant
of ...` just before the definition it changes, is a plausible bug that some
property must notice; no specification uses it.

**VaultLanes, DocumentClassifier** (`schema.py`, `quarantine.py`,
`review_policy.py`, `classification.py`). A path and a content are known by the
token classes they contain. `ClassifyDocument(p, c)` takes path and content
separately, as the scan may call it with the path of one and the bytes of
another.

**ManifestTables** (`schema.py`, `scan_db.py`, `scan_ids.py`,
`scan_classification.py`, `sync_ready.py`). The tables of the manifest, the
statements of a scan as functions from a manifest to a manifest, and what makes
a manifest consistent. `InstanceForReady` returns a set because the two SELECTs
have no ORDER BY: `fetchone` may return any row that matches. The four
consistency properties are stated outside a set of paths `R`, which is empty
for a single scanner.

**ScanManifest** (`scanner.py`, `scan_db.py`). One scanner. `file` is the file
system, `db` the committed tables, `tx` the connection's working copy, `scan`
the local variables of `run_one_shot_scan`.

| Action | Code |
|---|---|
| ScanWalk | the sorted `rglob` of the roots |
| ScanProbe, ScanProbeUnstable | `probe_sync_ready`, in order of the paths |
| ScanBegin | the connection is opened, all probes done |
| ScanRecordReady | `record_ready` and `record_ready_classification`, which reads the file again |
| ScanRecordPending | `record_pending` |
| ScanReadFails | `read_bytes` raises OSError; the transaction rolls back |
| ScanCommit | `mark_missing` and commit |
| ScanCrash | kill |
| DryRunWalk, DryRunStat, DryRunCommit | `--dry-run`: the walk; `probe_sync_metadata` of one file, later; the snapshot rows |
| FileChange, FileMove | the user and the sync client, between any two of these |

A dry run walks, then looks at each file without reading it, then opens the
connection and overwrites the snapshot rows of what it walked; files come and
go between these steps, and a file that has gone by its turn gets a snapshot
"missing_path" under an instance that stays available. What tells such a row
from one of a scan is its `provider`: only a dry run passes the configured
provider to its results. `CommittedAvailableMatchesSnapshot` asks of a scan's row
that it agrees with the instance, and of a dry run's that it claims no hash. A
dry run takes the same place as a scan: one of them runs at a time.

**ConcurrentScans** (`scanner.py`, `scan_db.py`). A set of scanners, each with its
own local variables; `lock` is SQLite's write lock and `tx` the working copy of
the one that holds it. `raced` records the paths that were written with the
answer of a lookup that another scan's commit has overtaken.

| Action | Code |
|---|---|
| ScanWalk, ScanProbe, ScanProbeUnstable | as above, per scanner |
| ScanLookUpPath, ScanLookUpMoved | the SELECT by path and the SELECT by hash for the first file, each on what is committed then |
| ScanBegin | the first INSERT, which takes the lock and uses that answer |
| ScanRecord | every other file, looked up inside the transaction |
| ScanCommit, ScanCommitEmpty | `mark_missing` and commit; the second when nothing was found |
| ScanReadFails, ScanLockedOut, ScanCrash | OSError; "database is locked"; kill |

**InboxImport** (`import_cli.py`). The single scanner of `ScanManifest` beside any
number of importers of one source. An importer knows the hash of its probe and
the content of its temporary copy; `InboxPath` is the name made of the hash
(under one title). Two history variables say where a name may lie: `disturbed` of
an importer, that its source was changed, by whomever and to whatever, between
its hash and its copy; and `altered`, the inbox paths that a user wrote to, or
that the replace of a disturbed import did. Neither looks at what the importer
does: that every other import leaves a file with the content of its name, or
none, is for `InboxNamesContent` to show.

| Action | Code |
|---|---|
| ImportProbe | the readiness probe, whose hash names the target |
| ImportExisting | the target exists: taken for the same file |
| ImportCopy, ImportCopyTorn | `copy2` to the temporary, of a source at rest or being written |
| ImportReplace | `os.replace`, which does not look at the target again |
| ImportRecord, ImportLockedOut | the event row; "database is locked" |
| ImportFails, ImportCrash | `copy2` or the replace raises OSError, and the temporary is removed; kill |

**ReviewQueue** (`review_actions.py`, `review_storage.py`, `review_cli.py`,
`audit.py`, `mcp_review.py`). A client is an actor with a reason. `ReviewSelect`
is the SELECT of the papers without a row, `ReviewLoad` the SELECT of the item
when nothing had to be inserted; `ReviewApply`, `ReviewRefuse`, `ReviewList` and
`ReviewMissing` are the transaction with its outcome; `ReviewFail` is a
roll-back (a lock, a duplicate id, a deleted row, a kill). `ScanClassify` and
`ScanRegister` are what a scan commits for one paper. The initial states are
all manifests that scans may have left, also under another configuration.

**AuditedLanes** is what review promises without the queue: a reviewer changes
one lane at a time, in one step with the new audit entry that names paper and
lane; only the classifier may change a lane without one, and what it said last
stays on record. `ReviewQueue` instantiates it with its lanes, the scan's
decision rows and the audit log, and the property `DecisionsAreAudited` is the
refinement.

**IndexBuild** (`index_build.py`, `vector_store.py`, `fts.py`, `extraction.py`).
`IndexSelect` reads the candidates with their lanes; `IndexQuarantine`,
`IndexSkip`, `IndexExtract` followed by `IndexStore`, and `IndexReadFails` are
the branches of the loop; the first write sets `locked`, and no scan or review
commits until the build ends. `chunks` stands for the four chunk tables, which
one function clears together and one function fills. Scans and reviews appear
with what they commit for one path or one paper.

**McpPapers** (`mcp_papers.py`, `mcp_db.py`). `reader` is one request. `GetPaperRow`
and `SearchSelect` read the rows with their lanes, `GetPassages` and
`GetSnippets` the passages of one paper, in the order of the rows;
`SearchReturn` ends a search; `Meanwhile` is any step of `IndexBuild`. A
request changes nothing but itself, which `McpImplementsIndexBuild` states.
Titles and texts are known by the queries they contain. The history field `red`
holds the papers that were red ever since their row was read.

**Deduplication** (`dedup.py`, `dedup_conflicts.py`, `identity.py`). One action
per iteration of each loop: `ClaimKey`, `RefuseKey`, `JoinKey` for a key of the
current candidate in any order, `FindRoots` and `Union` for `_union`,
`FindGroup` and `AssignGroup` for the last pass. The two `_find` calls of a
union walk side by side; neither changes anything, so that their order does not
matter. The paper id of a group is a function, `PaperIdOf`, of the groups and
of what the manifest knows.

**ConstructRegistry** (`constructs.py`, `constructs_review.py`,
`constructs_export.py`, `literature_map.py`). `ConstructRead` and
`ConstructUpsert` are the two halves of a build; reviews, map builds and
exports are one step each; the separate SELECTs of an export are one as well, so
a lane that changes between two of them is not seen. `ChangeLane` and `Reindex` are what scans,
reviewers and index builds do meanwhile.

## 3. Runs

`tlc -config <cfg> <module>` in this directory. A run that passes explores all
states of its instance; a run of kind *violation* ends with the counterexample
named in section 5. Deadlock is checked in the scan, import, index and construct runs,
whose systems never stop; review runs end when the bounds are used up, and
deduplication is an algorithm that ends, so these do not check it.

| Run | Instance and bounds | What it shows |
|---|---|---|
| scan | 2 paths, one amber and one restricted; 2 valid PDFs, one of them sensitive, and 1 invalid; 2 file changes; 1 kill; any number of scans and dry runs | `TypeOK`; **CommittedOneRowPerPath**, **CommittedAvailableIsClassified**, **CommittedAvailableMatchesSnapshot**, **CommittedPendingNotAvailable**; **QuietScanSettles**: a scan that nothing disturbed leaves the truth about every file, or has named one more row after its content; **ManifestConverges**: when the files rest, the manifest becomes and stays true; **ManifestStabilises**: and then scans change nothing in it |
| concurrent_scans | 2 scanners, 2 paths, 2 valid PDFs, one of them sensitive; 1 file change, which may be one during a probe; 1 kill | `ConcurrentTypeOK`; **OnlyRacesDoubleRows**, **OnlyRacesHideChanges**: a second row for a path, and an instance that hides a change, come from a race at the first file of a batch only; **RacesClassify**, **RacesKeepRetries**; **UnracedPathsSettle**: every other path arrives at the truth |
| inbox_import | 2 importers of one PDF, its inbox path and one beside it, a torn copy; 1 change of a file or of the source; 1 kill | `InboxTypeOK`; **InboxNamesContent**: a name lies only after a user wrote, or the source changed between hash and copy; **EventsHaveFiles**, **ScansSeeWholeImports**; **ImportsBecomeAvailable**: what was imported, with an event or without one, is scanned and classified in the end |
| review_safety | 2 papers, 2 clients with 2 requests, 1 scan, 2 seconds, amber not configured for review | `TypeOK`; **LaneIsExplained**, **GreenRowIsReleased**, **ListIsComplete**, and the refinement **DecisionsAreAudited** |
| index_readers | 2 instances; 2 contents, one of them red wherever it is; 2 disturbances; one query, in the title of the red content and the text of the green one; limits 1 to 3 | `McpTypeOK`; **ArtifactIsTruthful**, **QuietBuildIsExact**, **IndexConverges** of the index; **RedTextStaysHidden**, **RepliesConverge**, **SearchesConverge** of what requests show of it: a paper red all along is not shown, answers become right, and a search that its limit does not cut off finds exactly what it should |
| dedup_groups | 3 candidates, every choice of 2 DOIs, 2 ISBNs and a citation; 2 stored papers | `TypeOK`; **ParentsClimb**, **GroupsAreConnected**, **SharedKeySharesPaper**, **SharedCitationIsMergedOrReported**, **DedupTerminates** |
| construct_map | 2 papers, 2 terms, 2 changes | `TypeOK`; **DecisionsSurviveRebuild**, **MapConverges** |
| scan_loses_pending, review_stale_approval, index_red_retained, dedup_merges_dois, construct_red_exported | the smallest instance with the case | the five disagreements of section 5 |

**Why these bounds are enough to be interesting.** Two paths and two valid
contents are what a move, a swap, a copy and a replacement need; two changes
can fall on the two sides of a scan or within it, so a hash may be recorded for
one content and a lane for another, and an id may go to another path while its
first path keeps an older one. Two scanners that each look up, write and commit
contain every order of their lookups and their transactions; with one change
between them they may find different files. Two importers of one content write
to the same target in every order; one change can hit the source during a copy,
or the inbox file itself. Two clients with two requests contain every interleaving of two
requests with a scan between read and write, and one client that repeats itself
within a second. Two instances are what a paper with two copies needs; a limit
of 1 with two hits is what a search needs that drops one of them, and 3 is one
that cuts off neither. Three
candidates are the least for which a key's owner can be merged under another
root between two uses of the key, and for which two candidates can agree with
one another and both contradict the owner. Section 4 needs no bounds: it proves
every safety property of this table.

Run scan chooses path classes that make the lane depend on the path, because
its liveness properties ask whether such a dependence lets the manifest
oscillate: its amber lane comes from the path, its red lane from the path or
the text. The other scan and import runs use documents of a recognised type
(`PathHint`, `TextHint`). index_readers has one lane per content (`MCOneLane`):
a paper whose copies are classified differently has no lane to converge to; the
safety properties are proved for any. A text too poor to be indexed (`NoText`)
is not in that run either, and is in the proofs. Symmetry is used in
review_safety only, whose properties are invariants, an action property and a
refinement, none of them liveness; its papers and its clients are alike (all
give one reason).

**Fairness.** `ScanManifest!FairSpec` is strong fairness of the steps of a scan:
a process that is not killed goes on, its steps wait for nobody, and the
automations start scans again and again, also when dry runs come between; and
weak fairness of a dry run that has begun, which goes on to its end. Kills and
file changes are bounded and have no fairness. `ConcurrentScans!FairSpec` is
weak fairness of each scanner's steps: one that meets the lock gives up after
SQLite's busy timeout, which is a step, and is started again.
`InboxImport!FairInboxSpec` has the fairness of the scan, and adds that an import that has
begun goes on to its end; nobody has to begin one. `McpPapers!FairMcpSpec` has
the fairness of `IndexBuild`, and requests are never fair. `IndexBuild!FairSpec` is
weak fairness of the builder, and
strong fairness of what a scan records for each path: a scan that meets the
build's write lock fails (SQLite's busy timeout), and since the lock is held
for part of every build, a scan is enabled again and again, not continuously;
it is repeated until it meets a free moment. `ConstructRegistry!Spec` is weak
fairness of the two halves of a build and of the map build, which the
automations repeat. Reviews and exports are never fair. `Deduplication!Spec` is
weak fairness of its only thread.

**Mutants.** For every property of every passing run `PROJECT.json` names a
mutant that TLC finds violating it.

## 4. Proofs

Each `<module>Proofs` holds the theorems about `<module>`, and
`ScanManifestProofs` those about `InboxImport` as well; `tlapm <module>Proofs.tla`
checks them. Every safety property that a run checks, the action properties and
the refinement among them, is a theorem here. Most of the liveness properties
have a theorem too, for the part of them that is safety: the last paragraphs of
this section.

**ManifestTablesProofs**: the lemmas about the statements of a scan. The four
consistency properties are stated for any manifest `d` outside any set of paths
`R` (`RowsConsistentOutside(d, R)`), and each statement is shown to keep them
(`RecordReadyKeepsRows`,
`RecordPendingKeepsRows`, `MarkMissingKeepsRows`, and `RecordSnapshotsKeepsRows`
for dry runs).
The crux is that the upsert by instance id may take a row away from another
path. After the lookup by path no other row is at the path, so the path that
gains the row has one, and the path that loses it has none; that needs the
property itself. The retry row of the path that loses its row is deleted by the
second half of `DELETE ... OR instance_id = ?`, which is why run
scan_loses_pending finds it missing.

**ScanManifestProofs**: for every set of paths (natural numbers, for their
order), contents and digests, every classifier input and every number of
changes and kills,

* `ScanTypeCorrect`: `Spec => []TypeOK`;
* `ScanOneRowPerPath`, `ScanAvailableIsClassified`,
  `ScanAvailableMatchesSnapshot`, `ScanPendingNotAvailable`: the four safety
  properties of run scan;
* for any number of importers, `InboxTypeCorrect`, `InboxFilesAreWhole`,
  `InboxEventsHaveFiles` and `InboxScansSeeWholeImports`: those of run
  inbox_import.

The argument. None of the four is inductive as it stands: what a commit leaves in
`db` is what the working copy `tx` held, which was modified file by file. So
`InductiveInvariant` asks them of `db` and of `tx`, together with `TypeOK` and
`ProbedBeforeRecorded`: a path whose turn it is to be recorded has a probe result,
and one whose snapshot a dry run writes has been looked at. `ScanNext` has a step
for each action and cites the lemmas about its statement.

For the inbox, `InboxInvariant` adds what connects the three kinds of state. An
import whose source has not changed since its hash still finds that content there
when it copies, and its temporary holds it until the replace (`ImportUnderWay`). An
untouched inbox file never goes away, and nothing replaces it but a copy of the same
content; so a scan that has seen it is right about it for as long as it runs
(`SeenWhole`), and an import that says "record" has left it there. `TruthAt` must
hold of the working copy as well as of `db`, since the first becomes the second.
Every step of a scan or of its surroundings keeps `InductiveInvariant` by
`ScanNext`, and every step of an importer changes at most one file.

`ScanQuietSettles` is about a scan that nothing disturbs. One such scan need not
be enough: a row whose id was made of another content than the one at its path
now may be taken over by a file that has that id, and then its path stands
without a row until the next scan. What grows is `OwnNamed`, the set of the rows
whose id was made of what is at their path: nothing takes such a row away, and
a scan that adds none leaves the truth about every path. So, while the files
rest, at most as many scans as there are ids leave something out. The invariant
`QuietInvariant` says that a quiet scan has seen the files as they are
(`QuietSeen`), and that the working copy accounts for each path already handled
or has named one more row (`QuietAccount`); each upsert either keeps the account
of the other paths or names a row (`GivesRow`, `KeepsNames`, `KeepsAccount`).
`InboxQuietScansSettle` is the same beside importers, all of whose writes disturb
the scan, with what follows for the inbox: every file with the content of its
name is then available and classified.

**ConcurrentScansProofs**: for any number of scanners, `ConcurrentTypeOK` and the
four safety properties of run concurrent_scans. The invariant is that of a
single scanner with `R = raced` instead of the empty set. A row that was looked
up inside the transaction keeps it by the lemmas; one that was looked up before
either is what a lookup would find now, and the lemmas hold again, or puts its
path into `raced`. `RacesClassify` and `RacesKeepRetries` have no `raced` in
them: they do not depend on the id a row is given. That the races are real, and
not forbidden by something else, is what the mutants and the states of the run
show: without the set, the run finds two rows for a path.

`TurnsKeepRows` says where the races come from. If no scanner writes while
another has looked up the first file of its batch and not begun to record it
(`TakeTurns`), nothing is ever raced and all four consistency properties hold of
every path. That gap, between the first SELECT and the first INSERT, is thus the
only one: a transaction opened before the lookup would close it.
`LoneScannerKeepsRows` is the special case of a single scanner, which ties this
module to the guarantees of `ScanManifest`. Without `TakeTurns` the conclusion is
false, as the run shows.

**DeduplicationProofs**: for any number of candidates and any keys, `TypeOK` and
all four safety properties. `ParentsClimb` alone is not inductive: a union
links the root of an earlier candidate under the root of the current one, and
one must know that this root is not the smaller of the two. `IInv` adds
`Reading`: while the keys are read, the current candidate and all later ones
are their own roots, no earlier one has a parent beyond the current one, and no
key is owned by a later one; so the current candidate is itself the root on the
left, and whatever is on the right is at most as late. With `ParentsClimb`, a
walk to the root climbs through finitely many indices, which is why `_find`
ends. `DedupRunsOut` makes that precise for the whole of `deduplicate_papers`:
`Remaining` counts the passes that follow, the candidates that have not had
their turn, the keys left of the current one, and how far the cursors are from
the last candidate; each step makes it less in the lexicographic order (`Less`),
and that order is well-founded on quadruples of natural numbers.

`GroupsAreConnected` says that the trees are the connected components of the joined
pairs. Reachability would need an induction over paths; instead both sides are
described by the sets of candidates they do not split: a set respects the
joined pairs (`RespectsJoins`) or the parent links (`RespectsParents`). `GInv`
says that every set that respects the joins respects the links (`Sound`: no
tree holds what does not belong together), and that every set that respects the
links respects the joins of the keys that had their turn (`Complete`: no join
was forgotten); in both, the two trees of a union
under way count as one. `Owners` says that the owner
of a key is the first candidate that has it. That one tree has one root
(`OneRootPerTree`) is seen from the least set that holds the root and whoever has a
parent in the set: it respects the links, and without another root it still would.
`SharedKeySharesPaper` and `SharedCitationIsMergedOrReported` follow: a key that
two candidates share was joined to its owner twice, or refused and reported.

**ReviewQueueProofs**: for any papers, clients, reasons, lanes to review and
number of requests, `TypeOK`, `LaneIsExplained`, `GreenRowIsReleased`,
`ListIsComplete` and the refinement `DecisionsAreAudited`. The inductive
invariant `IInv` adds what a request carries from its read into its
transaction. `LoadedGreenIsReleased`: a green item that a client has loaded was
released by an audited decision, and since audit entries are never removed it
still is when the client writes the row back. `SelectionIsComplete`: every
paper in a lane to review that has no row now was among those that a listing
selected, whatever has happened since; that holds because neither a scan nor a
decision leaves a paper in such a lane without a row. In the other direction a
row may appear after the selection: then the insert fails, and the listing
commits nothing. The refinement goes action by action: a request that decides
is `Decide` of AuditedLanes, or `Note` if it leaves the lane alone; what scans
commit is `Classify` or `Register`; the rest stutters.

**IndexBuildProofs**: for any instances, contents, texts and number of
disturbances, `TypeOK`, `ArtifactIsTruthful` and `QuietBuildIsExact`. As for the
scan, what is committed is what the copy held, so `IInv` asks `Truthful` of the
build's copy as well; a paper is stored only from phase "extracted", so it adds
`ExtractedIsGreen`; and a candidate has a lane at all because of
`ClassifiedFirst`: an available instance belongs to a classified paper. The
last is what `ScanAvailableIsClassified` proves of the scan, which is how the
two components fit together. For a build that nothing has disturbed,
`QuietExact` says that its candidates are still those a SELECT would find, and
that its copy is exact for every paper whose candidates are all handled; each
write makes one paper exact and leaves the others (`WriteIsExact`), the last
instance of a paper decides (`LastIsGreatest`), and every step of anyone else
ends the quiet. `IndexBuildsSettle` draws the conclusion for a vault at rest: if
files and roots are as the last scan found them (`AsScanned`), a quiet build
leaves `IndexSettled`, with each paper's own text, and no build after it, be it
complete, failed or killed, undoes that (`IndexAtRest`).

**McpPapersProofs**: for any queries, hits and limits, `McpImplementsIndexBuild`:
with requests beside it, the vault behaves as without, so that all theorems of
`IndexBuildProofs` hold beside readers; and `McpTypeOK` and
`RedTextStaysHidden`. The invariant is `RedIsRead`: a paper that was red ever
since its row was read has "red" as the lane that was read, and the branch for
red papers shows nothing. `McpRepliesSettle` continues `IndexBuildsSettle`: in a
settled index, once no request from before is under way (`RepliesAtRest`), every
answer is the right one, and neither requests nor builds beside them end that.
`McpSearchesSettle` says the same of searches. The rows a search matches are
those it should find, because a settled index holds the text of the green
papers and no other (`SettledMatches`); and a search returns as many of them as
its limit allows, so one that returns fewer has returned all (`UncutSearch`).

**ConstructRegistryProofs**: for any papers, terms and number of changes,
`TypeOK` and `DecisionsSurviveRebuild`. Types are all the action property
needs: `UpsertFacts` says that an upsert leaves a candidate that exists alone,
whatever was decided between the read and the upsert, and `CommandsDecide` that
each command of a reviewer writes an approved or a rejected row.
`ConstructBuildsSettleMap` is the way to a true map, step by step: an upsert of
an up-to-date reading makes a candidate of everything indexed (`Covered`), a map
built then is true, and builds and exports keep it so (`MapAtRest`).

**Assumptions.** Each constant has a named assumption in its module
(`ScanAssumption`, `ClassifierAssumption`, `DedupAssumption`, ...). They say that sets are of the
right kind, that valid PDFs are contents, and that the values for "no row" and
"unreadable" are no rows and no contents, and for the count of a search, that
contents are finitely many. TLC evaluates them in every run.
Digests are collision-free: two contents have two hashes, and a digest of a
hashless probe is not the hash of a content.

**Only model-checked.** The nine liveness properties: fairness and ENABLED are
out of this prover's reach. What is left of each for TLC, where a theorem covers
the rest:

| Liveness property | Proved of it | Left to TLC |
|---|---|---|
| ManifestConverges, ManifestStabilises | `ScanQuietSettles`: a quiet scan settles the manifest or adds to a set that only grows | that scans end, and that a quiet one comes again and again; that a settled manifest stays unchanged |
| ImportsBecomeAvailable | `InboxQuietScansSettle` | that a quiet scan comes before somebody alters the file |
| DedupTerminates | `DedupRunsOut`: no behaviour takes steps for ever | that some step is possible until the end |
| IndexConverges | `IndexBuildsSettle`: the first quiet build settles the index for good | that scans come to rest, and that such a build commits |
| RepliesConverge | `McpRepliesSettle` | the same |
| SearchesConverge | `McpSearchesSettle` | the same |
| MapConverges | `ConstructBuildsSettleMap` | that the three steps are taken after the last change |
| UnracedPathsSettle | - | all of it |

## 5. Disagreements

Each is a run that TLC ends with a violation, and a finding in `PROJECT.json`
with the quoted line.

1. **scan_loses_pending** (`scan_db.py:69`, `:206`). A file that was ready once
   keeps the instance id made of its content's hash, and its retry row refers to
   that id when it becomes unreadable. If that content is now at a second path too,
   which has no row yet, the same scan gives the second file the same id, moves the
   row to it, and the `OR instance_id = ?` of `record_ready` deletes the retry row
   just written for the first. `docs/onedrive-sharepoint.md:26` wants such files
   pending. (That unreadable files share an id made of status, size and time,
   `scan_ids.py:31`, does no such harm.)
2. **review_stale_approval** (`mcp_review.py:65`). The MCP tool loads the item
   outside the transaction that updates it. A scan that turns the paper red in
   between makes an approval without consent release a red row;
   `docs/mcp-tools.md:75` says it is refused.
3. **index_red_retained** (`index_build.py:84`). Only papers with an available
   instance are candidates. A paper that was embedded, was made red, and lost its
   last available instance before the next build stays embedded;
   `docs/privacy-policy.md:9` says red content is not embedded.
4. **dedup_merges_dois** (`dedup.py:162`). A group takes the id of the one stored
   paper that shares any of its keys; two groups that conflicting DOIs kept apart
   get the same id when their common citation is stored.
   `tests/test_metadata_dedup.py:94` expects two ids.
5. **construct_red_exported** (`constructs_export.py:77`). The export does not look
   at lanes; candidates collected while a paper was green are exported after it
   turned red, against `docs/privacy-policy.md:9`.

The passing properties state what remains true in spite of these:
`CommittedPendingNotAvailable` (a retry row is never wrong, only sometimes
missing), `GreenRowIsReleased` (a green row was released by an audited decision at some
time, though a stale write may bring the green back),
`QuietBuildIsExact` (of papers with an available instance),
`SharedKeySharesPaper` (when no identifiers conflict), `MapConverges` (the map
masks red papers). `ManifestConverges` accepts as settled that a path whose
content has copies elsewhere may have no row of its own, and only asks that the
content is available.

What the models also show, and no document contradicts: a path that two scans
raced for keeps its two rows for as long as its file stays; copies of one
content share one instance row, which is at one of their paths; an inbox file
made from a source that changed after its hash keeps its wrong name, and later
imports take it for the right one; a paper that turns red between the two
SELECTs of a request is shown once more; and an MCP decision to quarantine
changes the queue row alone, so that the read tools go on showing the paper.

## 6. What is not modelled, and why

* **Chunking, embeddings, metadata, fingerprints**: string functions. The models start
  from their results (a chunk set is a function of paper, instance and text; a
  candidate comes with its keys).
* **OCR, the local LLM, synthetic PDFs**: no command passes such an adapter.
* **The MCP server and its other tools, reports, citation slots, claim cards,
  notifications, benchmark**: they read, format and print. Of the read tools,
  `get_paper` and `search_papers` are modelled, because they decide what text
  is shown; the instance, review and artifact rows they add hold no text.
* **Configuration and command line**: parsed once and dispatched; the settings that matter
  are constants (`ManualReviewLanes`) or choices (`DropRoot`).
* Within the modelled parts: timestamps other than in ids, sizes, counts, priorities,
  reasons, titles, confidence, pages, aliases and measurement families; CHECK
  constraints on formats; real time (the read timer of a probe is an outcome).
* Dry runs beside other scans (a dry run writes snapshot rows only), and imports
  beside several scanners: each is modelled with a single scanner.
* Two roots whose folders have the same name, and so the same relative paths, are
  not distinguished (`scan_db.py:48`).
* The title in an inbox file name: an import of one content under two titles makes
  two files, each of which `InboxImport` describes.
* Two exports at once (`constructs_export.py:38`), the default lanes with which mutating
  review commands sync the queue (`review_actions.py:38`), and the text cache, which no
  command reads back (`extraction.py:198`).

## 7. Plan

Done, in this order, the most important behaviour first: scanning, review,
index build, deduplication, constructs and map; then concurrent scans, the
inbox, the read tools, the proofs of all safety properties, and the safety
behind convergence and termination. What could come next:

1. **Map growth**: a property for the edges that stay after a reassignment, once a
   document says what the map should show.
2. **Roots with one name**: `Path` as a pair of root and relative path, with the key that
   `scan_db.py:48` makes of it.
3. **Repair of raced paths**: what a scan would have to do for `UnracedPathsSettle` to hold
   of every path.
4. **Unraced paths**: the argument of `ScanQuietSettles` for scans that overlap, whose
   quiet another scan ends at the paths it records.
5. **The last step to liveness**: the middle column of the table in section 4 combined
   with fairness, if a prover for ENABLED becomes available.
