------------------------------ MODULE InboxImport ------------------------------
(***************************************************************************)
(* `rpv import`: a PDF from anywhere is hashed, copied into the inbox of   *)
(* the first storage root under a name that begins with its hash, and      *)
(* noted in the manifest, while scans (ScanManifest) walk the inbox and    *)
(* the source, the inbox and the importer itself may change, vanish or be  *)
(* killed at any step.                                                     *)
(***************************************************************************)
EXTENDS ScanManifest

CONSTANTS
  Importer,   \* the processes that import
  InboxPath   \* the inbox path of each content, under a fixed title

ASSUME InboxAssumption ==
  /\ InboxPath \in [ValidPdf -> Path]
  /\ \A c, e \in ValidPdf : InboxPath[c] = InboxPath[e] => c = e

VARIABLES
  source,    \* what is at the source path
  importer,  \* each importer's own state
  events,    \* the contents that have a row in import_event
  altered    \* history: paths written by others, or from a source that was
             \* changed while it was imported

importVars == <<source, importer, events, altered>>
inboxVars == <<vars, importVars>>

(* sha is the hash of the probe, temp the content of the temporary copy.   *)
(* disturbed is a history field: the source was changed between the probe  *)
(* and the end of the copy, be it to the same content again.               *)
ImportState ==
  [phase : {"idle", "copy", "replace", "record"},
   sha : ValidPdf \cup {None}, temp : Content \cup {None}, disturbed : BOOLEAN]

NoImport == [phase |-> "idle", sha |-> None, temp |-> None, disturbed |-> FALSE]

InboxTypeOK ==
  /\ TypeOK
  /\ source \in FileState
  /\ importer \in [Importer -> ImportState]
  /\ events \in SUBSET ValidPdf
  /\ altered \in SUBSET Path

-----------------------------------------------------------------------------
(* One import.                                                             *)

Go(m, state) == importer' = [importer EXCEPT ![m] = state]

In(m, phase) == importer[m].phase = phase

Target(m) == InboxPath[importer[m].sha]

(* A source that is not ready is refused, which changes nothing.           *)
ImportProbe(m) ==
  /\ In(m, "idle")
  /\ source \in ValidPdf
  /\ Go(m, [NoImport EXCEPT !.phase = "copy", !.sha = source])
  /\ UNCHANGED <<vars, source, events, altered>>

(* A file of that name is taken for that content.                          *)
ImportExisting(m) ==
  /\ In(m, "copy")
  /\ file[Target(m)] # None
  /\ Go(m, [importer[m] EXCEPT !.phase = "record", !.disturbed = FALSE])
  /\ UNCHANGED <<vars, source, events, altered>>

(* Mutant of ImportCopy: the copy is written to the inbox file itself.     *)
ImportCopyInPlace(m) ==
  /\ In(m, "copy")
  /\ file[Target(m)] = None /\ source \in Content
  /\ \E torn \in Content \ ValidPdf : file' = [file EXCEPT ![Target(m)] = torn]
  /\ scan' = Disturb
  /\ Go(m, [importer[m] EXCEPT !.phase = "replace", !.temp = source])
  /\ UNCHANGED <<db, tx, changes, crashes, source, events, altered>>

(* copy2 reads the source again; the temporary is no .pdf for the scan.    *)
ImportCopy(m) ==
  /\ In(m, "copy")
  /\ file[Target(m)] = None /\ source \in Content
  /\ Go(m, [importer[m] EXCEPT !.phase = "replace", !.temp = source])
  /\ UNCHANGED <<vars, source, events, altered>>

(* The source is no longer what an import has hashed and not yet copied.   *)
SourceChanged ==
  [n \in Importer |-> IF In(n, "copy")
                      THEN [importer[n] EXCEPT !.disturbed = TRUE] ELSE importer[n]]

(* The source is written while it is copied.                               *)
ImportCopyTorn(m) ==
  /\ In(m, "copy")
  /\ changes < MaxChanges /\ changes' = changes + 1
  /\ file[Target(m)] = None /\ source \in Content
  /\ \E c \in Content \ {source}, t \in Content :
       /\ source' = c
       /\ importer' = [SourceChanged EXCEPT ![m].phase = "replace", ![m].temp = t]
  /\ UNCHANGED <<file, db, tx, scan, crashes, events, altered>>

(* os.replace is atomic, and does not ask whether the target has come to   *)
(* exist since.                                                            *)
ImportReplace(m) ==
  /\ In(m, "replace")
  /\ LET me == importer[m]
     IN /\ file' = [file EXCEPT ![Target(m)] = me.temp]
        /\ altered' = IF me.disturbed THEN altered \cup {Target(m)} ELSE altered
        /\ Go(m, [me EXCEPT !.phase = "record", !.temp = None, !.disturbed = FALSE])
  /\ scan' = Disturb
  /\ UNCHANGED <<db, tx, changes, crashes, source, events>>

(* A scan that has begun to write keeps the manifest locked.               *)
ManifestLocked == scan.phase = "record" /\ scan.todo # scan.observed

(* Mutant of ImportRecord: the event comes before the file.                *)
ImportRecordFirst(m) ==
  /\ ~In(m, "idle") /\ ~ManifestLocked
  /\ events' = events \cup {importer[m].sha}
  /\ IF In(m, "record") THEN Go(m, NoImport) ELSE UNCHANGED importer
  /\ UNCHANGED <<vars, source, altered>>

ImportRecord(m) ==
  /\ In(m, "record") /\ ~ManifestLocked
  /\ events' = events \cup {importer[m].sha}
  /\ Go(m, NoImport)
  /\ UNCHANGED <<vars, source, altered>>

(* copy2 or os.replace raises OSError, for want of a source, of space or   *)
(* of the inbox: a temporary that is left is removed.                      *)
ImportFails(m) ==
  /\ In(m, "replace") \/ (In(m, "copy") /\ file[Target(m)] = None)
  /\ Go(m, NoImport)
  /\ UNCHANGED <<vars, source, events, altered>>

(* "database is locked": the file is in the inbox, without an event.       *)
ImportLockedOut(m) ==
  /\ In(m, "record") /\ ManifestLocked
  /\ Go(m, NoImport)
  /\ UNCHANGED <<vars, source, events, altered>>

ImportCrash(m) ==
  /\ ~In(m, "idle")
  /\ crashes < MaxCrashes /\ crashes' = crashes + 1
  /\ Go(m, NoImport)
  /\ UNCHANGED <<file, db, tx, scan, changes, source, events, altered>>

SourceChange ==
  /\ changes < MaxChanges /\ changes' = changes + 1
  /\ source' \in FileState \ {source}
  /\ importer' = SourceChanged
  /\ UNCHANGED <<file, db, tx, scan, crashes, events, altered>>

-----------------------------------------------------------------------------
InboxInit ==
  /\ Init /\ file = [p \in Path |-> None]
  /\ source \in FileState
  /\ importer = [m \in Importer |-> NoImport]
  /\ events = {} /\ altered = {}

ImportStep(m) ==
  \/ ImportProbe(m) \/ ImportExisting(m) \/ ImportCopy(m) \/ ImportReplace(m)
  \/ ImportRecord(m) \/ ImportFails(m) \/ ImportLockedOut(m)

InboxNext ==
  \/ \E m \in Importer : ImportStep(m) \/ ImportCopyTorn(m) \/ ImportCrash(m)
  \/ SourceChange
  \/ ScanStep /\ UNCHANGED importVars
  \/ /\ Environment
     /\ altered' = altered \cup
          {p \in Path : file'[p] # file[p] \/ scan'.seen[p] \in Unstable}
     /\ UNCHANGED <<source, importer, events>>

InboxSpec == InboxInit /\ [][InboxNext]_inboxVars

(* Scans are run again and again, and an import that is not killed goes on *)
(* to its end.                                                             *)
FairInboxSpec ==
  /\ InboxSpec
  /\ SF_inboxVars(ScanStep /\ UNCHANGED importVars)
  /\ WF_inboxVars(DryRunGoesOn /\ UNCHANGED importVars)
  /\ \A m \in Importer : WF_inboxVars(ImportStep(m) /\ ~In(m, "idle"))

-----------------------------------------------------------------------------
Untouched(c) == InboxPath[c] \notin altered

(* An inbox file has the content its name is the hash of, or is not there: *)
(* kills, failures, retries, copies side by side and a source that was     *)
(* changed before or after leave no part of a file and no other one.  The  *)
(* ways to a name that lies are the user, and a source that is changed     *)
(* between its hash and its copy, for the copy is not hashed again.        *)
InboxNamesContent ==
  \A c \in ValidPdf : Untouched(c) => file[InboxPath[c]] \in {None, c}

(* An import event means that the inbox has the file.                      *)
EventsHaveFiles ==
  \A c \in events : Untouched(c) => file[InboxPath[c]] = c

TruthAt(d, c) ==
  /\ d.pending[InboxPath[c]] = None
  /\ \A i \in ExistingInstanceForPath(d, InboxPath[c]) : d.instance[i].sha = c

(* No scan, at whatever moment of an import, records an inbox path with    *)
(* another hash, or as a file that is still to be waited for.              *)
ScansSeeWholeImports ==
  \A c \in ValidPdf : Untouched(c) => TruthAt(db, c)

(* What makes these inductive: an untouched inbox file stays for as long   *)
(* as a scan that has seen it goes on, and was there when its import says  *)
(* that it is.                                                             *)
ImportUnderWay(me) ==
  /\ me.phase # "idle" => me.sha \in ValidPdf
  /\ (me.phase = "copy" /\ ~me.disturbed) => source = me.sha
  /\ me.phase = "replace" => me.temp \in Content
  /\ (me.phase = "replace" /\ ~me.disturbed) => me.temp = me.sha
  /\ (me.phase = "record" /\ Untouched(me.sha)) => file[InboxPath[me.sha]] = me.sha

SeenWhole(c) ==
  /\ InboxPath[c] \in scan.observed => file[InboxPath[c]] = c
  /\ scan.seen[InboxPath[c]] \in {None, c}

InboxInvariant ==
  /\ InductiveInvariant /\ InboxTypeOK
  /\ InboxNamesContent /\ EventsHaveFiles
  /\ \A m \in Importer : ImportUnderWay(importer[m])
  /\ \A c \in ValidPdf : Untouched(c) => SeenWhole(c) /\ TruthAt(db, c) /\ TruthAt(tx, c)

(* What was imported, with an event or without one, ends up in the index   *)
(* builder's reach, classified, unless somebody alters it first.  A copy   *)
(* elsewhere shares its instance row, which may be at either path.         *)
Available(c) ==
  \E i \in InstanceId : /\ db.instance[i] # None
                        /\ db.instance[i].sha = c
                        /\ db.instance[i].status = "available"
                        /\ db.decision[c] # None

ImportsBecomeAvailable ==
  \A c \in ValidPdf : (file[InboxPath[c]] = c) ~> (~Untouched(c) \/ Available(c))

=============================================================================
