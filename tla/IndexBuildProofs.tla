--------------------------- MODULE IndexBuildProofs ---------------------------
(***************************************************************************)
(* What any history of builds, scans, reviews, file changes and kills      *)
(* leaves in the index, for every set of contents and instances.           *)
(***************************************************************************)
EXTENDS IndexBuild, TLAPS

(* What ArtifactIsTruthful rests on: the builder's uncommitted tables are  *)
(* as truthful as the committed ones, available instances are of papers    *)
(* that were classified, and text is extracted for green candidates only.  *)
ClassifiedFirst ==
  \A i \in Instance : available[i] # None => lane[available[i]] # None

BuildIsTruthful == build.phase # "idle" => Truthful(build.index)

ExtractedIsGreen ==
  build.phase = "extracted" =>
    \A cand \in build.todo : IsNext(cand) => cand.lane = "green"

IInv ==
  /\ TypeOK
  /\ ClassifiedFirst
  /\ ArtifactIsTruthful
  /\ BuildIsTruthful
  /\ ExtractedIsGreen

(* The tables y are x but for the paper of a candidate, which holds these  *)
(* chunks now and the lane the candidate was selected with.                *)
Writes(x, y, cand, chunks) ==
  /\ \A q \in Content \ {cand.paper} : /\ y.chunks[q] = x.chunks[q]
                                       /\ y.artifact[q] = x.artifact[q]
  /\ y.chunks[cand.paper] = chunks
  /\ y.artifact[cand.paper].lane = cand.lane

-----------------------------------------------------------------------------
(* Clearing the chunks of a paper changes the chunks of that paper only.   *)
LEMMA ClearFields ==
  ASSUME NEW x \in Index, NEW p \in Content
  PROVE  /\ ClearIndexForPaper(x, p) \in Index
         /\ ClearIndexForPaper(x, p).chunks = [x.chunks EXCEPT ![p] = None]
         /\ ClearIndexForPaper(x, p).artifact = x.artifact
         /\ ClearIndexForPaper(x, p).notice = x.notice
BY DEF ClearIndexForPaper, Index

(* Storing chunks replaces those of that paper.                            *)
LEMMA StoreFields ==
  ASSUME NEW x \in Index, NEW p \in Content, NEW i \in Instance,
         NEW text \in Content \ NoText
  PROVE  /\ StoreChunks(x, p, i, text) \in Index
         /\ StoreChunks(x, p, i, text).chunks =
              [x.chunks EXCEPT ![p] = [instance |-> i, text |-> text]]
         /\ StoreChunks(x, p, i, text).artifact = x.artifact
         /\ StoreChunks(x, p, i, text).notice = x.notice
<1> DEFINE y == ClearIndexForPaper(x, p)
           c == [instance |-> i, text |-> text]
<1>1. c \in Chunks
  BY DEF Chunks
<1>2. /\ y \in Index /\ y.artifact = x.artifact /\ y.notice = x.notice
      /\ y.chunks = [x.chunks EXCEPT ![p] = None]
  BY ClearFields
<1>3. StoreChunks(x, p, i, text) = [y EXCEPT !.chunks[p] = c]
  BY DEF StoreChunks
<1>4. [y.chunks EXCEPT ![p] = c] = [x.chunks EXCEPT ![p] = c]
  BY <1>2 DEF Index
<1> HIDE DEF y, c
<1> QED
  BY <1>1, <1>2, <1>3, <1>4 DEF Index, c

(* The row that the upsert writes is one of the table.                     *)
LEMMA RowType ==
  ASSUME NEW cand \in Candidate, NEW stage \in StageStatus, NEW vector \in BOOLEAN
  PROVE  /\ [lane |-> cand.lane, stage |-> stage, vector |-> vector] \in ArtifactRow
         /\ [lane |-> cand.lane, stage |-> stage, vector |-> vector] # None
<1>1. [lane |-> cand.lane, stage |-> stage, vector |-> vector] \in ArtifactRow
  BY DEF ArtifactRow, Candidate
<1> QED
  BY <1>1, IndexAssumption

(* The upsert of an artifact row changes that row only.                    *)
LEMMA UpsertFields ==
  ASSUME NEW x \in Index, NEW p \in Content, NEW row \in ArtifactRow
  PROVE  /\ [x EXCEPT !.artifact[p] = row] \in Index
         /\ [x EXCEPT !.artifact[p] = row].chunks = x.chunks
         /\ [x EXCEPT !.artifact[p] = row].artifact = [x.artifact EXCEPT ![p] = row]
         /\ [x EXCEPT !.artifact[p] = row].notice = x.notice
BY DEF Index

(* Writes for one paper keep the tables truthful if they are so of it.     *)
LEMMA WriteKeeps ==
  ASSUME NEW x \in Index, Truthful(x), NEW p \in Content, NEW y \in Index,
         x.notice \subseteq y.notice,
         \A q \in Content \ {p} : /\ y.chunks[q] = x.chunks[q]
                                  /\ y.artifact[q] = x.artifact[q],
         TruthfulAt(y, p)
  PROVE  Truthful(y)
BY DEF Truthful, TruthfulAt

(* _skip_candidate leaves tables of the right types, that agree.           *)
LEMMA SkipKeeps ==
  ASSUME NEW x \in Index, Truthful(x), NEW cand \in Candidate
  PROVE  /\ SkipCandidate(x, cand) \in Index
         /\ Truthful(SkipCandidate(x, cand))
         /\ Writes(x, SkipCandidate(x, cand), cand, None)
<1> DEFINE y == SkipCandidate(x, cand)
           z == ClearIndexForPaper(x, cand.paper)
           row == [lane |-> cand.lane, stage |-> "failed", vector |-> FALSE]
<1>1. /\ cand.paper \in Content /\ row \in ArtifactRow /\ row # None
  BY RowType DEF Candidate, StageStatus
<1>2. /\ z \in Index /\ z.chunks = [x.chunks EXCEPT ![cand.paper] = None]
      /\ z.artifact = x.artifact /\ z.notice = x.notice
  BY <1>1, ClearFields
<1>3. y = [z EXCEPT !.artifact[cand.paper] = row]
  BY DEF SkipCandidate, UpsertArtifact
<1> HIDE DEF z, row
<1>4. /\ y \in Index /\ y.chunks = z.chunks /\ y.notice = x.notice
      /\ y.artifact = [x.artifact EXCEPT ![cand.paper] = row]
  BY <1>1, <1>2, <1>3, UpsertFields
<1> HIDE DEF y
<1>5. /\ \A q \in Content \ {cand.paper} : /\ y.chunks[q] = x.chunks[q]
                                           /\ y.artifact[q] = x.artifact[q]
      /\ y.chunks[cand.paper] = None /\ y.artifact[cand.paper] = row
  BY <1>1, <1>2, <1>4 DEF Index
<1>6. TruthfulAt(y, cand.paper)
  BY <1>1, <1>5 DEF TruthfulAt, row
<1>7. Truthful(y)
  BY <1>1, <1>4, <1>5, <1>6, WriteKeeps
<1>8. Writes(x, y, cand, None)
  BY <1>5 DEF Writes, row
<1> QED
  BY <1>4, <1>7, <1>8 DEF y

(* So does the quarantine of a candidate, which is in the audit log.       *)
LEMMA QuarantineKeeps ==
  ASSUME NEW x \in Index, Truthful(x), NEW cand \in Candidate
  PROVE  /\ QuarantineCandidate(x, cand) \in Index
         /\ Truthful(QuarantineCandidate(x, cand))
         /\ Writes(x, QuarantineCandidate(x, cand), cand, None)
<1> DEFINE y == QuarantineCandidate(x, cand)
           z == ClearIndexForPaper(x, cand.paper)
           u == UpsertArtifact(z, cand, "quarantined", FALSE)
           row == [lane |-> cand.lane, stage |-> "quarantined", vector |-> FALSE]
<1>1. /\ cand.paper \in Content /\ row \in ArtifactRow /\ row # None
  BY RowType DEF Candidate, StageStatus
<1>2. /\ z \in Index /\ z.chunks = [x.chunks EXCEPT ![cand.paper] = None]
      /\ z.artifact = x.artifact /\ z.notice = x.notice
  BY <1>1, ClearFields
<1>3. /\ y = [u EXCEPT !.notice = @ \cup {cand.paper}]
      /\ u = [z EXCEPT !.artifact[cand.paper] = row]
  BY DEF QuarantineCandidate, UpsertArtifact
<1> HIDE DEF y, z, u, row
<1>4. /\ u \in Index /\ u.chunks = z.chunks /\ u.notice = x.notice
      /\ u.artifact = [x.artifact EXCEPT ![cand.paper] = row]
  BY <1>1, <1>2, <1>3, UpsertFields
<1>5. /\ y \in Index /\ y.chunks = u.chunks /\ y.artifact = u.artifact
      /\ y.notice = u.notice \cup {cand.paper}
  BY <1>1, <1>3, <1>4 DEF Index
<1>6. /\ \A q \in Content \ {cand.paper} : /\ y.chunks[q] = x.chunks[q]
                                           /\ y.artifact[q] = x.artifact[q]
      /\ y.chunks[cand.paper] = None /\ y.artifact[cand.paper] = row
  BY <1>1, <1>2, <1>4, <1>5 DEF Index
<1>7. TruthfulAt(y, cand.paper)
  BY <1>1, <1>5, <1>6 DEF TruthfulAt, row
<1>8. Truthful(y)
  BY <1>1, <1>4, <1>5, <1>6, <1>7, WriteKeeps
<1>9. Writes(x, y, cand, None)
  BY <1>6 DEF Writes, row
<1> QED
  BY <1>5, <1>8, <1>9 DEF y

(* So does the indexing of a green candidate whose text was extracted.     *)
LEMMA IndexGreenKeeps ==
  ASSUME NEW x \in Index, Truthful(x), NEW cand \in Candidate,
         cand.lane = "green", NEW text \in Content \ NoText
  PROVE  /\ IndexGreen(x, cand, text) \in Index
         /\ Truthful(IndexGreen(x, cand, text))
         /\ Writes(x, IndexGreen(x, cand, text), cand, [instance |-> cand.instance, text |-> text])
<1> DEFINE y == IndexGreen(x, cand, text)
           z == StoreChunks(x, cand.paper, cand.instance, text)
           row == [lane |-> cand.lane, stage |-> "complete", vector |-> TRUE]
           c == [instance |-> cand.instance, text |-> text]
<1>1. /\ cand.paper \in Content /\ cand.instance \in Instance
      /\ row \in ArtifactRow /\ row # None
  BY RowType DEF Candidate, StageStatus
<1>2. c # None
  <2>1. c \in Chunks
    BY <1>1 DEF Chunks
  <2> QED
    BY <2>1, IndexAssumption
<1>3. /\ z \in Index /\ z.chunks = [x.chunks EXCEPT ![cand.paper] = c]
      /\ z.artifact = x.artifact /\ z.notice = x.notice
  BY <1>1, StoreFields
<1>4. y = [z EXCEPT !.artifact[cand.paper] = row]
  BY DEF IndexGreen, UpsertArtifact
<1> HIDE DEF z, row
<1>5. /\ y \in Index /\ y.chunks = z.chunks /\ y.notice = x.notice
      /\ y.artifact = [x.artifact EXCEPT ![cand.paper] = row]
  BY <1>1, <1>3, <1>4, UpsertFields
<1> HIDE DEF y, c
<1>6. /\ \A q \in Content \ {cand.paper} : /\ y.chunks[q] = x.chunks[q]
                                           /\ y.artifact[q] = x.artifact[q]
      /\ y.chunks[cand.paper] = c /\ y.artifact[cand.paper] = row
  BY <1>1, <1>3, <1>5 DEF Index
<1>7. TruthfulAt(y, cand.paper)
  BY <1>1, <1>2, <1>6 DEF TruthfulAt, row, CanCarryVectorPath
<1>8. Truthful(y)
  BY <1>1, <1>5, <1>6, <1>7, WriteKeeps
<1>9. Writes(x, y, cand, c)
  BY <1>6 DEF Writes, row
<1> QED
  BY <1>5, <1>8, <1>9 DEF y, c

-----------------------------------------------------------------------------
(* A candidate that is next is the only one.                               *)
LEMMA NextIsUnique ==
  ASSUME TypeOK, build.phase # "idle", NEW a, NEW b, IsNext(a), IsNext(b)
  PROVE  a = b /\ a \in Candidate
<1>1. build.todo \subseteq Candidate
  BY DEF TypeOK, BuildState
<1>2. a \in Candidate /\ b \in Candidate
  BY <1>1 DEF IsNext
<1>3. /\ a.paper \in Nat /\ a.instance \in Nat
      /\ b.paper \in Nat /\ b.instance \in Nat
  BY <1>2, IndexAssumption DEF Candidate
<1> QED
  BY <1>2, <1>3 DEF IsNext, Before

(* The candidates of a build, when the lanes of available papers are known.*)
LEMMA CandidatesType ==
  ASSUME TypeOK, ClassifiedFirst
  PROVE  Candidates \subseteq Candidate
<1> SUFFICES ASSUME NEW i \in Instance, available[i] # None
             PROVE  [paper |-> available[i], instance |-> i, lane |-> lane[available[i]]]
                      \in Candidate
  BY DEF Candidates
<1>1. available[i] \in Content /\ lane[available[i]] \in Lane
  BY DEF TypeOK, ClassifiedFirst
<1> QED
  BY <1>1 DEF Candidate

(* Before anything was scanned or built, the invariant holds.              *)
LEMMA InitKeeps == Init => IInv
<1> SUFFICES ASSUME Init PROVE IInv
  OBVIOUS
<1> USE IndexAssumption DEF Init
<1>1. EmptyIndex \in Index
  BY DEF EmptyIndex, Index
<1>2. TypeOK
  BY <1>1 DEF TypeOK, BuildState, IdleBuild
<1>3. ClassifiedFirst
  BY DEF ClassifiedFirst
<1>4. ArtifactIsTruthful
  BY DEF ArtifactIsTruthful, Truthful, TruthfulAt, EmptyIndex
<1>5. BuildIsTruthful /\ ExtractedIsGreen
  BY DEF BuildIsTruthful, ExtractedIsGreen, IdleBuild
<1> QED
  BY <1>2, <1>3, <1>4, <1>5 DEF IInv

(* What a step of the builder leaves alone.                                *)
LEMMA BuilderStep ==
  ASSUME IInv, UNCHANGED <<file, unrooted, lane, reviewed, available>>,
         index' \in Index, Truthful(index'),
         cache' \in [Instance -> (Content \ NoText) \cup {None}],
         changes' \in 0..MaxChanges,
         build' \in BuildState, BuildIsTruthful', ExtractedIsGreen'
  PROVE  IInv'
<1>1. TypeOK' /\ ClassifiedFirst'
  BY DEF IInv, TypeOK, ClassifiedFirst
<1>2. ArtifactIsTruthful'
  BY DEF ArtifactIsTruthful, Truthful, TruthfulAt
<1> QED
  BY <1>1, <1>2 DEF IInv

(* The end of a build, by commit, failure or kill.                         *)
LEMMA EndOfBuild ==
  ASSUME build' = IdleBuild
  PROVE  build' \in BuildState /\ BuildIsTruthful' /\ ExtractedIsGreen'
BY DEF IdleBuild, BuildState, BuildIsTruthful, ExtractedIsGreen

(* The writes of one candidate leave a build in good order.                *)
LEMMA WriteStep ==
  ASSUME IInv, build.phase # "idle", NEW cand, NEW x \in Index, Truthful(x),
         build' = Write(x, cand)
  PROVE  build' \in BuildState /\ BuildIsTruthful' /\ ExtractedIsGreen'
<1>1. build.todo \subseteq Candidate /\ build.quiet \in BOOLEAN
  BY DEF IInv, TypeOK, BuildState
<1>2. /\ build' = [phase |-> "next", todo |-> build.todo \ {cand}, locked |-> TRUE,
                   index |-> x, quiet |-> build.quiet]
      /\ build'.phase = "next" /\ build'.index = x
  BY DEF Write
<1>3. build' \in BuildState
  BY <1>1, <1>2 DEF BuildState
<1>4. BuildIsTruthful'
  BY <1>2 DEF BuildIsTruthful, Truthful, TruthfulAt
<1>5. ExtractedIsGreen'
  BY <1>2 DEF ExtractedIsGreen
<1> QED
  BY <1>3, <1>4, <1>5

(* What the builder knows when it is at work.                              *)
LEMMA WorkingFacts ==
  ASSUME IInv, build.phase # "idle"
  PROVE  /\ build.todo \subseteq Candidate /\ build.locked \in BOOLEAN
         /\ build.quiet \in BOOLEAN
         /\ build.index \in Index /\ Truthful(build.index)
BY DEF IInv, TypeOK, BuildState, BuildIsTruthful

(* The steps of a build keep the invariant.                                *)
LEMMA BuildKeeps ==
  ASSUME IInv, IndexStep
  PROVE  IInv'
<1>1. CASE IndexSelect
  <2>1. Candidates \subseteq Candidate /\ index \in Index /\ Truthful(index)
    BY CandidatesType DEF IInv, TypeOK, ArtifactIsTruthful
  <2>2. /\ build' = [phase |-> "next", todo |-> Candidates, locked |-> FALSE,
                     index |-> index, quiet |-> TRUE]
        /\ build'.phase = "next" /\ build'.index = index
    BY <1>1 DEF IndexSelect
  <2>3. build' \in BuildState
    BY <2>1, <2>2 DEF BuildState
  <2>4. BuildIsTruthful' /\ ExtractedIsGreen'
    BY <2>1, <2>2 DEF BuildIsTruthful, ExtractedIsGreen, Truthful, TruthfulAt
  <2>5. /\ UNCHANGED <<file, unrooted, lane, reviewed, available, index, cache, changes>>
        /\ cache \in [Instance -> (Content \ NoText) \cup {None}]
        /\ changes \in 0..MaxChanges
    BY <1>1 DEF IndexSelect, IInv, TypeOK
  <2> QED
    BY <2>1, <2>3, <2>4, <2>5, BuilderStep
<1>2. CASE IndexCommit
  <2>1. build.index \in Index /\ Truthful(build.index)
    BY <1>2, WorkingFacts DEF IndexCommit
  <2>2. /\ UNCHANGED <<file, unrooted, lane, reviewed, available, cache, changes>>
        /\ cache \in [Instance -> (Content \ NoText) \cup {None}]
        /\ changes \in 0..MaxChanges
        /\ index' = build.index /\ build' = IdleBuild
    BY <1>2 DEF IndexCommit, IInv, TypeOK
  <2> QED
    BY <2>1, <2>2, EndOfBuild, BuilderStep
<1>3. ASSUME NEW cand \in Candidate, IndexQuarantine(cand) \/ IndexSkip(cand)
      PROVE  IInv'
  <2>1. /\ UNCHANGED <<file, unrooted, lane, reviewed, available, index, cache, changes>>
        /\ build.phase # "idle"
        /\ \/ build' = Write(QuarantineCandidate(build.index, cand), cand)
           \/ build' = Write(SkipCandidate(build.index, cand), cand)
    BY <1>3 DEF IndexQuarantine, IndexSkip
  <2>2. \E x \in Index : Truthful(x) /\ build' = Write(x, cand)
    BY <2>1, WorkingFacts, SkipKeeps, QuarantineKeeps
  <2>3. build' \in BuildState /\ BuildIsTruthful' /\ ExtractedIsGreen'
    BY <2>1, <2>2, WriteStep
  <2>4. /\ index \in Index /\ Truthful(index) /\ changes \in 0..MaxChanges
        /\ cache \in [Instance -> (Content \ NoText) \cup {None}]
    BY DEF IInv, TypeOK, ArtifactIsTruthful
  <2> QED
    BY <2>1, <2>3, <2>4, BuilderStep
<1>4. ASSUME NEW cand \in Candidate, IndexExtract(cand)
      PROVE  IInv'
  <2>1. /\ UNCHANGED <<file, unrooted, lane, reviewed, available, index, changes>>
        /\ build.phase # "idle" /\ IsNext(cand) /\ cand.lane = "green"
        /\ file[cand.instance] # None
        /\ build' = [phase |-> "extracted", todo |-> build.todo,
                     locked |-> build.locked, index |-> build.index,
                     quiet |-> build.quiet, text |-> file[cand.instance]]
        /\ cache' = IF file[cand.instance] \in NoText THEN cache
                      ELSE [cache EXCEPT ![cand.instance] = file[cand.instance]]
    BY <1>4 DEF IndexExtract, CanExtract
  <2>2. file[cand.instance] \in Content
    BY <2>1 DEF IInv, TypeOK, Candidate
  <2>3. /\ build.todo \subseteq Candidate /\ build.locked \in BOOLEAN
        /\ build.quiet \in BOOLEAN
        /\ build.index \in Index /\ Truthful(build.index)
    BY <2>1, WorkingFacts
  <2>4. build' \in BuildState
    BY <2>1, <2>2, <2>3 DEF BuildState
  <2>5. build'.index = build.index /\ build'.todo = build.todo
    BY <2>1
  <2>6. BuildIsTruthful'
    BY <2>3, <2>5 DEF BuildIsTruthful, Truthful, TruthfulAt
  <2>7. ExtractedIsGreen'
    <3>1. ASSUME NEW c \in build.todo, IsNext(c)' PROVE c.lane = "green"
      <4>1. IsNext(c)
        BY <2>5, <3>1 DEF IsNext
      <4> QED
        BY <2>1, <4>1, NextIsUnique DEF IInv
    <3> QED
      BY <2>5, <3>1 DEF ExtractedIsGreen
  <2>8. cache' \in [Instance -> (Content \ NoText) \cup {None}]
    BY <2>1, <2>2 DEF IInv, TypeOK, Candidate
  <2>9. index \in Index /\ Truthful(index) /\ changes \in 0..MaxChanges
    BY DEF IInv, TypeOK, ArtifactIsTruthful
  <2> QED
    BY <2>1, <2>4, <2>6, <2>7, <2>8, <2>9, BuilderStep
<1>5. ASSUME NEW cand \in Candidate, IndexStore(cand)
      PROVE  IInv'
  <2>1. /\ UNCHANGED <<file, unrooted, lane, reviewed, available, index, cache, changes>>
        /\ build.phase = "extracted" /\ build.phase # "idle" /\ IsNext(cand)
        /\ \/ build.text \in NoText /\ build' = Write(SkipCandidate(build.index, cand), cand)
           \/ /\ build.text \notin NoText
              /\ build' = Write(IndexGreen(build.index, cand, build.text), cand)
    BY <1>5 DEF IndexStore
  <2>2. build.text \in Content /\ cand.lane = "green"
    BY <2>1 DEF IInv, TypeOK, BuildState, ExtractedIsGreen, IsNext
  <2>3. \E x \in Index : Truthful(x) /\ build' = Write(x, cand)
    BY <2>1, <2>2, WorkingFacts, SkipKeeps, IndexGreenKeeps
  <2>4. build' \in BuildState /\ BuildIsTruthful' /\ ExtractedIsGreen'
    BY <2>1, <2>3, WriteStep
  <2>5. /\ index \in Index /\ Truthful(index) /\ changes \in 0..MaxChanges
        /\ cache \in [Instance -> (Content \ NoText) \cup {None}]
    BY DEF IInv, TypeOK, ArtifactIsTruthful
  <2> QED
    BY <2>1, <2>4, <2>5, BuilderStep
<1>6. ASSUME NEW cand \in Candidate, IndexReadFails(cand)
      PROVE  IInv'
  <2>1. /\ UNCHANGED <<file, unrooted, lane, reviewed, available, index, cache, changes>>
        /\ build' = IdleBuild
    BY <1>6 DEF IndexReadFails
  <2>2. /\ index \in Index /\ Truthful(index) /\ changes \in 0..MaxChanges
        /\ cache \in [Instance -> (Content \ NoText) \cup {None}]
    BY DEF IInv, TypeOK, ArtifactIsTruthful
  <2> QED
    BY <2>1, <2>2, EndOfBuild, BuilderStep
<1> QED
  BY <1>1, <1>2, <1>3, <1>4, <1>5, <1>6 DEF IndexStep

(* A kill keeps the invariant: only the text cache outlives it.            *)
LEMMA CrashKeeps ==
  ASSUME IInv, IndexCrash
  PROVE  IInv'
<1>1. /\ UNCHANGED <<file, unrooted, lane, reviewed, available, index, cache>>
      /\ build' = IdleBuild /\ changes' = changes + 1 /\ changes < MaxChanges
  BY DEF IndexCrash
<1>2. /\ index \in Index /\ Truthful(index) /\ changes \in 0..MaxChanges
      /\ cache \in [Instance -> (Content \ NoText) \cup {None}]
  BY DEF IInv, TypeOK, ArtifactIsTruthful
<1>3. changes' \in 0..MaxChanges
  BY <1>1, <1>2, IndexAssumption
<1> QED
  BY <1>1, <1>2, <1>3, EndOfBuild, BuilderStep

(* A disturbance only ends the quiet of a build.                           *)
LEMMA DisturbedFacts ==
  ASSUME IInv
  PROVE  /\ Disturbed \in BuildState
         /\ Disturbed.phase = build.phase
         /\ build.phase # "idle" =>
              Disturbed.todo = build.todo /\ Disturbed.index = build.index
BY DEF IInv, TypeOK, Disturbed, BuildState

(* What the rest of the vault leaves alone.                                *)
LEMMA VaultStep ==
  ASSUME IInv, build' = Disturbed, UNCHANGED <<index, cache>>,
         file' \in [Instance -> Content \cup {None}], unrooted' \subseteq Instance,
         lane' \in [Content -> Lane \cup {None}], reviewed' \subseteq Content,
         available' \in [Instance -> Content \cup {None}],
         changes' \in 0..MaxChanges, ClassifiedFirst'
  PROVE  IInv'
<1>1. /\ build' \in BuildState /\ build'.phase = build.phase
      /\ build.phase # "idle" => build'.todo = build.todo /\ build'.index = build.index
  BY DisturbedFacts
<1>2. TypeOK'
  BY <1>1 DEF IInv, TypeOK
<1>3. ArtifactIsTruthful'
  BY DEF IInv, ArtifactIsTruthful, Truthful, TruthfulAt
<1>4. BuildIsTruthful'
  BY <1>1 DEF IInv, BuildIsTruthful, Truthful, TruthfulAt
<1>5. ExtractedIsGreen'
  BY <1>1 DEF IInv, ExtractedIsGreen, IsNext
<1> QED
  BY <1>2, <1>3, <1>4, <1>5 DEF IInv

(* File changes, dropped roots, scans and reviews keep the invariant: a    *)
(* scan gives a lane to every paper it makes available, and a review does  *)
(* not take one away.                                                      *)
LEMMA VaultKeeps ==
  ASSUME IInv,
         \/ \E i \in Instance : \/ FileChange(i) \/ DropRoot(i) \/ ScanFinds(i)
                                \/ ScanMisses(i) \/ ScanDefers(i)
         \/ \E p \in Content, l \in Lane : Review(p, l)
  PROVE  IInv'
<1>1. /\ file \in [Instance -> Content \cup {None}] /\ unrooted \subseteq Instance
      /\ lane \in [Content -> Lane \cup {None}] /\ reviewed \subseteq Content
      /\ available \in [Instance -> Content \cup {None}]
      /\ changes \in 0..MaxChanges /\ ClassifiedFirst
  BY DEF IInv, TypeOK
<1>2. changes < MaxChanges => changes + 1 \in 0..MaxChanges
  BY <1>1, IndexAssumption
<1>3. ASSUME NEW i \in Instance, FileChange(i) PROVE IInv'
  <2>1. /\ build' = Disturbed /\ changes' \in 0..MaxChanges
        /\ UNCHANGED <<unrooted, lane, reviewed, available, index, cache>>
        /\ file' \in [Instance -> Content \cup {None}]
    BY <1>1, <1>2, <1>3 DEF FileChange, Disturb
  <2> QED
    BY <1>1, <2>1, VaultStep DEF ClassifiedFirst
<1>4. ASSUME NEW i \in Instance, DropRoot(i) PROVE IInv'
  <2>1. /\ build' = Disturbed /\ changes' \in 0..MaxChanges
        /\ UNCHANGED <<file, lane, reviewed, available, index, cache>>
        /\ unrooted' \subseteq Instance
    BY <1>1, <1>2, <1>4 DEF DropRoot, Disturb
  <2> QED
    BY <1>1, <2>1, VaultStep DEF ClassifiedFirst
<1>5. ASSUME NEW i \in Instance, ScanFinds(i) PROVE IInv'
  <2>1. PICK m \in ScanLanes[file[i]] :
          /\ lane' = [lane EXCEPT ![file[i]] = m]
          /\ reviewed' = IF m = "green" THEN reviewed \ {file[i]} ELSE reviewed
    BY <1>5 DEF ScanFinds
  <2>2. /\ build' = Disturbed /\ UNCHANGED <<file, unrooted, index, cache, changes>>
        /\ available' = [available EXCEPT ![i] = file[i]] /\ file[i] # None
    BY <1>5 DEF ScanFinds
  <2>3. file[i] \in Content /\ m \in Lane
    BY <1>1, <2>1, <2>2, IndexAssumption
  <2>4. m # None
    BY <2>3, IndexAssumption
  <2>5. /\ lane' \in [Content -> Lane \cup {None}] /\ reviewed' \subseteq Content
        /\ available' \in [Instance -> Content \cup {None}]
    BY <1>1, <2>1, <2>2, <2>3
  <2>6. ClassifiedFirst'
    BY <1>1, <2>1, <2>2, <2>3, <2>4 DEF ClassifiedFirst
  <2> QED
    BY <1>1, <2>2, <2>5, <2>6, VaultStep
<1>6. ASSUME NEW i \in Instance, ScanMisses(i) \/ ScanDefers(i) PROVE IInv'
  <2>1. /\ build' = Disturbed /\ changes' \in 0..MaxChanges
        /\ UNCHANGED <<file, unrooted, lane, reviewed, index, cache>>
        /\ available' = [available EXCEPT ![i] = None]
    BY <1>1, <1>2, <1>6 DEF ScanMisses, ScanDefers, Disturb
  <2>2. available' \in [Instance -> Content \cup {None}] /\ ClassifiedFirst'
    BY <1>1, <2>1 DEF ClassifiedFirst
  <2> QED
    BY <1>1, <2>1, <2>2, VaultStep
<1>7. ASSUME NEW p \in Content, NEW l \in Lane, Review(p, l) PROVE IInv'
  <2>1. /\ build' = Disturbed /\ changes' \in 0..MaxChanges
        /\ UNCHANGED <<file, unrooted, available, index, cache>>
        /\ lane' = [lane EXCEPT ![p] = l] /\ reviewed' = reviewed \cup {p}
    BY <1>1, <1>2, <1>7 DEF Review, Disturb
  <2>2. l # None
    BY IndexAssumption
  <2>3. /\ lane' \in [Content -> Lane \cup {None}] /\ reviewed' \subseteq Content
        /\ ClassifiedFirst'
    BY <1>1, <2>1, <2>2 DEF ClassifiedFirst
  <2> QED
    BY <1>1, <2>1, <2>3, VaultStep
<1> QED
  BY <1>3, <1>4, <1>5, <1>6, <1>7

-----------------------------------------------------------------------------
(* The inductive invariant of the build holds, whatever else happens.      *)
THEOREM IndexInductive == Spec => []IInv
<1>1. IInv /\ [Next]_vars => IInv'
  <2> SUFFICES ASSUME IInv, [Next]_vars PROVE IInv'
    OBVIOUS
  <2>1. CASE UNCHANGED vars
    BY <2>1 DEF vars, IInv, TypeOK, ClassifiedFirst, ArtifactIsTruthful, Truthful,
       TruthfulAt, BuildIsTruthful, ExtractedIsGreen, IsNext
  <2> QED
    BY <2>1, BuildKeeps, CrashKeeps, VaultKeeps DEF Next, Environment, ScanStep
<1> QED
  BY InitKeeps, <1>1, PTL DEF Spec

(* Files, lanes, index tables and the builder have their types.            *)
THEOREM IndexTypeCorrect == Spec => []TypeOK
<1>1. IInv => TypeOK
  BY DEF IInv
<1> QED
  BY IndexInductive, <1>1, PTL

(* The artifact row of a paper says whether it is embedded, after any      *)
(* history of builds that committed, failed or were killed.                *)
THEOREM IndexArtifactIsTruthful == Spec => []ArtifactIsTruthful
<1>1. IInv => ArtifactIsTruthful
  BY DEF IInv
<1> QED
  BY IndexInductive, <1>1, PTL

-----------------------------------------------------------------------------
(* What QuietBuildIsExact rests on.  While nothing disturbs a build, its   *)
(* candidates still are those it would select now; it takes them in their  *)
(* order; the text it holds is that of the file; and its copy is exact for *)
(* every paper that has no candidate left.                                 *)
CandidateOf(i) ==
  [paper |-> available[i], instance |-> i, lane |-> lane[available[i]]]

Handled(p) == \A i \in InstancesOf(p) : CandidateOf(i) \notin build.todo

ExactAt(x, p) ==
  /\ LastInstanceOf(p) \in InstancesOf(p)
  /\ IndexedRight(x, p)
  /\ x.artifact[p].lane = lane[p]

QuietExact ==
  (build.phase # "idle" /\ build.quiet) =>
    /\ build.todo \subseteq Candidates
    /\ \A a \in Candidates \ build.todo, b \in build.todo : Before(a, b)
    /\ build.phase = "extracted" =>
         \A cand \in build.todo : IsNext(cand) =>
           cand.instance \notin unrooted /\ build.text = file[cand.instance]
    /\ \A p \in Content :
         (InstancesOf(p) # {} /\ Handled(p)) => ExactAt(build.index, p)

(* The last instance is the one that no other follows.                     *)
LEMMA LastIsGreatest ==
  ASSUME NEW p \in Content, NEW i \in InstancesOf(p),
         \A j \in InstancesOf(p) : j <= i
  PROVE  LastInstanceOf(p) = i
<1>1. InstancesOf(p) \subseteq Nat
  BY IndexAssumption DEF InstancesOf
<1>2. \A k \in InstancesOf(p) : (\A j \in InstancesOf(p) : j <= k) => k = i
  BY <1>1
<1> QED
  BY <1>2 DEF LastInstanceOf

(* Writing the last candidate of a paper, with the chunks that the lane    *)
(* and the file of its instance call for, makes the copy exact for it.     *)
LEMMA WriteIsExact ==
  ASSUME IInv, QuietExact, build.phase # "idle", build.quiet,
         NEW cand \in Candidate, IsNext(cand),
         NEW y, NEW chunks, Writes(build.index, y, cand, chunks),
         chunks = IF /\ cand.lane = "green" /\ cand.instance \notin unrooted
                     /\ file[cand.instance] \notin NoText
                    THEN [instance |-> cand.instance, text |-> file[cand.instance]]
                    ELSE None,
         UNCHANGED <<file, unrooted, lane, reviewed, available>>,
         build' = Write(y, cand)
  PROVE  QuietExact'
<1>1. /\ build'.phase = "next" /\ build'.phase # "extracted" /\ build'.index = y
      /\ build'.todo = build.todo \ {cand} /\ build'.quiet = build.quiet
  BY DEF Write
<1>2. /\ build.todo \subseteq Candidates
      /\ \A a \in Candidates \ build.todo, b \in build.todo : Before(a, b)
      /\ \A p \in Content :
           (InstancesOf(p) # {} /\ Handled(p)) => ExactAt(build.index, p)
  BY DEF QuietExact
<1>3. Candidates' = Candidates
  BY DEF Candidates
<1>4. cand \in build.todo /\ \A b \in build.todo : b = cand \/ Before(cand, b)
  BY DEF IsNext
<1>5. \A a \in Candidates \ build'.todo, b \in build'.todo : Before(a, b)
  BY <1>1, <1>2, <1>4
<1>6. ASSUME NEW p \in Content, InstancesOf(p) # {}, Handled(p)'
      PROVE  ExactAt(y, p)
  <2>1. \A i \in InstancesOf(p) : CandidateOf(i) \notin build.todo \ {cand}
    BY <1>1, <1>6 DEF Handled, InstancesOf, CandidateOf
  <2>2. CASE p # cand.paper
    <3>1. \A i \in InstancesOf(p) : CandidateOf(i) # cand
      BY <2>2 DEF InstancesOf, CandidateOf
    <3>2. ExactAt(build.index, p)
      BY <1>2, <1>6, <2>1, <3>1 DEF Handled
    <3> QED
      BY <2>2, <3>2 DEF ExactAt, IndexedRight, Writes
  <2>3. CASE p = cand.paper
    <3>1. PICK k \in Instance : available[k] # None /\ cand = CandidateOf(k)
      BY <1>2, <1>4 DEF Candidates, CandidateOf
    <3>2. k = cand.instance /\ k \in InstancesOf(p) /\ lane[p] = cand.lane
      BY <2>3, <3>1 DEF CandidateOf, InstancesOf
    <3>3. ASSUME NEW j \in InstancesOf(p) PROVE j <= k
      <4>1. /\ CandidateOf(j).paper = p /\ CandidateOf(j).instance = j
            /\ j \in Instance
        BY DEF CandidateOf, InstancesOf
      <4>2. CandidateOf(j) \in Candidates
        BY <3>3, IndexAssumption DEF Candidates, CandidateOf, InstancesOf
      <4>3. CandidateOf(j) = cand \/ CandidateOf(j) \notin build.todo
        BY <2>1
      <4>4. CandidateOf(j) = cand \/ Before(CandidateOf(j), cand)
        BY <1>2, <1>4, <4>2, <4>3
      <4>5. j \in Nat /\ k \in Nat /\ p \in Nat
        BY <3>1, <4>1, IndexAssumption
      <4> QED
        BY <2>3, <3>2, <4>1, <4>4, <4>5 DEF Before
    <3>4. LastInstanceOf(p) = cand.instance
      BY <3>2, <3>3, LastIsGreatest
    <3> QED
      BY <2>3, <3>2, <3>4 DEF ExactAt, IndexedRight, Writes
  <2> QED
    BY <2>2, <2>3
<1>7. \A p \in Content : (InstancesOf(p) # {} /\ Handled(p))' => ExactAt(build.index, p)'
  <2>1. \A p \in Content : InstancesOf(p)' = InstancesOf(p)
    BY DEF InstancesOf
  <2>2. \A p \in Content : LastInstanceOf(p)' = LastInstanceOf(p)
    BY <2>1 DEF LastInstanceOf
  <2> QED
    BY <1>1, <1>6, <2>1, <2>2 DEF ExactAt, IndexedRight
<1> QED
  BY <1>1, <1>2, <1>3, <1>5, <1>7 DEF QuietExact

(* Nothing the rest of the vault does leaves a build quiet.                *)
LEMMA VaultEndsQuiet ==
  ASSUME IInv, build' = Disturbed
  PROVE  QuietExact'
BY DEF IInv, TypeOK, Disturbed, BuildState, QuietExact

(* The steps of a build keep the copy of a quiet build exact.              *)
LEMMA BuildKeepsQuietExact ==
  ASSUME IInv, QuietExact, IndexStep
  PROVE  QuietExact'
<1>1. CASE IndexSelect
  <2>1. /\ build'.phase = "next" /\ build'.todo = Candidates
        /\ Candidates' = Candidates
        /\ UNCHANGED <<available, lane>>
    BY <1>1 DEF IndexSelect, Candidates
  <2>2. \A p \in Content : ~(InstancesOf(p) # {} /\ Handled(p))'
    <3> SUFFICES ASSUME NEW p \in Content, NEW i \in InstancesOf(p)
                 PROVE  CandidateOf(i) \in Candidates
      BY <2>1 DEF InstancesOf, Handled, CandidateOf
    <3> QED
      BY IndexAssumption DEF InstancesOf, CandidateOf, Candidates
  <2> QED
    BY <2>1, <2>2 DEF QuietExact
<1>2. ASSUME build' = IdleBuild PROVE QuietExact'
  BY <1>2 DEF IdleBuild, QuietExact
<1>3. ASSUME NEW cand \in Candidate,
             IndexQuarantine(cand) \/ IndexSkip(cand) \/ IndexStore(cand)
      PROVE  QuietExact'
  <2>1. /\ UNCHANGED <<file, unrooted, lane, reviewed, available>>
        /\ build.phase # "idle" /\ IsNext(cand)
    BY <1>3 DEF IndexQuarantine, IndexSkip, IndexStore
  <2>2. PICK y, chunks :
          /\ build' = Write(y, cand)
          /\ Writes(build.index, y, cand, chunks)
          /\ build.quiet =>
               chunks = IF /\ cand.lane = "green" /\ cand.instance \notin unrooted
                           /\ file[cand.instance] \notin NoText
                          THEN [instance |-> cand.instance, text |-> file[cand.instance]]
                          ELSE None
    <3>0. build.index \in Index /\ Truthful(build.index)
      BY <2>1, WorkingFacts
    <3>1. CASE IndexQuarantine(cand)
      <4> DEFINE y == QuarantineCandidate(build.index, cand)
      <4>1. build' = Write(y, cand) /\ cand.lane # "green"
        BY <3>1 DEF IndexQuarantine
      <4>2. Writes(build.index, y, cand, None)
        BY <3>0, QuarantineKeeps
      <4> QED
        BY <4>1, <4>2
    <3>2. CASE IndexSkip(cand)
      <4> DEFINE y == SkipCandidate(build.index, cand)
      <4>1. build' = Write(y, cand) /\ (cand.lane # "green" \/ cand.instance \in unrooted)
        BY <3>2 DEF IndexSkip
      <4>2. Writes(build.index, y, cand, None)
        BY <3>0, SkipKeeps
      <4> QED
        BY <4>1, <4>2
    <3>3. CASE IndexStore(cand)
      <4>1. /\ cand.lane = "green" /\ build.text \in Content
            /\ build.quiet => cand.instance \notin unrooted /\ build.text = file[cand.instance]
        BY <2>1, <3>3 DEF IndexStore, IInv, TypeOK, BuildState, ExtractedIsGreen,
                          QuietExact, IsNext
      <4>2. CASE build.text \in NoText
        <5> DEFINE y == SkipCandidate(build.index, cand)
        <5>1. build' = Write(y, cand)
          BY <3>3, <4>2 DEF IndexStore
        <5>2. Writes(build.index, y, cand, None)
          BY <3>0, SkipKeeps
        <5> QED
          BY <4>1, <4>2, <5>1, <5>2
      <4>3. CASE build.text \notin NoText
        <5> DEFINE y == IndexGreen(build.index, cand, build.text)
                   c == [instance |-> cand.instance, text |-> build.text]
        <5>1. build' = Write(y, cand)
          BY <3>3, <4>3 DEF IndexStore
        <5>2. Writes(build.index, y, cand, c)
          BY <3>0, <4>1, <4>3, IndexGreenKeeps
        <5> QED
          BY <4>1, <4>3, <5>1, <5>2
      <4> QED
        BY <4>2, <4>3
    <3> QED
      BY <1>3, <3>1, <3>2, <3>3
  <2>3. CASE build.quiet
    BY <2>1, <2>2, <2>3, WriteIsExact
  <2>4. CASE ~build.quiet
    BY <2>2, <2>4 DEF QuietExact, Write
  <2> QED
    BY <2>3, <2>4
<1>4. ASSUME NEW cand \in Candidate, IndexExtract(cand)
      PROVE  QuietExact'
  <2>1. /\ UNCHANGED <<file, unrooted, lane, reviewed, available, index>>
        /\ build.phase # "idle" /\ IsNext(cand)
        /\ cand.instance \notin unrooted
        /\ build'.text = file[cand.instance] /\ build'.phase = "extracted"
        /\ build'.todo = build.todo /\ build'.index = build.index
        /\ build'.quiet = build.quiet
    BY <1>4 DEF IndexExtract, CanExtract
  <2>2. \A c \in build'.todo : IsNext(c)' => c = cand
    BY <2>1, NextIsUnique DEF IInv, IsNext
  <2>3. /\ Candidates' = Candidates
        /\ \A p \in Content : /\ InstancesOf(p)' = InstancesOf(p)
                              /\ Handled(p)' = Handled(p)
                              /\ ExactAt(build.index, p)' = ExactAt(build.index, p)
    BY <2>1 DEF Candidates, InstancesOf, Handled, CandidateOf, ExactAt, IndexedRight,
                LastInstanceOf
  <2> QED
    BY <2>1, <2>2, <2>3 DEF QuietExact
<1> QED
  BY <1>1, <1>2, <1>3, <1>4 DEF IndexStep, IndexCommit, IndexReadFails

(* While nothing disturbs a build, its copy is exact for what it handled.  *)
LEMMA IndexQuietExact == Spec => []QuietExact
<1>1. Init => QuietExact
  BY DEF Init, IdleBuild, QuietExact
<1>2. IInv /\ QuietExact /\ [Next]_vars => QuietExact'
  <2> SUFFICES ASSUME IInv, QuietExact, [Next]_vars PROVE QuietExact'
    OBVIOUS
  <2>1. CASE UNCHANGED vars
    <3>1. UNCHANGED <<file, unrooted, lane, available, build>>
      BY <2>1 DEF vars
    <3>2. /\ Candidates' = Candidates
          /\ \A cand : IsNext(cand)' = IsNext(cand)
          /\ \A p \in Content : /\ InstancesOf(p)' = InstancesOf(p)
                                /\ Handled(p)' = Handled(p)
                                /\ ExactAt(build.index, p)' = ExactAt(build.index, p)
      BY <3>1 DEF Candidates, IsNext, InstancesOf, Handled, CandidateOf, ExactAt,
                  IndexedRight, LastInstanceOf
    <3> QED
      BY <3>1, <3>2 DEF QuietExact
  <2>2. CASE IndexStep
    BY <2>2, BuildKeepsQuietExact
  <2>3. CASE IndexCrash
    BY <2>3 DEF IndexCrash, IdleBuild, QuietExact
  <2>4. CASE build' = Disturbed
    BY <2>4, VaultEndsQuiet
  <2> QED
    BY <2>1, <2>2, <2>3, <2>4 DEF Next, Environment, ScanStep, FileChange, DropRoot,
         ScanDefers, Review, Disturb, ScanFinds, ScanMisses
<1> QED
  BY IndexInductive, <1>1, <1>2, PTL DEF Spec

(* A build that nothing has disturbed leaves the index exact.              *)
THEOREM IndexQuietBuildIsExact == Spec => QuietBuildIsExact
<1>1. QuietExact /\ [Next]_vars =>
        [(IndexCommit /\ build.quiet) =>
           \A p \in Content : InstancesOf(p) # {} =>
             /\ IndexedRight(index', p)
             /\ index'.artifact[p].lane = lane[p]]_vars
  <2> SUFFICES ASSUME QuietExact, IndexCommit, build.quiet,
                      NEW p \in Content, InstancesOf(p) # {}
               PROVE  IndexedRight(index', p) /\ index'.artifact[p].lane = lane[p]
    OBVIOUS
  <2>1. build.phase # "idle" /\ build.todo = {} /\ index' = build.index
    BY DEF IndexCommit
  <2>2. Handled(p)
    BY <2>1 DEF Handled
  <2> QED
    BY <2>1, <2>2 DEF QuietExact, ExactAt
<1> QED
  BY IndexQuietExact, <1>1, PTL DEF Spec, QuietBuildIsExact

-----------------------------------------------------------------------------
(* What IndexConverges rests on, once files, roots and lanes stay as the   *)
(* last scan found them: a quiet build settles the index, and no further   *)
(* build unsettles it.                                                     *)
AsScanned ==
  \A i \in Instance : available[i] # None => i \notin unrooted /\ file[i] = available[i]

IndexAtRest ==
  /\ AsScanned
  /\ IndexSettled
  /\ \A p \in Content : InstancesOf(p) # {} => LastInstanceOf(p) \in InstancesOf(p)
  /\ build.phase # "idle" => build.quiet

(* A quiet build that commits what the last scan found settles the index:  *)
(* of a paper whose instances are as they were scanned, the content is     *)
(* embedded that its hash was taken of.                                    *)
LEMMA QuietCommitSettles ==
  ASSUME QuietExact, IndexCommit, build.quiet, AsScanned
  PROVE  IndexAtRest'
<1>1. /\ UNCHANGED <<file, unrooted, lane, available>>
      /\ index' = build.index /\ build'.phase = "idle"
      /\ build.phase # "idle" /\ build.todo = {}
  BY DEF IndexCommit, IdleBuild
<1>2. \A p \in Content : InstancesOf(p)' = InstancesOf(p)
  BY <1>1 DEF InstancesOf
<1>3. \A p \in Content : LastInstanceOf(p)' = LastInstanceOf(p)
  BY <1>2 DEF LastInstanceOf
<1>4. AsScanned' /\ \A p \in Content : IndexedRight(index, p)' = IndexedRight(index', p)
  BY <1>1, <1>3 DEF AsScanned, IndexedRight
<1>5. ASSUME NEW p \in Content, InstancesOf(p) # {}
      PROVE  /\ LastInstanceOf(p) \in InstancesOf(p)
             /\ IndexedRight(index', p)
             /\ index'.chunks[p] # None => index'.chunks[p].text = p
  <2>1. ExactAt(build.index, p)
    BY <1>1, <1>5 DEF QuietExact, Handled
  <2>2. file[LastInstanceOf(p)] = p
    BY <2>1, IndexAssumption DEF ExactAt, InstancesOf, AsScanned
  <2> QED
    BY <1>1, <2>1, <2>2 DEF ExactAt, IndexedRight
<1> QED
  BY <1>1, <1>2, <1>3, <1>4, <1>5 DEF IndexAtRest, IndexSettled

(* Builds keep it settled: those that are killed or fail leave it alone.   *)
LEMMA BuildsKeepSettled ==
  ASSUME QuietExact, IndexStep \/ IndexCrash, IndexAtRest
  PROVE  IndexAtRest'
<1>1. CASE IndexCommit
  <2>1. build.quiet
    BY <1>1 DEF IndexCommit, IndexAtRest
  <2> QED
    BY <1>1, <2>1, QuietCommitSettles DEF IndexAtRest
<1>2. CASE ~IndexCommit
  <2>1. UNCHANGED <<file, unrooted, lane, available, index>>
    BY <1>2 DEF IndexStep, IndexCrash, IndexSelect, IndexQuarantine, IndexSkip,
                IndexExtract, IndexStore, IndexReadFails
  <2>2. \A p \in Content : InstancesOf(p)' = InstancesOf(p)
    BY <2>1 DEF InstancesOf
  <2>3. \A p \in Content : LastInstanceOf(p)' = LastInstanceOf(p)
    BY <2>2 DEF LastInstanceOf
  <2>4. /\ AsScanned' /\ IndexSettled'
        /\ \A p \in Content : (InstancesOf(p) # {} => LastInstanceOf(p) \in InstancesOf(p))'
    BY <2>1, <2>2, <2>3 DEF IndexAtRest, AsScanned, IndexSettled, IndexedRight
  <2>5. build'.phase # "idle" => build'.quiet
    BY <1>2 DEF IndexAtRest, IndexStep, IndexCrash, IndexSelect, IndexQuarantine,
                IndexSkip, IndexExtract, IndexStore, IndexReadFails, Write, IdleBuild
  <2> QED
    BY <2>4, <2>5 DEF IndexAtRest
<1> QED
  BY <1>1, <1>2

(* When files, roots and lanes stay as the last scan found them, the first *)
(* build that nothing disturbs settles the index, and it stays settled     *)
(* through any number of builds, the killed and the failed ones included.  *)
THEOREM IndexBuildsSettle ==
  Spec => [][/\ (IndexCommit /\ build.quiet /\ AsScanned) => IndexAtRest'
             /\ ((IndexStep \/ IndexCrash) /\ IndexAtRest) => IndexAtRest']_vars
<1>1. QuietExact =>
        /\ (IndexCommit /\ build.quiet /\ AsScanned) => IndexAtRest'
        /\ ((IndexStep \/ IndexCrash) /\ IndexAtRest) => IndexAtRest'
  BY QuietCommitSettles, BuildsKeepSettled
<1> QED
  BY IndexQuietExact, <1>1, PTL

=============================================================================
