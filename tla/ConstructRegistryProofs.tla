------------------------ MODULE ConstructRegistryProofs ------------------------
(***************************************************************************)
(* What reviewers decided about construct candidates outlives any number   *)
(* of rebuilds, and builds that nothing disturbs make the map true and     *)
(* keep it so, for every set of papers and terms.                          *)
(***************************************************************************)
EXTENDS ConstructRegistry, TLAPS

(* An upsert leaves a candidate that exists as it is, and makes a pending  *)
(* one otherwise.                                                          *)
LEMMA UpsertFacts ==
  ASSUME TypeOK, NEW k \in Line
  PROVE  /\ UpsertCandidate(k) \in CandidateRow
         /\ k \in Present => UpsertCandidate(k) = candidates[k]
<1>1. candidates[k] \in CandidateRow \cup {None}
  BY DEF TypeOK
<1>2. k.term \in Term
  BY DEF Line
<1>3. CASE k \in Present
  BY <1>1, <1>3 DEF UpsertCandidate, Present
<1>4. CASE k \notin Present
  BY <1>2, <1>4 DEF UpsertCandidate, CandidateRow
<1> QED
  BY <1>3, <1>4

(* A decision is pending no more, stays in its construct or approves it    *)
(* elsewhere, and changes no other row.                                    *)
Decision(k, row) ==
  /\ row \in CandidateRow /\ row.status # "pending"
  /\ row.construct = candidates[k].construct \/ row.status = "approved"
  /\ candidates' = [candidates EXCEPT ![k] = row]
  /\ UNCHANGED <<manifest, registry, reading, graph, exported>>
  /\ changes < MaxChanges /\ changes' = changes + 1

(* Writing a decision leaves a row of which the command is a change.       *)
LEMMA DecideFacts ==
  ASSUME TypeOK, NEW k \in Line, NEW row, Decide(k, row),
         \/ row = [candidates[k] EXCEPT !.status = "approved"]
         \/ row = [candidates[k] EXCEPT !.status = "rejected"]
         \/ \E c \in Term : row = [construct |-> c, status |-> "approved"]
  PROVE  Decision(k, row)
<1>1. k \in Present /\ candidates[k] \in CandidateRow
  BY DEF TypeOK, Decide, Present
<1>2. /\ row \in CandidateRow /\ row.status # "pending"
      /\ row.construct = candidates[k].construct \/ row.status = "approved"
  BY <1>1 DEF CandidateRow
<1> QED
  BY <1>2 DEF Decide, Decision

(* So does every command of a reviewer.                                    *)
LEMMA CommandsDecide ==
  ASSUME TypeOK, NEW k \in Line,
         \/ ConstructApprove(k) \/ ConstructReject(k)
         \/ \E c \in Term : ConstructReassign(k, c)
  PROVE  \E row \in CandidateRow : Decision(k, row)
<1>1. ASSUME NEW row, Decision(k, row)
      PROVE  \E r \in CandidateRow : Decision(k, r)
  BY <1>1 DEF Decision
<1>2. CASE ConstructApprove(k)
  <2>1. Decision(k, [candidates[k] EXCEPT !.status = "approved"])
    BY <1>2, DecideFacts DEF ConstructApprove
  <2> QED
    BY <1>1, <2>1
<1>3. CASE ConstructReject(k)
  <2>1. Decision(k, [candidates[k] EXCEPT !.status = "rejected"])
    BY <1>3, DecideFacts DEF ConstructReject
  <2> QED
    BY <1>1, <2>1
<1>4. ASSUME NEW c \in Term, ConstructReassign(k, c)
      PROVE  \E row \in CandidateRow : Decision(k, row)
  <2>1. Decision(k, [construct |-> c, status |-> "approved"])
    BY <1>4, DecideFacts DEF ConstructReassign
  <2> QED
    BY <1>1, <2>1
<1> QED
  BY <1>2, <1>3, <1>4

-----------------------------------------------------------------------------
(* Each command, and each change of lanes and index, keeps the types.      *)
LEMMA TypeKeeps ==
  ASSUME TypeOK, [Next]_vars
  PROVE  TypeOK'
<1>0. changes < MaxChanges => changes + 1 \in 0..MaxChanges
  BY ConstructAssumption DEF TypeOK
<1>1. CASE ConstructRead
  <2>1. UNION {text[p] : p \in Paper} \in SUBSET Line
    BY DEF TypeOK
  <2> QED
    BY <1>1, <2>1 DEF ConstructRead, TypeOK, manifest, graph
<1>2. CASE ConstructUpsert
  <2>1. reading \in SUBSET Line /\ reading' = None
    BY <1>2 DEF ConstructUpsert, TypeOK
  <2>2. registry' \subseteq Term
    BY <1>2, <2>1 DEF ConstructUpsert, TypeOK, Line
  <2>3. candidates' \in [Line -> {None} \cup CandidateRow]
    BY <1>2, UpsertFacts DEF ConstructUpsert, TypeOK
  <2> QED
    BY <1>2, <2>1, <2>2, <2>3 DEF ConstructUpsert, TypeOK, manifest, graph
<1>3. CASE ConstructBuildFails
  BY <1>0, <1>3 DEF ConstructBuildFails, TypeOK, manifest, graph
<1>4. ASSUME NEW k \in Line,
             \/ ConstructApprove(k) \/ ConstructReject(k)
             \/ \E c \in Term : ConstructReassign(k, c)
      PROVE  TypeOK'
  <2>1. PICK row \in CandidateRow : Decision(k, row)
    BY <1>4, CommandsDecide
  <2> QED
    BY <1>0, <2>1 DEF Decision, TypeOK, manifest, graph
<1>5. CASE MapBuild
  <2>1. paperNodes' \in [Paper -> {None, Masked, "shown"}]
    BY <1>5 DEF MapBuild
  <2>2. constructNodes' \in [Term -> Term \cup {None, Masked}]
    BY <1>5 DEF MapBuild
  <2>3. edges' \subseteq [paper : Paper, construct : Term]
    <3>1. \A k \in Present : k.paper \in Paper /\ candidates[k].construct \in Term
      BY DEF TypeOK, Present, Line, CandidateRow
    <3> QED
      BY <1>5, <3>1 DEF MapBuild, TypeOK
  <2> QED
    BY <1>5, <2>1, <2>2, <2>3 DEF MapBuild, TypeOK, manifest
<1>6. CASE ConstructExport
  <2>1. exported' \subseteq Line
    BY <1>6 DEF ConstructExport, CandidatesOf, Present
  <2> QED
    BY <1>6, <2>1 DEF ConstructExport, TypeOK, manifest, graph
<1>7. ASSUME NEW p \in Paper, NEW l \in Lane, ChangeLane(p, l)
      PROVE  TypeOK'
  BY <1>0, <1>7 DEF ChangeLane, TypeOK, graph
<1>8. ASSUME NEW p \in Paper, NEW lines \in SUBSET Line, Reindex(p, lines)
      PROVE  TypeOK'
  BY <1>0, <1>8 DEF Reindex, TypeOK, graph
<1>9. CASE UNCHANGED vars
  BY <1>9 DEF vars, TypeOK, graph
<1> QED
  BY <1>1, <1>2, <1>3, <1>4, <1>5, <1>6, <1>7, <1>8, <1>9 DEF Next

(* Lanes, index, candidates and map have their types.                      *)
THEOREM ConstructTypeCorrect == Spec => []TypeOK
<1>1. Init => TypeOK
  BY ConstructAssumption DEF Init, TypeOK, Lane
<1> QED
  BY <1>1, TypeKeeps, PTL DEF Spec

(* A rebuild undoes no decision: a candidate is never removed, never       *)
(* pending again, and leaves its construct only for an approved one.       *)
THEOREM ConstructDecisionsSurvive == Spec => DecisionsSurviveRebuild
<1> DEFINE Survives(k) ==
      /\ candidates'[k] # None
      /\ candidates'[k].status = "pending" => candidates'[k] = candidates[k]
      /\ candidates'[k].construct # candidates[k].construct =>
           candidates'[k].status = "approved"
<1>1. TypeOK /\ [Next]_vars => [\A k \in Present : Survives(k)]_vars
  <2> SUFFICES ASSUME TypeOK, Next, NEW k \in Present
               PROVE  Survives(k)
    OBVIOUS
  <2>1. /\ k \in Line /\ candidates[k] # None
        /\ candidates \in [Line -> {None} \cup CandidateRow]
    BY DEF TypeOK, Present
  <2>2. CASE candidates' = candidates
    BY <2>1, <2>2
  <2>3. CASE ConstructUpsert
    <3>1. candidates'[k] = candidates[k]
      BY <2>1, <2>3, UpsertFacts DEF ConstructUpsert
    <3> QED
      BY <2>1, <3>1
  <2>4. ASSUME NEW j \in Line,
               \/ ConstructApprove(j) \/ ConstructReject(j)
               \/ \E c \in Term : ConstructReassign(j, c)
        PROVE  Survives(k)
    <3>1. PICK row \in CandidateRow : Decision(j, row)
      BY <2>4, CommandsDecide
    <3>2. CASE j = k
      BY <2>1, <3>1, <3>2, ConstructAssumption DEF Decision
    <3>3. CASE j # k
      BY <2>1, <3>1, <3>3 DEF Decision
    <3> QED
      BY <3>2, <3>3
  <2> QED
    BY <2>2, <2>3, <2>4 DEF Next, ConstructRead, ConstructBuildFails, MapBuild,
       ConstructExport, ChangeLane, Reindex
<1> QED
  BY <1>1, ConstructTypeCorrect, PTL DEF Spec, DecisionsSurviveRebuild

-----------------------------------------------------------------------------
(* What MapConverges rests on, once lanes, index and decisions stay as     *)
(* they are: a constructs build makes candidates of all that is indexed,   *)
(* the next map is true, and no build changes either any more.             *)
Covered ==
  /\ UNION {text[p] : p \in Paper} \subseteq Present
  /\ reading # None => reading \subseteq Present

MapAtRest == MapIsTrue /\ Covered

Builds ==
  \/ ConstructRead \/ ConstructUpsert \/ ConstructBuildFails
  \/ MapBuild \/ ConstructExport

(* An upsert removes no candidate, changes none, and leaves none of the    *)
(* lines it has read without one.                                          *)
LEMMA UpsertAdds ==
  ASSUME TypeOK, ConstructUpsert
  PROVE  /\ Present' = Present \cup reading
         /\ \A k \in Present : candidates'[k] = candidates[k]
<1>1. reading \in SUBSET Line /\ candidates \in [Line -> {None} \cup CandidateRow]
  BY DEF ConstructUpsert, TypeOK
<1>2. ASSUME NEW k \in Line
      PROVE  candidates'[k] = IF k \in reading THEN UpsertCandidate(k) ELSE candidates[k]
  BY <1>1, <1>2 DEF ConstructUpsert
<1>3. \A k \in Line : UpsertCandidate(k) # None
  BY UpsertFacts, ConstructAssumption
<1>4. \A k \in Line : candidates'[k] # None <=> k \in Present \/ k \in reading
  BY <1>2, <1>3 DEF Present
<1>5. Present \subseteq Line
  BY DEF Present
<1>6. Present' = Present \cup reading
  BY <1>1, <1>4, <1>5 DEF Present
<1>7. ASSUME NEW k \in Present
      PROVE  candidates'[k] = candidates[k]
  BY <1>2, <1>5, UpsertFacts
<1> QED
  BY <1>6, <1>7

(* While only builds run, what is indexed stays covered.                   *)
LEMMA BuildsCover ==
  ASSUME TypeOK, Builds, Covered
  PROVE  Covered'
<1>1. CASE ConstructRead
  BY <1>1 DEF ConstructRead, Covered, Present, manifest
<1>2. CASE ConstructUpsert
  <2>1. text' = text /\ reading' = None
    BY <1>2 DEF ConstructUpsert, manifest
  <2> QED
    BY <1>2, <2>1, UpsertAdds DEF Covered
<1>3. CASE ConstructBuildFails \/ MapBuild \/ ConstructExport
  BY <1>3 DEF ConstructBuildFails, MapBuild, ConstructExport, Covered, Present, manifest
<1> QED
  BY <1>1, <1>2, <1>3 DEF Builds

(* A map that is drawn when the index is covered is true.                  *)
LEMMA MapBuildIsTrue ==
  ASSUME TypeOK, MapBuild, UNION {text[p] : p \in Paper} \subseteq Present
  PROVE  MapIsTrue'
<1>1. /\ UNCHANGED <<lane, text, candidates>>
      /\ Present' = Present
      /\ \A c \in Term : CandidatesOf(c)' = CandidatesOf(c)
  BY DEF MapBuild, manifest, Present, CandidatesOf
<1>2. \A k \in Present : Drawn(k)'
  BY <1>1 DEF MapBuild, Drawn
<1>3. \A k \in UNION {text'[p] : p \in Paper} : k \in Present'
  BY <1>1
<1>4. \A p \in Paper : paperNodes'[p] = Masked <=> lane'[p] = "red"
  BY <1>1 DEF MapBuild, Masked
<1>5. ASSUME NEW c \in Term
      PROVE  LET lanes == {lane'[k.paper] : k \in CandidatesOf(c)'}
             IN /\ lanes = {"red"} => constructNodes'[c] = Masked
                /\ (lanes # {} /\ "red" \notin lanes) => constructNodes'[c] \in Term
  <2> DEFINE lanes == {lane'[k.paper] : k \in CandidatesOf(c)'}
  <2>1. lanes = {lane[k.paper] : k \in CandidatesOf(c)}
    BY <1>1
  <2>2. constructNodes'[c] \in ConstructLabels(c)
    BY DEF MapBuild
  <2>3. CandidatesOf(c) # {} =>
          \E k \in CandidatesOf(c) : constructNodes'[c] = LabelFor(k)
    BY <2>2 DEF ConstructLabels, LastCandidates
  <2>4. \A k \in CandidatesOf(c) : k.term \in Term /\ lane[k.paper] \in lanes
    BY <2>1 DEF CandidatesOf, Present, Line
  <2>5. lanes # {} => CandidatesOf(c) # {}
    BY <2>1
  <2> HIDE DEF lanes
  <2>6. /\ lanes = {"red"} => constructNodes'[c] = Masked
        /\ (lanes # {} /\ "red" \notin lanes) => constructNodes'[c] \in Term
    BY <2>3, <2>4, <2>5 DEF LabelFor
  <2> QED
    BY <2>6 DEF lanes
<1> QED
  BY <1>1, <1>2, <1>3, <1>4, <1>5 DEF MapIsTrue

(* Builds keep a true map true, if what they have read is covered.         *)
LEMMA BuildsKeepMap ==
  ASSUME TypeOK, Builds, MapAtRest
  PROVE  MapAtRest'
<1>1. Covered'
  BY BuildsCover DEF MapAtRest
<1>2. CASE MapBuild
  BY <1>1, <1>2, MapBuildIsTrue DEF MapAtRest, Covered
<1>3. CASE ~MapBuild
  <2>1. UNCHANGED <<lane, text, paperNodes, constructNodes, edges>>
    BY <1>3 DEF Builds, ConstructRead, ConstructUpsert, ConstructBuildFails,
                ConstructExport, manifest, graph
  <2>2. Present' = Present /\ \A k \in Present : candidates'[k] = candidates[k]
    <3>1. CASE ConstructUpsert
      <4>1. reading \subseteq Present
        BY <3>1 DEF ConstructUpsert, MapAtRest, Covered
      <4> QED
        BY <3>1, <4>1, UpsertAdds
    <3>2. CASE ~ConstructUpsert
      <4>1. candidates' = candidates
        BY <1>3, <3>2 DEF Builds, ConstructRead, ConstructBuildFails, ConstructExport
      <4> QED
        BY <4>1 DEF Present
    <3> QED
      BY <3>1, <3>2
  <2>3. /\ \A k \in Present : Drawn(k)' = Drawn(k)
        /\ \A c \in Term : CandidatesOf(c)' = CandidatesOf(c)
    BY <2>1, <2>2 DEF Drawn, CandidatesOf
  <2>4. MapIsTrue'
    BY <2>1, <2>2, <2>3 DEF MapAtRest, MapIsTrue
  <2> QED
    BY <1>1, <2>4 DEF MapAtRest
<1> QED
  BY <1>2, <1>3

(* When lanes, index and decisions stay as they are, the upsert of an      *)
(* up-to-date reading covers the index, the map that is built then is      *)
(* true, and it stays true through any number of builds and exports.       *)
THEOREM ConstructBuildsSettleMap ==
  Spec => [][/\ (ConstructUpsert /\ UNION {text[p] : p \in Paper} \subseteq reading) =>
                  Covered'
             /\ (Builds /\ Covered) => Covered'
             /\ (MapBuild /\ Covered) => MapAtRest'
             /\ (Builds /\ MapAtRest) => MapAtRest']_vars
<1>1. ASSUME TypeOK, ConstructUpsert, UNION {text[p] : p \in Paper} \subseteq reading
      PROVE  Covered'
  <2>1. text' = text /\ reading' = None
    BY <1>1 DEF ConstructUpsert, manifest
  <2> QED
    BY <1>1, <2>1, UpsertAdds DEF Covered
<1>2. ASSUME TypeOK, MapBuild, Covered
      PROVE  MapAtRest'
  BY <1>2, MapBuildIsTrue, BuildsCover DEF MapAtRest, Covered, Builds
<1>3. TypeOK =>
        /\ (ConstructUpsert /\ UNION {text[p] : p \in Paper} \subseteq reading) => Covered'
        /\ (Builds /\ Covered) => Covered'
        /\ (MapBuild /\ Covered) => MapAtRest'
        /\ (Builds /\ MapAtRest) => MapAtRest'
  BY <1>1, <1>2, BuildsCover, BuildsKeepMap
<1> QED
  BY <1>3, ConstructTypeCorrect, PTL

=============================================================================
