-------------------------- MODULE DeduplicationProofs --------------------------
(***************************************************************************)
(* The union-find of deduplicate_papers is well-typed and free of cycles,  *)
(* cannot run for ever, and the groups it ends with are the connected      *)
(* candidates, for any number of candidates, any keys and any manifest.    *)
(***************************************************************************)
EXTENDS Deduplication, FiniteSetTheorems, WellFoundedInduction, TLAPS

(* While the candidates are read, the current one and those after it are   *)
(* still roots, and nothing before it points beyond it.                    *)
Reading ==
  loop.phase \in {"keys", "find"} =>
    /\ \A i \in Index : i >= loop.index => parents[i] = i
    /\ \A i \in Index : i < loop.index => parents[i] <= loop.index
    /\ \A k \in Key : owners[k] \in Index => owners[k] <= loop.index
    /\ loop.phase = "find" => loop.left = loop.index /\ loop.right <= loop.index

IInv == TypeOK /\ ParentsClimb /\ Reading

-----------------------------------------------------------------------------
(* Nothing is joined and no key is owned when the first candidate is read. *)
LEMMA InitInv == Init => IInv
<1> SUFFICES ASSUME Init PROVE IInv
  OBVIOUS
<1> USE DedupAssumption DEF Init, Index
<1>1. 1 \in Index
  OBVIOUS
<1>2. evidence[1] \in SUBSET Key
  BY <1>1 DEF Evidence
<1>3. TypeOK
  BY <1>2 DEF TypeOK, LoopState
<1>4. ParentsClimb
  BY DEF ParentsClimb
<1>5. Reading
  BY DEF Reading
<1> QED
  BY <1>3, <1>4, <1>5 DEF IInv

(* What ClaimKey, RefuseKey and JoinKey do to the loop keeps its type.     *)
LEMMA TakeKeyInv ==
  ASSUME NEW k \in Key, IInv, TakeKey(k),
         ClaimKey(k) \/ RefuseKey(k) \/ JoinKey(k)
  PROVE  IInv'
<1> USE DedupAssumption DEF IInv, TakeKey
<1>1. CASE ClaimKey(k)
  <2>1. TypeOK'
    BY <1>1 DEF ClaimKey, TypeOK, LoopState
  <2>2. ParentsClimb'
    BY <1>1 DEF ClaimKey, ParentsClimb
  <2>3. Reading'
    BY <1>1 DEF ClaimKey, Reading, TypeOK, LoopState, Index
  <2> QED
    BY <2>1, <2>2, <2>3
<1>2. CASE RefuseKey(k)
  <2>1. TypeOK'
    BY <1>2 DEF RefuseKey, TypeOK, LoopState
  <2>2. ParentsClimb'
    BY <1>2 DEF RefuseKey, ParentsClimb
  <2>3. Reading'
    BY <1>2 DEF RefuseKey, Reading, TypeOK, LoopState, Index
  <2> QED
    BY <2>1, <2>2, <2>3
<1>3. CASE JoinKey(k)
  <2>1. owners[k] \in Index
    BY <1>3 DEF JoinKey, TypeOK
  <2>2. TypeOK'
    BY <1>3, <2>1 DEF JoinKey, TypeOK, LoopState
  <2>3. ParentsClimb'
    BY <1>3 DEF JoinKey, ParentsClimb
  <2>4. Reading'
    BY <1>3, <2>1 DEF JoinKey, Reading, TypeOK, LoopState, Index
  <2> QED
    BY <2>2, <2>3, <2>4
<1> QED
  BY <1>1, <1>2, <1>3

(* The walk to the roots stays at or below the current candidate.          *)
LEMMA FindRootsInv == IInv /\ FindRoots => IInv'
<1> SUFFICES ASSUME IInv, FindRoots PROVE IInv'
  OBVIOUS
<1> USE DedupAssumption DEF IInv, FindRoots
<1>1. loop.left \in Index /\ loop.right \in Index /\ loop.index \in Index
  BY DEF TypeOK, LoopState
<1>2. parents[loop.left] \in Index /\ parents[loop.right] \in Index
  BY <1>1 DEF TypeOK
<1>3. TypeOK'
  BY <1>2 DEF TypeOK, LoopState
<1>4. ParentsClimb'
  BY DEF ParentsClimb
<1>5. parents[loop.left] = loop.index /\ parents[loop.right] <= loop.index
  BY <1>1 DEF Reading, Index
<1>6. Reading'
  BY <1>1, <1>5 DEF Reading, TypeOK, LoopState
<1> QED
  BY <1>3, <1>4, <1>6

(* The root that is linked is the earlier one.                             *)
LEMMA UnionInv == IInv /\ Union => IInv'
<1> SUFFICES ASSUME IInv, Union PROVE IInv'
  OBVIOUS
<1> USE DedupAssumption DEF IInv, Union, LinkRoots
<1>1. loop.left \in Index /\ loop.right \in Index /\ loop.index \in Index
  BY DEF TypeOK, LoopState
<1>2. loop.left = loop.index /\ loop.right <= loop.index
  BY DEF Reading
<1>3. TypeOK'
  BY <1>1 DEF TypeOK, LoopState
<1>4. \A i \in Index : parents'[i] = parents[i] \/ (i = loop.right /\ parents'[i] = loop.left)
  BY <1>1 DEF TypeOK
<1>5. ParentsClimb'
  BY <1>1, <1>2, <1>4 DEF ParentsClimb, Index
<1>6. \A i \in Index : i >= loop.index => parents'[i] = i
  BY <1>1, <1>2, <1>4 DEF Reading, Index
<1>7. \A i \in Index : i < loop.index => parents'[i] <= loop.index
  BY <1>1, <1>2, <1>4 DEF Reading, Index
<1>8. loop'.index = loop.index /\ loop'.phase = "keys" /\ owners' = owners
  BY DEF TypeOK, LoopState
<1>9. Reading'
  BY <1>6, <1>7, <1>8 DEF Reading
<1> QED
  BY <1>3, <1>5, <1>9

(* The next candidate is a root, and all others are before it or after it. *)
LEMMA NextCandidateInv == IInv /\ NextCandidate => IInv'
<1> SUFFICES ASSUME IInv, NextCandidate PROVE IInv'
  OBVIOUS
<1> USE DedupAssumption DEF IInv, NextCandidate
<1>1. ParentsClimb'
  BY DEF ParentsClimb
<1>2. CASE loop.index < N
  <2>1. loop.index + 1 \in Index
    BY <1>2 DEF TypeOK, LoopState, Index
  <2>2. evidence[loop.index + 1] \in SUBSET Key
    BY <2>1 DEF TypeOK, Evidence
  <2>3. loop' = [loop EXCEPT !.index = @ + 1, !.todo = evidence[loop.index + 1]]
    BY <1>2
  <2>4. TypeOK'
    BY <2>1, <2>2, <2>3 DEF TypeOK, LoopState
  <2>5. loop.index \in Nat /\ \A i \in Index : i \in Nat /\ parents[i] \in Nat
    BY DEF TypeOK, LoopState, Index
  <2>6. /\ \A i \in Index : i >= loop.index => parents[i] = i
        /\ \A i \in Index : i < loop.index => parents[i] <= loop.index
        /\ \A k \in Key : owners[k] \in Index => owners[k] <= loop.index
    BY DEF Reading
  <2>7. loop'.index = loop.index + 1 /\ loop'.phase = "keys"
    BY <2>3 DEF TypeOK, LoopState
  <2>8. \A i \in Index : i >= loop'.index => parents'[i] = i
    BY <2>5, <2>6, <2>7
  <2>9. \A i \in Index : i < loop'.index => parents'[i] <= loop'.index
    BY <2>5, <2>6, <2>7
  <2>10. \A k \in Key : owners'[k] \in Index => owners'[k] <= loop'.index
    BY <2>5, <2>6, <2>7
  <2>11. Reading'
    BY <2>7, <2>8, <2>9, <2>10 DEF Reading
  <2> QED
    BY <1>1, <2>4, <2>11
<1>3. CASE ~(loop.index < N)
  <2>1. loop' = [loop EXCEPT !.phase = "group", !.index = 1, !.left = 1]
    BY <1>3
  <2>2. 1 \in Index
    BY DEF Index
  <2>3. TypeOK'
    BY <2>1, <2>2 DEF TypeOK, LoopState
  <2>4. Reading'
    BY <2>1 DEF Reading, TypeOK, LoopState
  <2> QED
    BY <1>1, <2>3, <2>4
<1> QED
  BY <1>2, <1>3

(* The last loop only reads the parents.                                   *)
LEMMA GroupInv == IInv /\ (FindGroup \/ AssignGroup) => IInv'
<1> SUFFICES ASSUME IInv, FindGroup \/ AssignGroup PROVE IInv'
  OBVIOUS
<1> USE DedupAssumption DEF IInv
<1>1. loop.left \in Index /\ loop.index \in Index /\ parents[loop.left] \in Index
  BY DEF TypeOK, LoopState
<1>2. CASE FindGroup
  <2>1. TypeOK'
    BY <1>1, <1>2 DEF FindGroup, TypeOK, LoopState
  <2>2. ParentsClimb' /\ Reading'
    BY <1>2 DEF FindGroup, ParentsClimb, Reading, TypeOK, LoopState
  <2> QED
    BY <2>1, <2>2
<1>3. CASE AssignGroup
  <2>1. loop.index < N => loop.index + 1 \in Index
    BY <1>1 DEF Index
  <2>2. loop' \in LoopState
    BY <1>3, <2>1 DEF AssignGroup, TypeOK, LoopState
  <2>3. TypeOK'
    BY <1>1, <1>3, <2>2 DEF AssignGroup, TypeOK
  <2>4. loop'.phase \in {"group", "done"}
    BY <1>3 DEF AssignGroup, TypeOK, LoopState
  <2>5. ParentsClimb' /\ Reading'
    BY <1>3, <2>4 DEF AssignGroup, ParentsClimb, Reading
  <2> QED
    BY <2>3, <2>5
<1> QED
  BY <1>2, <1>3

-----------------------------------------------------------------------------
(* Each step keeps it.                                                     *)
LEMMA DedupNext == IInv /\ [Next]_vars => IInv'
<1> SUFFICES ASSUME IInv, [Next]_vars PROVE IInv'
  OBVIOUS
<1>1. ASSUME NEW k \in Key, ClaimKey(k) \/ RefuseKey(k) \/ JoinKey(k) PROVE IInv'
  <2>1. TakeKey(k)
    BY <1>1 DEF ClaimKey, RefuseKey, JoinKey
  <2> QED
    BY <1>1, <2>1, TakeKeyInv
<1>2. CASE UNCHANGED vars
  BY <1>2 DEF vars, IInv, TypeOK, ParentsClimb, Reading
<1> QED
  BY <1>1, <1>2, FindRootsInv, UnionInv, NextCandidateInv, GroupInv DEF Next

(* The inductive invariant of the union-find.                              *)
THEOREM DedupInductive == Spec => []IInv
BY InitInv, DedupNext, PTL DEF Spec

(* Evidence, parents, owners, groups and loop have their types.            *)
THEOREM DedupTypeCorrect == Spec => []TypeOK
<1>1. IInv => TypeOK
  BY DEF IInv
<1> QED
  BY DedupInductive, <1>1, PTL

(* A parent is never an earlier candidate, so that _find, which follows    *)
(* the parents until one is its own, cannot run in a circle.               *)
THEOREM DedupParentsClimb == Spec => []ParentsClimb
<1>1. IInv => ParentsClimb
  BY DEF IInv
<1> QED
  BY DedupInductive, <1>1, PTL

-----------------------------------------------------------------------------
(* The groups.  A set of candidates respects the joins if it splits no     *)
(* joined pair, and the parents if it splits no tree: that the groups are  *)
(* the connected candidates means that these are the same sets.            *)

FirstWith(k, i) == k \in evidence[i] /\ \A j \in 1..(i - 1) : k \notin evidence[j]

(* The key k of candidate i has had its turn.                              *)
Taken(i, k) ==
  /\ k \in evidence[i]
  /\ \/ loop.phase \in {"group", "done"}
     \/ i < loop.index
     \/ i = loop.index /\ k \notin loop.todo

Owners ==
  /\ loop.phase \in {"keys", "find"} => loop.todo \subseteq evidence[loop.index]
  /\ \A k \in Key : owners[k] # None => FirstWith(k, owners[k]) /\ Taken(owners[k], k)
  /\ \A k \in Key, i \in Index : Taken(i, k) => owners[k] # None

RespectsJoins(S) ==
  \A i, first \in Index : Joined(i, first) => (i \in S <=> first \in S)

RespectsParents(S) == \A i \in Index : i \in S <=> parents[i] \in S

(* The two trees that are being joined.                                    *)
RespectsFind(S) == loop.phase = "find" => (loop.left \in S <=> loop.right \in S)

Sound ==
  \A S \in SUBSET Index : RespectsJoins(S) => RespectsParents(S) /\ RespectsFind(S)

Complete ==
  \A S \in SUBSET Index : (RespectsParents(S) /\ RespectsFind(S)) =>
    \A i \in Index, k \in Key :
      (Taken(i, k) /\ CanShareIdentity(i, owners[k])) => (i \in S <=> owners[k] \in S)

(* A candidate and its group are in the same tree, whose root is the group. *)
SameTree(i, j) == \A S \in SUBSET Index : RespectsParents(S) => (i \in S <=> j \in S)

Grouping ==
  /\ loop.phase = "group" =>
       /\ SameTree(loop.index, loop.left)
       /\ \A i \in Index : i < loop.index => groups[i] # None
  /\ loop.phase = "done" => \A i \in Index : groups[i] # None
  /\ \A i \in Index : groups[i] # None =>
       loop.phase \in {"group", "done"} /\ IsRoot(groups[i]) /\ SameTree(i, groups[i])

GInv == IInv /\ Owners /\ Sound /\ Complete /\ Grouping

-----------------------------------------------------------------------------
(* What a step does to the keys that have had their turn: ...              *)
LEMMA KeyHadItsTurn ==
  ASSUME IInv, Owners, NEW k \in Key, ClaimKey(k) \/ RefuseKey(k) \/ JoinKey(k)
  PROVE  \A i \in Index, j \in Key :
           Taken(i, j)' <=> Taken(i, j) \/ (i = loop.index /\ j = k)
<1>1. /\ loop.phase = "keys" /\ k \in loop.todo /\ k \in evidence[loop.index]
      /\ loop \in LoopState
  BY DEF IInv, TypeOK, Owners, ClaimKey, RefuseKey, JoinKey, TakeKey
<1>2. loop'.phase \in {"keys", "find"} /\ loop'.index = loop.index /\ loop'.todo = loop.todo \ {k}
  BY <1>1 DEF ClaimKey, RefuseKey, JoinKey, LoopState
<1>3. evidence' = evidence
  BY DEF ClaimKey, RefuseKey, JoinKey
<1> QED
  BY <1>1, <1>2, <1>3, DedupAssumption DEF Taken, LoopState, Index

(* ... the other steps do nothing.                                         *)
LEMMA NoKeyHasItsTurn ==
  ASSUME IInv,
         FindRoots \/ Union \/ NextCandidate \/ FindGroup \/ AssignGroup \/ UNCHANGED vars
  PROVE  \A i \in Index, j \in Key : Taken(i, j)' <=> Taken(i, j)
<1>0. loop \in LoopState /\ N \in Nat
  BY DedupAssumption DEF IInv, TypeOK
<1>1. CASE FindRoots \/ Union
  <2>1. /\ loop'.phase \in {"keys", "find"} /\ loop.phase = "find"
        /\ loop'.index = loop.index /\ loop'.todo = loop.todo /\ evidence' = evidence
    BY <1>0, <1>1 DEF FindRoots, Union, LoopState
  <2> QED
    BY <2>1 DEF Taken
<1>2. CASE NextCandidate
  <2>1. loop.phase = "keys" /\ loop.todo = {} /\ evidence' = evidence /\ loop.index \in Index
    BY <1>0, <1>2 DEF NextCandidate, LoopState
  <2>2. CASE loop.index < N
    <3>1. /\ loop'.phase = "keys" /\ loop'.index = loop.index + 1
          /\ loop'.todo = evidence[loop.index + 1]
      BY <1>0, <1>2, <2>2 DEF NextCandidate, LoopState
    <3> QED
      BY <2>1, <3>1 DEF Taken, Index
  <2>3. CASE ~(loop.index < N)
    <3>1. loop'.phase = "group" /\ loop.index = N
      BY <1>0, <1>2, <2>1, <2>3 DEF NextCandidate, LoopState, Index
    <3> QED
      BY <1>0, <2>1, <3>1 DEF Taken, Index
  <2> QED
    BY <2>2, <2>3
<1>3. CASE FindGroup \/ AssignGroup
  <2>1. loop'.phase \in {"group", "done"} /\ loop.phase = "group" /\ evidence' = evidence
    BY <1>0, <1>3 DEF FindGroup, AssignGroup, LoopState
  <2> QED
    BY <2>1 DEF Taken
<1>4. CASE UNCHANGED vars
  BY <1>4 DEF vars, Taken
<1> QED
  BY <1>1, <1>2, <1>3, <1>4

(* The owner of a key is the first candidate with it.                      *)
LEMMA OwnersStep ==
  ASSUME IInv, Owners, [Next]_vars
  PROVE  Owners'
<1>0. /\ loop \in LoopState /\ loop.index \in Index /\ N \in Nat
      /\ evidence \in [Index -> Evidence] /\ owners \in [Key -> Index \cup {None}]
      /\ None \notin Index
  BY DedupAssumption DEF IInv, TypeOK, LoopState, Index
<1>1. ASSUME NEW k \in Key, ClaimKey(k) \/ RefuseKey(k) \/ JoinKey(k)
      PROVE  Owners'
  <2>1. /\ loop.phase = "keys" /\ k \in loop.todo /\ k \in evidence[loop.index]
        /\ loop.todo \subseteq evidence[loop.index] /\ evidence' = evidence
        /\ loop'.index = loop.index /\ loop'.todo = loop.todo \ {k}
    BY <1>0, <1>1 DEF Owners, ClaimKey, RefuseKey, JoinKey, TakeKey, LoopState
  <2>2. \A i \in Index, j \in Key :
          Taken(i, j)' <=> Taken(i, j) \/ (i = loop.index /\ j = k)
    BY <1>1, KeyHadItsTurn
  <2>3. CASE ClaimKey(k)
    <3>1. owners[k] = None /\ owners' = [owners EXCEPT ![k] = loop.index]
      BY <2>3 DEF ClaimKey
    <3>2. \A j \in 1..(loop.index - 1) : k \notin evidence[j]
      <4> SUFFICES ASSUME NEW j \in 1..(loop.index - 1), k \in evidence[j] PROVE FALSE
        OBVIOUS
      <4>1. j \in Index /\ j < loop.index
        BY <1>0 DEF Index
      <4>2. Taken(j, k)
        BY <4>1 DEF Taken
      <4> QED
        BY <3>1, <4>1, <4>2 DEF Owners
    <3>3. FirstWith(k, loop.index)
      BY <2>1, <3>2 DEF FirstWith
    <3>4. ASSUME NEW j \in Key, owners'[j] # None
          PROVE  FirstWith(j, owners[j])' /\ Taken(owners[j], j)'
      <4>1. CASE j = k
        BY <1>0, <2>1, <2>2, <3>1, <3>3, <4>1 DEF FirstWith
      <4>2. CASE j # k
        <5>1. owners'[j] = owners[j] /\ owners[j] \in Index
          BY <1>0, <3>1, <3>4, <4>2
        <5>2. FirstWith(j, owners[j]) /\ Taken(owners[j], j)
          BY <1>0, <5>1 DEF Owners
        <5>3. Taken(owners[j], j)'
          BY <2>2, <5>1, <5>2 DEF Taken
        <5> QED
          BY <2>1, <5>1, <5>2, <2>2 DEF FirstWith, Taken
      <4> QED
        BY <4>1, <4>2
    <3>5. \A j \in Key, i \in Index : Taken(i, j)' => owners'[j] # None
      BY <1>0, <2>2, <3>1 DEF Owners
    <3> QED
      BY <2>1, <3>4, <3>5 DEF Owners
  <2>4. CASE RefuseKey(k) \/ JoinKey(k)
    <3>1. owners' = owners /\ owners[k] # None
      BY <2>4 DEF RefuseKey, JoinKey
    <3>2. \A j \in Key : owners[j] # None =>
            owners[j] \in Index /\ FirstWith(j, owners[j]) /\ Taken(owners[j], j)
      BY <1>0 DEF Owners
    <3>3. \A j \in Key : owners'[j] # None => FirstWith(j, owners[j])'
      BY <2>1, <3>1, <3>2 DEF FirstWith
    <3>4. \A j \in Key : owners'[j] # None => Taken(owners[j], j)'
      BY <2>2, <3>1, <3>2 DEF Taken
    <3>5. \A j \in Key, i \in Index : Taken(i, j)' => owners'[j] # None
      BY <2>2, <3>1 DEF Owners
    <3> QED
      BY <2>1, <3>3, <3>4, <3>5 DEF Owners
  <2> QED
    BY <1>1, <2>3, <2>4
<1>2. CASE FindRoots \/ Union \/ NextCandidate \/ FindGroup \/ AssignGroup \/ UNCHANGED vars
  <2>1. owners' = owners /\ evidence' = evidence
    BY <1>2 DEF FindRoots, Union, NextCandidate, FindGroup, AssignGroup, vars
  <2>2. \A i \in Index, j \in Key : Taken(i, j)' <=> Taken(i, j)
    BY <1>2, NoKeyHasItsTurn
  <2>3. \A j \in Key : owners[j] # None =>
          owners[j] \in Index /\ FirstWith(j, owners[j]) /\ Taken(owners[j], j)
    BY <1>0 DEF Owners
  <2>4. loop'.phase \in {"keys", "find"} => loop'.todo \subseteq evidence[loop'.index]
    <3>1. CASE FindRoots \/ Union
      BY <1>0, <3>1 DEF FindRoots, Union, LoopState, Owners
    <3>2. CASE NextCandidate
      BY <1>0, <3>2 DEF NextCandidate, LoopState
    <3>3. CASE FindGroup \/ AssignGroup
      BY <1>0, <3>3 DEF FindGroup, AssignGroup, LoopState
    <3>4. CASE UNCHANGED vars
      BY <3>4 DEF vars, Owners
    <3> QED
      BY <1>2, <3>1, <3>2, <3>3, <3>4
  <2>5. \A j \in Key : owners'[j] # None => FirstWith(j, owners[j])'
    BY <2>1, <2>3 DEF FirstWith
  <2>6. \A j \in Key : owners'[j] # None => Taken(owners[j], j)'
    BY <2>1, <2>2, <2>3 DEF Taken
  <2>7. \A j \in Key, i \in Index : Taken(i, j)' => owners'[j] # None
    BY <2>1, <2>2 DEF Owners
  <2> QED
    BY <2>1, <2>4, <2>5, <2>6, <2>7 DEF Owners
<1> QED
  BY <1>1, <1>2 DEF Next

(* A key that joins has an earlier owner, to which it joins its candidate. *)
LEMMA JoinKeyJoins ==
  ASSUME IInv, Owners, NEW k \in Key, JoinKey(k)
  PROVE  owners[k] \in Index /\ Joined(loop.index, owners[k])
<1>1. /\ k \in loop.todo /\ loop.phase = "keys" /\ owners[k] # None
      /\ CanShareIdentity(loop.index, owners[k])
  BY DEF JoinKey, TakeKey
<1>2. /\ owners[k] \in Index /\ owners[k] <= loop.index /\ loop.index \in Index
      /\ FirstWith(k, owners[k]) /\ Taken(owners[k], k) /\ k \in evidence[loop.index]
  BY <1>1 DEF IInv, TypeOK, LoopState, Owners, Reading
<1>3. owners[k] < loop.index
  BY <1>1, <1>2 DEF Taken, Index
<1> QED
  BY <1>1, <1>2, <1>3 DEF Joined, FirstWith

(* What the parents become.                                                *)
LEMMA UnionParents ==
  ASSUME IInv, Union
  PROVE  /\ loop.left \in Index /\ loop.right \in Index
         /\ parents[loop.right] = loop.right
         /\ parents' = [parents EXCEPT ![loop.right] = loop.left]
<1>1. loop.left \in Index /\ loop.right \in Index /\ parents \in [Index -> Index]
  BY DEF IInv, TypeOK, LoopState
<1>2. parents[loop.right] = loop.right
  BY DEF Union, IsRoot
<1>3. CASE loop.left = loop.right
  BY <1>1, <1>2, <1>3 DEF Union, LinkRoots
<1>4. CASE loop.left # loop.right
  BY <1>1, <1>2, <1>4 DEF Union, LinkRoots
<1> QED
  BY <1>1, <1>2, <1>3, <1>4

(* Trees are only joined when a pair of candidates is.                     *)
LEMMA SoundStep ==
  ASSUME IInv, Owners, Sound, [Next]_vars
  PROVE  Sound'
<1>0. /\ loop \in LoopState /\ loop.index \in Index /\ loop.left \in Index
      /\ loop.right \in Index /\ parents \in [Index -> Index]
  BY DEF IInv, TypeOK, LoopState
<1>1. evidence' = evidence
  BY DEF Next, ClaimKey, RefuseKey, JoinKey, FindRoots, Union, NextCandidate,
         FindGroup, AssignGroup, vars
<1> SUFFICES ASSUME NEW S \in SUBSET Index, RespectsJoins(S)'
             PROVE  RespectsParents(S)' /\ RespectsFind(S)'
  BY DEF Sound
<1>2. RespectsJoins(S)
  BY <1>1 DEF RespectsJoins, Joined, CanShareIdentity, HasHighPriorityConflict
<1>3. RespectsParents(S) /\ RespectsFind(S)
  BY <1>2 DEF Sound
<1>4. ASSUME NEW k \in Key, ClaimKey(k) \/ RefuseKey(k)
      PROVE  RespectsParents(S)' /\ RespectsFind(S)'
  <2>1. parents' = parents /\ loop'.phase = "keys"
    BY <1>0, <1>4 DEF ClaimKey, RefuseKey, TakeKey, LoopState
  <2> QED
    BY <1>3, <2>1 DEF RespectsParents, RespectsFind
<1>5. ASSUME NEW k \in Key, JoinKey(k)
      PROVE  RespectsParents(S)' /\ RespectsFind(S)'
  <2>1. parents' = parents /\ loop'.left = loop.index /\ loop'.right = owners[k]
    BY <1>0, <1>5 DEF JoinKey, LoopState
  <2>2. loop.index \in S <=> owners[k] \in S
    BY <1>0, <1>2, <1>5, JoinKeyJoins DEF RespectsJoins
  <2> QED
    BY <1>3, <2>1, <2>2 DEF RespectsParents, RespectsFind
<1>6. CASE FindRoots
  <2>1. /\ parents' = parents /\ loop.phase = "find"
        /\ loop'.left = parents[loop.left] /\ loop'.right = parents[loop.right]
    BY <1>0, <1>6 DEF FindRoots, LoopState
  <2> QED
    BY <1>0, <1>3, <2>1 DEF RespectsParents, RespectsFind
<1>7. CASE Union
  <2>1. loop.phase = "find" /\ loop'.phase = "keys"
    BY <1>0, <1>7 DEF Union, LoopState
  <2>2. loop.left \in S <=> loop.right \in S
    BY <1>3, <2>1 DEF RespectsFind
  <2>3. \A i \in Index : parents'[i] = IF i = loop.right THEN loop.left ELSE parents[i]
    BY <1>0, <1>7, UnionParents
  <2> QED
    BY <1>3, <2>1, <2>2, <2>3 DEF RespectsParents, RespectsFind
<1>8. CASE NextCandidate \/ FindGroup \/ AssignGroup
  <2>1. parents' = parents /\ loop'.phase \in {"keys", "group", "done"}
    BY <1>0, <1>8 DEF NextCandidate, FindGroup, AssignGroup, LoopState
  <2> QED
    BY <1>3, <2>1 DEF RespectsParents, RespectsFind
<1>9. CASE UNCHANGED vars
  BY <1>3, <1>9 DEF vars, RespectsParents, RespectsFind
<1> QED
  BY <1>4, <1>5, <1>6, <1>7, <1>8, <1>9 DEF Next

(* Every key that could join has joined its candidate and its owner.       *)
LEMMA CompleteStep ==
  ASSUME IInv, Owners, Complete, [Next]_vars
  PROVE  Complete'
<1>0. /\ loop \in LoopState /\ loop.index \in Index /\ loop.left \in Index
      /\ loop.right \in Index /\ parents \in [Index -> Index]
      /\ owners \in [Key -> Index \cup {None}] /\ None \notin Index
  BY DedupAssumption DEF IInv, TypeOK, LoopState, Index
<1>1. evidence' = evidence
  BY DEF Next, ClaimKey, RefuseKey, JoinKey, FindRoots, Union, NextCandidate,
         FindGroup, AssignGroup, vars
<1>2. \A i, j : CanShareIdentity(i, j)' <=> CanShareIdentity(i, j)
  BY <1>1 DEF CanShareIdentity, HasHighPriorityConflict
<1> SUFFICES ASSUME NEW S \in SUBSET Index, RespectsParents(S)', RespectsFind(S)',
                    NEW i \in Index, NEW j \in Key,
                    Taken(i, j)', CanShareIdentity(i, owners[j])'
             PROVE  i \in S <=> owners'[j] \in S
  BY DEF Complete
<1>3. CanShareIdentity(i, owners'[j])
  BY <1>1 DEF CanShareIdentity, HasHighPriorityConflict
<1>4. ASSUME RespectsParents(S), RespectsFind(S), Taken(i, j), owners'[j] = owners[j]
      PROVE  i \in S <=> owners'[j] \in S
  BY <1>3, <1>4 DEF Complete
<1>5. ASSUME NEW k \in Key, ClaimKey(k)
      PROVE  i \in S <=> owners'[j] \in S
  <2>1. /\ parents' = parents /\ loop.phase = "keys" /\ owners[k] = None
        /\ owners' = [owners EXCEPT ![k] = loop.index]
    BY <1>5 DEF ClaimKey, TakeKey
  <2>2. RespectsParents(S) /\ RespectsFind(S)
    BY <2>1 DEF RespectsParents, RespectsFind
  <2>3. Taken(i, j) \/ (i = loop.index /\ j = k)
    BY <1>5, KeyHadItsTurn
  <2>4. CASE i = loop.index /\ j = k
    BY <1>0, <2>1, <2>4
  <2>5. CASE Taken(i, j)
    <3>1. j # k
      BY <2>1, <2>5 DEF Owners
    <3> QED
      BY <1>0, <1>4, <2>1, <2>2, <2>5, <3>1
  <2> QED
    BY <2>3, <2>4, <2>5
<1>6. ASSUME NEW k \in Key, RefuseKey(k)
      PROVE  i \in S <=> owners'[j] \in S
  <2>1. /\ parents' = parents /\ loop.phase = "keys" /\ owners' = owners
        /\ ~CanShareIdentity(loop.index, owners[k])
    BY <1>6 DEF RefuseKey, TakeKey
  <2>2. RespectsParents(S) /\ RespectsFind(S)
    BY <2>1 DEF RespectsParents, RespectsFind
  <2>3. Taken(i, j)
    BY <1>3, <1>6, <2>1, KeyHadItsTurn
  <2> QED
    BY <1>4, <2>1, <2>2, <2>3
<1>7. ASSUME NEW k \in Key, JoinKey(k)
      PROVE  i \in S <=> owners'[j] \in S
  <2>1. /\ parents' = parents /\ loop.phase = "keys" /\ owners' = owners
        /\ loop'.phase = "find" /\ loop'.left = loop.index /\ loop'.right = owners[k]
    BY <1>0, <1>7 DEF JoinKey, TakeKey, LoopState
  <2>2. RespectsParents(S) /\ RespectsFind(S)
    BY <2>1 DEF RespectsParents, RespectsFind
  <2>3. loop.index \in S <=> owners[k] \in S
    BY <2>1 DEF RespectsFind
  <2>4. Taken(i, j) \/ (i = loop.index /\ j = k)
    BY <1>7, KeyHadItsTurn
  <2> QED
    BY <1>4, <2>1, <2>2, <2>3, <2>4
<1>8. ASSUME FindRoots \/ Union \/ NextCandidate \/ FindGroup \/ AssignGroup \/ UNCHANGED vars,
             RespectsParents(S), RespectsFind(S)
      PROVE  i \in S <=> owners'[j] \in S
  <2>1. owners' = owners
    BY <1>8 DEF FindRoots, Union, NextCandidate, FindGroup, AssignGroup, vars
  <2>2. Taken(i, j)
    BY <1>8, NoKeyHasItsTurn
  <2> QED
    BY <1>4, <1>8, <2>1, <2>2
<1>9. CASE FindRoots
  <2>1. /\ parents' = parents /\ loop'.phase = "find"
        /\ loop'.left = parents[loop.left] /\ loop'.right = parents[loop.right]
    BY <1>0, <1>9 DEF FindRoots, LoopState
  <2> QED
    BY <1>0, <1>8, <1>9, <2>1 DEF RespectsParents, RespectsFind
<1>10. CASE Union
  <2>1. \A m \in Index : parents'[m] = IF m = loop.right THEN loop.left ELSE parents[m]
    BY <1>0, <1>10, UnionParents
  <2>2. parents[loop.right] = loop.right
    BY <1>10, UnionParents
  <2> QED
    BY <1>0, <1>8, <1>10, <2>1, <2>2 DEF RespectsParents, RespectsFind
<1>11. CASE NextCandidate \/ FindGroup \/ AssignGroup
  <2>1. parents' = parents /\ loop.phase \in {"keys", "group"}
    BY <1>0, <1>11 DEF NextCandidate, FindGroup, AssignGroup, LoopState
  <2> QED
    BY <1>8, <1>11, <2>1 DEF RespectsParents, RespectsFind
<1>12. CASE UNCHANGED vars
  BY <1>8, <1>12 DEF vars, RespectsParents, RespectsFind
<1> QED
  BY <1>5, <1>6, <1>7, <1>9, <1>10, <1>11, <1>12 DEF Next

(* The last loop follows the parents of each candidate to the root.        *)
LEMMA GroupingStep ==
  ASSUME IInv, Grouping, [Next]_vars
  PROVE  Grouping'
<1>0. /\ loop \in LoopState /\ loop.index \in Index /\ loop.left \in Index /\ N \in Nat
      /\ groups \in [Index -> Index \cup {None}] /\ parents \in [Index -> Index]
      /\ None \notin Index
  BY DedupAssumption DEF IInv, TypeOK, LoopState, Index
<1>1. ASSUME loop.phase \in {"keys", "find"}, groups' = groups,
             loop'.phase \in {"keys", "find"}
      PROVE  Grouping'
  BY <1>1 DEF Grouping
<1>2. ASSUME parents' = parents
      PROVE  \A i, j : SameTree(i, j)' <=> SameTree(i, j)
  BY <1>2 DEF SameTree, RespectsParents
<1>3. ASSUME NEW k \in Key, ClaimKey(k) \/ RefuseKey(k) \/ JoinKey(k)
      PROVE  Grouping'
  BY <1>0, <1>1, <1>3 DEF ClaimKey, RefuseKey, JoinKey, TakeKey, LoopState
<1>4. CASE FindRoots \/ Union
  BY <1>0, <1>1, <1>4 DEF FindRoots, Union, LoopState
<1>5. CASE NextCandidate
  <2>1. loop.phase = "keys" /\ groups' = groups
    BY <1>5 DEF NextCandidate
  <2>2. CASE loop.index < N
    BY <1>0, <1>1, <1>5, <2>1, <2>2 DEF NextCandidate, LoopState
  <2>3. CASE ~(loop.index < N)
    <3>1. loop'.phase = "group" /\ loop'.index = 1 /\ loop'.left = 1
      BY <1>0, <1>5, <2>3 DEF NextCandidate, LoopState
    <3>2. \A i \in Index : groups'[i] = None
      BY <2>1 DEF Grouping
    <3>3. SameTree(loop.index, loop.left)'
      BY <3>1 DEF SameTree
    <3>4. \A i \in Index : ~(i < loop'.index)
      BY <3>1 DEF Index
    <3> QED
      BY <3>1, <3>2, <3>3, <3>4 DEF Grouping
  <2> QED
    BY <2>2, <2>3
<1>6. CASE FindGroup
  <2>1. /\ loop.phase = "group" /\ loop'.phase = "group" /\ loop'.index = loop.index
        /\ loop'.left = parents[loop.left] /\ groups' = groups /\ parents' = parents
    BY <1>0, <1>6 DEF FindGroup, LoopState
  <2>2. SameTree(loop.index, parents[loop.left])
    BY <1>0, <2>1 DEF Grouping, SameTree, RespectsParents
  <2>3. SameTree(loop.index, loop.left)'
    BY <2>1, <2>2 DEF SameTree, RespectsParents
  <2>4. \A i \in Index : groups'[i] # None => IsRoot(groups[i])' /\ SameTree(i, groups[i])'
    BY <2>1 DEF Grouping, IsRoot, SameTree, RespectsParents
  <2> QED
    BY <2>1, <2>3, <2>4 DEF Grouping
<1>7. CASE AssignGroup
  <2>1. /\ loop.phase = "group" /\ parents[loop.left] = loop.left /\ parents' = parents
        /\ groups' = [groups EXCEPT ![loop.index] = loop.left]
        /\ loop'.phase \in {"group", "done"}
    BY <1>0, <1>7 DEF AssignGroup, IsRoot, LoopState
  <2>2. SameTree(loop.index, loop.left)
    BY <2>1 DEF Grouping
  <2>3. ASSUME NEW i \in Index, groups'[i] # None
        PROVE  IsRoot(groups[i])' /\ SameTree(i, groups[i])'
    <3>1. CASE i = loop.index
      <4>1. groups'[i] = loop.left
        BY <1>0, <2>1, <3>1
      <4> QED
        BY <2>1, <2>2, <3>1, <4>1 DEF IsRoot, SameTree, RespectsParents
    <3>2. CASE i # loop.index
      <4>1. groups'[i] = groups[i]
        BY <1>0, <2>1, <3>2
      <4>2. IsRoot(groups[i]) /\ SameTree(i, groups[i])
        BY <2>3, <4>1 DEF Grouping
      <4> QED
        BY <2>1, <4>1, <4>2 DEF IsRoot, SameTree, RespectsParents
    <3> QED
      BY <3>1, <3>2
  <2>4. \A i \in Index : i <= loop.index => groups'[i] # None
    <3> SUFFICES ASSUME NEW i \in Index, i <= loop.index PROVE groups'[i] # None
      OBVIOUS
    <3>1. i < loop.index \/ i = loop.index
      BY <1>0 DEF Index
    <3> QED
      BY <1>0, <2>1, <3>1 DEF Grouping
  <2>5. CASE loop.index < N
    <3>1. /\ loop'.phase = "group" /\ loop'.index = loop.index + 1
          /\ loop'.left = loop.index + 1
      BY <1>0, <1>7, <2>5 DEF AssignGroup, LoopState
    <3>2. SameTree(loop.index, loop.left)'
      BY <3>1 DEF SameTree
    <3>3. \A i \in Index : i < loop'.index => groups'[i] # None
      BY <1>0, <2>4, <3>1 DEF Index
    <3> QED
      BY <2>3, <3>1, <3>2, <3>3 DEF Grouping
  <2>6. CASE ~(loop.index < N)
    <3>1. loop'.phase = "done"
      BY <1>0, <1>7, <2>6 DEF AssignGroup, LoopState
    <3>2. \A i \in Index : groups'[i] # None
      BY <1>0, <2>4, <2>6 DEF Index
    <3> QED
      BY <2>3, <3>1, <3>2 DEF Grouping
  <2> QED
    BY <2>5, <2>6
<1>8. CASE UNCHANGED vars
  BY <1>8 DEF vars, Grouping, IsRoot, SameTree, RespectsParents
<1> QED
  BY <1>3, <1>4, <1>5, <1>6, <1>7, <1>8 DEF Next

(* No key has an owner, and every candidate is a tree of its own, at the   *)
(* beginning.                                                              *)
LEMMA GroupsInit == Init => GInv
<1> SUFFICES ASSUME Init PROVE GInv
  OBVIOUS
<1>1. IInv
  BY InitInv
<1>2. 1 \in Index /\ \A i \in Index : ~(i < 1)
  BY DedupAssumption DEF Index
<1>3. \A i \in Index, k \in Key : ~Taken(i, k)
  BY <1>2 DEF Init, Taken
<1>4. Owners
  BY <1>3 DEF Init, Owners
<1>5. Sound
  BY DEF Init, Sound, RespectsParents, RespectsFind
<1>6. Complete
  BY <1>3 DEF Complete
<1>7. Grouping
  BY DEF Init, Grouping
<1> QED
  BY <1>1, <1>4, <1>5, <1>6, <1>7 DEF GInv

(* The invariant of the groups, for any number of candidates and any keys. *)
THEOREM DedupGroupsInductive == Spec => []GInv
<1>1. GInv /\ [Next]_vars => GInv'
  BY DedupNext, OwnersStep, SoundStep, CompleteStep, GroupingStep DEF GInv
<1> QED
  BY GroupsInit, <1>1, PTL DEF Spec

-----------------------------------------------------------------------------
(* Two roots in one tree are the same.  The tree of a root is the least    *)
(* set with it that holds whoever has a parent in it.                      *)
LEMMA OneRootPerTree ==
  ASSUME IInv, NEW r \in Index, NEW s \in Index, IsRoot(r), IsRoot(s), SameTree(r, s)
  PROVE  r = s
<1> DEFINE Grows(S) == r \in S /\ \A i \in Index : parents[i] \in S => i \in S
           T == {m \in Index : \A S \in SUBSET Index : Grows(S) => m \in S}
<1>0. parents \in [Index -> Index] /\ parents[r] = r /\ parents[s] = s
  BY DEF IInv, TypeOK, IsRoot
<1>1. T \in SUBSET Index /\ r \in T
  OBVIOUS
<1>2. \A i \in Index : parents[i] \in T => i \in T
  OBVIOUS
<1>3. \A S \in SUBSET Index : Grows(S) => T \subseteq S
  OBVIOUS
<1> HIDE DEF T
<1>4. \A i \in T : parents[i] \in T
  <2> DEFINE U == {m \in T : parents[m] \in T}
  <2>1. U \in SUBSET Index /\ Grows(U)
    BY <1>0, <1>1, <1>2
  <2> QED
    BY <1>3, <2>1
<1>5. RespectsParents(T)
  BY <1>2, <1>4 DEF RespectsParents
<1>6. s \in T
  BY <1>1, <1>5 DEF SameTree
<1>7. s # r => Grows(T \ {s})
  BY <1>0, <1>1, <1>2
<1> QED
  BY <1>1, <1>3, <1>6, <1>7

(* In the end, a candidate is in the group of the owner of each of its     *)
(* keys, if no identifier contradicts that.                                *)
LEMMA OwnersGroup ==
  ASSUME GInv, Done, NEW i \in Index, NEW k \in evidence[i]
  PROVE  /\ owners[k] \in Index /\ FirstWith(k, owners[k])
         /\ CanShareIdentity(i, owners[k]) => groups[i] = groups[owners[k]]
<1>1. /\ k \in Key /\ Taken(i, k) /\ owners \in [Key -> Index \cup {None}]
      /\ groups \in [Index -> Index \cup {None}]
  BY DEF GInv, IInv, TypeOK, Evidence, Taken, Done
<1>2. owners[k] \in Index /\ FirstWith(k, owners[k])
  BY <1>1 DEF GInv, Owners
<1>3. ASSUME CanShareIdentity(i, owners[k])
      PROVE  groups[i] = groups[owners[k]]
  <2>1. SameTree(i, owners[k])
    BY <1>1, <1>3 DEF GInv, Complete, SameTree, RespectsFind, Done
  <2>2. \A m \in Index : groups[m] \in Index /\ IsRoot(groups[m]) /\ SameTree(m, groups[m])
    BY <1>1 DEF GInv, Grouping, Done
  <2>3. SameTree(groups[i], groups[owners[k]])
    BY <1>2, <2>1, <2>2 DEF SameTree
  <2> QED
    BY <1>2, <2>2, <2>3, OneRootPerTree DEF GInv
<1> QED
  BY <1>2, <1>3

(* Groups are the connected candidates, in whatever order Python iterates  *)
(* the keys of a candidate.                                                *)
THEOREM DedupGroupsAreConnected == Spec => []GroupsAreConnected
<1>1. GInv => GroupsAreConnected
  <2> SUFFICES ASSUME GInv, Done, NEW i \in Index, NEW j \in Index
               PROVE  groups[i] = groups[j] <=> Connected(i, j, Joined)
    BY DEF GroupsAreConnected
  <2>1. ASSUME groups[i] = groups[j], NEW S \in SUBSET Index, i \in S,
               \A a, b \in Index : Joined(a, b) => (a \in S <=> b \in S)
        PROVE  j \in S
    <3>1. RespectsParents(S)
      BY <2>1 DEF GInv, Sound, RespectsJoins
    <3>2. SameTree(i, groups[i]) /\ SameTree(j, groups[j])
      BY DEF GInv, Grouping, Done
    <3> QED
      BY <2>1, <3>1, <3>2 DEF SameTree
  <2>2. ASSUME NEW a \in Index, NEW b \in Index, Joined(a, b)
        PROVE  groups[a] = groups[b]
    <3>1. PICK k \in evidence[a] :
            FirstWith(k, b) /\ CanShareIdentity(a, b)
      BY <2>2 DEF Joined, FirstWith
    <3>2. owners[k] \in Index /\ FirstWith(k, owners[k])
      BY <3>1, OwnersGroup
    <3>3. owners[k] = b
      BY <3>1, <3>2 DEF FirstWith, Index
    <3> QED
      BY <3>1, <3>3, OwnersGroup
  <2>3. ASSUME Connected(i, j, Joined)
        PROVE  groups[i] = groups[j]
    <3> DEFINE S == {m \in Index : groups[m] = groups[i]}
    <3>1. S \in SUBSET Index /\ i \in S
      OBVIOUS
    <3>2. \A a, b \in Index : Joined(a, b) => (a \in S <=> b \in S)
      BY <2>2
    <3>3. j \in S
      BY <2>3, <3>1, <3>2 DEF Connected
    <3> QED
      BY <3>3
  <2> QED
    BY <2>1, <2>3 DEF Connected
<1> QED
  BY <1>1, DedupGroupsInductive, PTL

(* Without contradicting identifiers, a shared key means a shared paper.   *)
THEOREM DedupSharedKeySharesPaper == Spec => []SharedKeySharesPaper
<1>1. GInv => SharedKeySharesPaper
  <2> SUFFICES ASSUME GInv, Done, \A i, j \in Index : CanShareIdentity(i, j),
                      NEW i \in Index, NEW j \in Index, NEW manifest \in Manifest,
                      evidence[i] \cap evidence[j] # {}
               PROVE  PaperIdOf(i, manifest) = PaperIdOf(j, manifest)
    BY DEF SharedKeySharesPaper
  <2>1. PICK k : k \in evidence[i] /\ k \in evidence[j]
    OBVIOUS
  <2>2. groups[i] = groups[owners[k]] /\ groups[j] = groups[owners[k]]
    BY <2>1, OwnersGroup
  <2> QED
    BY <2>2 DEF PaperIdOf
<1> QED
  BY <1>1, DedupGroupsInductive, PTL

(* Candidates with one citation or text are in one group, or groups and    *)
(* reported pairs lead from one to the other.                              *)
THEOREM DedupSharedCitation == Spec => []SharedCitationIsMergedOrReported
<1>1. GInv => SharedCitationIsMergedOrReported
  <2> SUFFICES ASSUME GInv, Done, NEW i \in Index, NEW j \in Index,
                      SharedLowerKeys(i, j) # {}
               PROVE  Connected(i, j, GroupedOrReported)
    BY DEF SharedCitationIsMergedOrReported
  <2>1. PICK k : /\ k \in evidence[i] /\ k \in evidence[j]
                 /\ k.kind \notin HighPriorityKinds
    BY DEF SharedLowerKeys
  <2>2. ASSUME NEW m \in Index, k \in evidence[m]
        PROVE  owners[k] \in Index /\ GroupedOrReported(m, owners[k])
    <3>1. owners[k] \in Index /\ k \in evidence[owners[k]]
      BY <2>2, OwnersGroup DEF FirstWith
    <3>2. CanShareIdentity(m, owners[k]) => groups[m] = groups[owners[k]]
      BY <2>2, OwnersGroup
    <3>3. SharedLowerKeys(m, owners[k]) # {}
      BY <2>1, <2>2, <3>1 DEF SharedLowerKeys
    <3> QED
      BY <3>1, <3>2, <3>3 DEF GroupedOrReported, Blocked
  <2> QED
    BY <2>1, <2>2 DEF Connected
<1> QED
  BY <1>1, DedupGroupsInductive, PTL

-----------------------------------------------------------------------------
(* Its end.  What remains to be done: the loops that follow, the           *)
(* candidates and then the keys that have not had their turn, and how far  *)
(* the cursors of _find are from the last candidate, beyond which no       *)
(* parent points.                                                          *)
Passes ==
  CASE loop.phase \in {"keys", "find"} -> 2
    [] loop.phase = "group" -> 1
    [] loop.phase = "done" -> 0

Cursors ==
  CASE loop.phase = "find" -> 1 + (N - loop.left) + (N - loop.right)
    [] loop.phase = "group" -> N - loop.left
    [] OTHER -> 0

Remaining == <<Passes, <<N - loop.index, <<Cardinality(loop.todo), Cursors>> >> >>

Amount == Nat \X (Nat \X (Nat \X Nat))

(* One amount is less than another if it is less in the first of the four  *)
(* that is not the same.                                                   *)
IsLess(s, t) ==
  \/ s[1] < t[1]
  \/ /\ s[1] = t[1]
     /\ \/ s[2][1] < t[2][1]
        \/ /\ s[2][1] = t[2][1]
           /\ \/ s[2][2][1] < t[2][2][1]
              \/ s[2][2][1] = t[2][2][1] /\ s[2][2][2] < t[2][2][2]

Less == {m \in Amount \X Amount : IsLess(m[1], m[2])}

LessRemains == <<Remaining', Remaining>> \in Less

(* Nothing becomes less and less for ever.                                 *)
LEMMA LessWellFounded == IsWellFoundedOn(Less, Amount)
<1> DEFINE Smaller == {m \in Nat \X Nat : m[1] < m[2]}
           Two == Nat \X Nat
           Three == Nat \X Two
           LessTwo == LexPairOrdering(Smaller, Smaller, Nat, Nat)
           LessThree == LexPairOrdering(Smaller, LessTwo, Nat, Two)
           LessFour == LexPairOrdering(Smaller, LessThree, Nat, Three)
<1>1. IsWellFoundedOn(Smaller, Nat)
  <2>1. Smaller = OpToRel(<, Nat)
    BY DEF OpToRel
  <2> QED
    BY <2>1, NatLessThanWellFounded, Zenon
<1>2. \A R1, R2, S1, S2 : \A m \in (S1 \X S2) \X (S1 \X S2) :
        m \in LexPairOrdering(R1, R2, S1, S2) <=>
          <<m[1][1], m[2][1]>> \in R1 \/ (m[1][1] = m[2][1] /\ <<m[1][2], m[2][2]>> \in R2)
  BY DEF LexPairOrdering
<1>3. \A a, b \in Nat : <<a, b>> \in Smaller <=> a < b
  OBVIOUS
<1>4. \A m \in Two \X Two : m \in LessTwo <=>
        <<m[1][1], m[2][1]>> \in Smaller \/ (m[1][1] = m[2][1] /\ <<m[1][2], m[2][2]>> \in Smaller)
  BY <1>2
<1>5. \A m \in Three \X Three : m \in LessThree <=>
        <<m[1][1], m[2][1]>> \in Smaller \/ (m[1][1] = m[2][1] /\ <<m[1][2], m[2][2]>> \in LessTwo)
  BY <1>2
<1> HIDE DEF Smaller, LessTwo, LessThree, LessFour
<1>6. \A m \in (Nat \X Three) \X (Nat \X Three) : m \in LessFour <=>
        <<m[1][1], m[2][1]>> \in Smaller \/ (m[1][1] = m[2][1] /\ <<m[1][2], m[2][2]>> \in LessThree)
  <2> HIDE DEF Three
  <2> QED
    BY <1>2 DEF LessFour
<1>7. Amount = Nat \X Three
  BY DEF Amount
<1>8. IsWellFoundedOn(LessTwo, Two)
  BY <1>1, WFLexPairOrdering DEF LessTwo
<1>9. IsWellFoundedOn(LessThree, Three)
  BY <1>1, <1>8, WFLexPairOrdering DEF LessThree
<1>10. IsWellFoundedOn(LessFour, Amount)
  BY <1>1, <1>7, <1>9, WFLexPairOrdering DEF LessFour
<1>11. Less \subseteq LessFour
  <2> SUFFICES ASSUME NEW m \in Amount \X Amount, IsLess(m[1], m[2]) PROVE m \in LessFour
    BY DEF Less
  <2> DEFINE a == m[1][1]  b == m[1][2][1]  c == m[1][2][2][1]  d == m[1][2][2][2]
             k == m[2][1]  l == m[2][2][1]  n == m[2][2][2][1]  o == m[2][2][2][2]
  <2>1. /\ m[1][2] \in Three /\ m[2][2] \in Three /\ m[1][2][2] \in Two /\ m[2][2][2] \in Two
        /\ a \in Nat /\ b \in Nat /\ c \in Nat /\ d \in Nat
        /\ k \in Nat /\ l \in Nat /\ n \in Nat /\ o \in Nat
    BY DEF Amount
  <2>2. c < n \/ (c = n /\ d < o) => <<m[1][2][2], m[2][2][2]>> \in LessTwo
    BY <1>3, <1>4, <2>1
  <2>3. b < l \/ (b = l /\ <<m[1][2][2], m[2][2][2]>> \in LessTwo) =>
          <<m[1][2], m[2][2]>> \in LessThree
    BY <1>3, <1>5, <2>1
  <2>4. a < k \/ (a = k /\ <<m[1][2], m[2][2]>> \in LessThree) => m \in LessFour
    BY <1>3, <1>6, <1>7, <2>1
  <2> QED
    BY <2>2, <2>3, <2>4 DEF IsLess
<1> QED
  BY <1>10, <1>11, IsWellFoundedOnSubrelation

(* A candidate has at most one key of each kind.                           *)
LEMMA EvidenceFinite ==
  ASSUME NEW keys \in Evidence
  PROVE  IsFiniteSet(keys)
<1> DEFINE Kinds == {"doi", "isbn", "arxiv", "citation", "text"}
           kindOf == [k \in keys |-> k.kind]
<1>1. IsFiniteSet(Kinds)
  <2>1. IsFiniteSet({"doi"})
    BY FS_Singleton
  <2>2. IsFiniteSet({"doi"} \cup {"isbn"})
    BY <2>1, FS_AddElement
  <2>3. IsFiniteSet({"doi"} \cup {"isbn"} \cup {"arxiv"})
    BY <2>2, FS_AddElement
  <2>4. IsFiniteSet({"doi"} \cup {"isbn"} \cup {"arxiv"} \cup {"citation"})
    BY <2>3, FS_AddElement
  <2>5. IsFiniteSet({"doi"} \cup {"isbn"} \cup {"arxiv"} \cup {"citation"} \cup {"text"})
    BY <2>4, FS_AddElement
  <2>6. Kinds = {"doi"} \cup {"isbn"} \cup {"arxiv"} \cup {"citation"} \cup {"text"}
    OBVIOUS
  <2> QED
    BY <2>5, <2>6
<1>2. \A k \in keys : k.kind \in Kinds
  BY DedupAssumption DEF Evidence, IdentityPriority
<1> HIDE DEF Kinds
<1>3. kindOf \in Injection(keys, Kinds)
  BY <1>2 DEF Evidence, Injection, IsInjective
<1> QED
  BY <1>1, <1>3, FS_Injection

TodoIsFinite == IsFiniteSet(loop.todo)

(* What remains is counted by natural numbers.                             *)
RemainingIsCounted ==
  /\ Passes \in Nat /\ N - loop.index \in Nat
  /\ Cardinality(loop.todo) \in Nat /\ Cursors \in Nat

LEMMA RemainingType == IInv /\ TodoIsFinite => RemainingIsCounted
<1> SUFFICES ASSUME IInv, TodoIsFinite PROVE RemainingIsCounted
  OBVIOUS
<1>1. /\ loop \in LoopState /\ N \in Nat /\ loop.index \in 1..N
      /\ loop.left \in 1..N /\ loop.right \in 1..N
  BY DedupAssumption DEF IInv, TypeOK, LoopState, Index
<1>2. Cardinality(loop.todo) \in Nat
  BY FS_CardinalityType DEF TodoIsFinite
<1>3. Passes \in Nat
  BY <1>1 DEF Passes, LoopState
<1>4. Cursors \in Nat
  BY <1>1 DEF Cursors, LoopState
<1> QED
  BY <1>1, <1>2, <1>3, <1>4 DEF RemainingIsCounted

(* Every step leaves finitely many keys to look at ...                     *)
LEMMA TodoStaysFinite ==
  ASSUME IInv, TodoIsFinite, [Next]_vars
  PROVE  TodoIsFinite'
<1>0. loop \in LoopState /\ evidence \in [Index -> Evidence] /\ N \in Nat
  BY DedupAssumption DEF IInv, TypeOK
<1>1. ASSUME NEW k \in Key, ClaimKey(k) \/ RefuseKey(k) \/ JoinKey(k) PROVE TodoIsFinite'
  <2>1. loop'.todo = loop.todo \ {k}
    BY <1>0, <1>1 DEF ClaimKey, RefuseKey, JoinKey, LoopState
  <2> QED
    BY <2>1, FS_RemoveElement DEF TodoIsFinite
<1>2. CASE NextCandidate
  <2>1. CASE loop.index < N
    <3>1. loop'.todo = evidence[loop.index + 1] /\ loop.index + 1 \in Index
      BY <1>0, <1>2, <2>1 DEF NextCandidate, LoopState, Index
    <3> QED
      BY <1>0, <3>1, EvidenceFinite DEF TodoIsFinite
  <2>2. CASE ~(loop.index < N)
    <3>1. loop'.todo = loop.todo
      BY <1>0, <1>2, <2>2 DEF NextCandidate, LoopState
    <3> QED
      BY <3>1 DEF TodoIsFinite
  <2> QED
    BY <2>1, <2>2
<1>3. CASE FindRoots \/ Union \/ FindGroup \/ AssignGroup \/ UNCHANGED vars
  <2>1. loop'.todo = loop.todo
    BY <1>0, <1>3 DEF FindRoots, Union, FindGroup, AssignGroup, LoopState, vars
  <2> QED
    BY <2>1 DEF TodoIsFinite
<1> QED
  BY <1>1, <1>2, <1>3 DEF Next

(* ... and less to do.                                                     *)
LEMMA StepDoesSomething ==
  ASSUME IInv, TodoIsFinite, Next
  PROVE  LessRemains
<1> DEFINE keys == Cardinality(loop.todo)
<1>0. /\ loop \in LoopState /\ N \in Nat /\ loop.index \in 1..N
      /\ loop.left \in 1..N /\ loop.right \in 1..N /\ parents \in [1..N -> 1..N]
      /\ \A i \in 1..N : parents[i] >= i
  BY DedupAssumption DEF IInv, TypeOK, LoopState, ParentsClimb, Index
<1>1. /\ Passes \in Nat /\ N - loop.index \in Nat /\ keys \in Nat /\ Cursors \in Nat
      /\ Passes' \in Nat /\ N - loop'.index \in Nat /\ keys' \in Nat /\ Cursors' \in Nat
  <2>1. IInv' /\ TodoIsFinite'
    BY DedupNext, TodoStaysFinite
  <2>2. (IInv /\ TodoIsFinite => RemainingIsCounted)'
    BY RemainingType, PTL
  <2> QED
    BY <2>1, <2>2, RemainingType DEF RemainingIsCounted
<1>2. ASSUME \/ Passes' < Passes
             \/ Passes' = Passes /\ N - loop'.index < N - loop.index
             \/ Passes' = Passes /\ loop'.index = loop.index /\ keys' < keys
             \/ /\ Passes' = Passes /\ loop'.index = loop.index /\ keys' = keys
                /\ Cursors' < Cursors
      PROVE  LessRemains
  <2>1. /\ Remaining = <<Passes, <<N - loop.index, <<keys, Cursors>> >> >>
        /\ Remaining' = <<Passes', <<N - loop'.index, <<keys', Cursors'>> >> >>
    BY DEF Remaining
  <2>2. Remaining \in Amount /\ Remaining' \in Amount
    BY <1>1, <2>1 DEF Amount
  <2>3. IsLess(Remaining', Remaining)
    BY <1>1, <1>2, <2>1 DEF IsLess
  <2> QED
    BY <2>2, <2>3 DEF LessRemains, Less
<1>3. ASSUME NEW k \in Key, ClaimKey(k) \/ RefuseKey(k) \/ JoinKey(k)
      PROVE  LessRemains
  <2>1. /\ k \in loop.todo /\ loop'.todo = loop.todo \ {k} /\ loop'.index = loop.index
        /\ loop.phase = "keys" /\ loop'.phase \in {"keys", "find"}
    BY <1>0, <1>3 DEF ClaimKey, RefuseKey, JoinKey, TakeKey, LoopState
  <2>2. keys' = keys - 1
    BY <2>1, FS_RemoveElement DEF TodoIsFinite
  <2>3. Passes = 2 /\ Passes' = 2
    BY <2>1 DEF Passes
  <2> QED
    BY <1>1, <1>2, <2>1, <2>2, <2>3
<1>4. CASE FindRoots
  <2>1. /\ loop.phase = "find" /\ loop'.phase = "find" /\ loop'.index = loop.index
        /\ loop'.todo = loop.todo
        /\ loop'.left = parents[loop.left] /\ loop'.right = parents[loop.right]
        /\ parents[loop.left] # loop.left \/ parents[loop.right] # loop.right
    BY <1>0, <1>4 DEF FindRoots, IsRoot, LoopState
  <2>2. Passes = 2 /\ Passes' = 2
    BY <2>1 DEF Passes
  <2>3. Cursors = 1 + (N - loop.left) + (N - loop.right)
    BY <2>1 DEF Cursors
  <2>4. Cursors' = 1 + (N - parents[loop.left]) + (N - parents[loop.right])
    BY <2>1 DEF Cursors
  <2>5. \A l, r, p, q \in 1..N : p >= l /\ q >= r /\ (p # l \/ q # r) =>
          1 + (N - p) + (N - q) < 1 + (N - l) + (N - r)
    BY <1>0
  <2>6. Cursors' < Cursors
    BY <1>0, <2>1, <2>3, <2>4, <2>5
  <2> QED
    BY <1>2, <2>1, <2>2, <2>6
<1>5. CASE Union
  <2>1. /\ loop.phase = "find" /\ loop'.phase = "keys" /\ loop'.index = loop.index
        /\ loop'.todo = loop.todo
    BY <1>0, <1>5 DEF Union, LoopState
  <2>2. Passes = 2 /\ Passes' = 2
    BY <2>1 DEF Passes
  <2>3. Cursors = 1 + (N - loop.left) + (N - loop.right) /\ Cursors' = 0
    BY <2>1 DEF Cursors
  <2>4. Cursors' < Cursors
    BY <1>0, <2>3
  <2> QED
    BY <1>2, <2>1, <2>2, <2>4
<1>6. CASE NextCandidate
  <2>1. loop.phase = "keys" /\ Passes = 2
    BY <1>6 DEF NextCandidate, Passes
  <2>2. CASE loop.index < N
    <3>1. loop'.phase = "keys" /\ loop'.index = loop.index + 1
      BY <1>0, <1>6, <2>2 DEF NextCandidate, LoopState
    <3>2. Passes' = 2
      BY <3>1 DEF Passes
    <3> QED
      BY <1>0, <1>2, <2>1, <3>1, <3>2
  <2>3. CASE ~(loop.index < N)
    <3>1. loop'.phase = "group"
      BY <1>0, <1>6, <2>3 DEF NextCandidate, LoopState
    <3>2. Passes' = 1
      BY <3>1 DEF Passes
    <3> QED
      BY <1>2, <2>1, <3>2
  <2> QED
    BY <2>2, <2>3
<1>7. CASE FindGroup
  <2>1. /\ loop.phase = "group" /\ loop'.phase = "group" /\ loop'.index = loop.index
        /\ loop'.todo = loop.todo
        /\ loop'.left = parents[loop.left] /\ parents[loop.left] # loop.left
    BY <1>0, <1>7 DEF FindGroup, IsRoot, LoopState
  <2>2. Passes = 1 /\ Passes' = 1
    BY <2>1 DEF Passes
  <2>3. Cursors = N - loop.left /\ Cursors' = N - parents[loop.left]
    BY <2>1 DEF Cursors
  <2>4. parents[loop.left] \in 1..N /\ parents[loop.left] >= loop.left
    BY <1>0
  <2>5. Cursors' < Cursors
    BY <1>0, <2>1, <2>3, <2>4
  <2> QED
    BY <1>2, <2>1, <2>2, <2>5
<1>8. CASE AssignGroup
  <2>1. loop.phase = "group" /\ Passes = 1
    BY <1>8 DEF AssignGroup, Passes
  <2>2. CASE loop.index < N
    <3>1. loop'.phase = "group" /\ loop'.index = loop.index + 1
      BY <1>0, <1>8, <2>2 DEF AssignGroup, LoopState
    <3>2. Passes' = 1
      BY <3>1 DEF Passes
    <3> QED
      BY <1>0, <1>2, <2>1, <3>1, <3>2
  <2>3. CASE ~(loop.index < N)
    <3>1. loop'.phase = "done"
      BY <1>0, <1>8, <2>3 DEF AssignGroup, LoopState
    <3>2. Passes' = 0
      BY <3>1 DEF Passes
    <3> QED
      BY <1>2, <2>1, <3>2
  <2> QED
    BY <2>2, <2>3
<1> QED
  BY <1>3, <1>4, <1>5, <1>6, <1>7, <1>8 DEF Next

(* deduplicate_papers cannot go on for ever: each step makes less of what  *)
(* remains, and nothing becomes less for ever.                             *)
THEOREM DedupRunsOut ==
  /\ IsWellFoundedOn(Less, Amount)
  /\ Spec => [](Remaining \in Amount) /\ [][LessRemains]_vars
<1>1. Init => TodoIsFinite
  <2>1. 1 \in Index
    BY DedupAssumption DEF Index
  <2> QED
    BY <2>1, EvidenceFinite DEF Init, TodoIsFinite
<1>2. Spec => [](IInv /\ TodoIsFinite)
  BY <1>1, InitInv, DedupNext, TodoStaysFinite, PTL DEF Spec
<1>3. IInv /\ TodoIsFinite => Remaining \in Amount
  BY RemainingType DEF RemainingIsCounted, Remaining, Amount
<1>4. IInv /\ TodoIsFinite /\ [Next]_vars => [LessRemains]_vars
  BY StepDoesSomething
<1>5. Spec => [](Remaining \in Amount) /\ [][LessRemains]_vars
  BY <1>2, <1>3, <1>4, PTL DEF Spec
<1> QED
  BY <1>5, LessWellFounded

=============================================================================
