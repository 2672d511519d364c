----------------------------- MODULE Deduplication -----------------------------
(***************************************************************************)
(* deduplicate_papers: candidates that share an identity key are joined by *)
(* a union-find, unless a DOI, ISBN or arXiv id contradicts the match, and *)
(* every group is given one paper id.  The keys of a candidate are a       *)
(* frozenset of strings, which Python iterates in another order in every   *)
(* process: here, in any order.                                            *)
(***************************************************************************)
EXTENDS Naturals, FiniteSets

CONSTANTS
  N,            \* how many candidates have an identity key
  Key,          \* identity keys: [kind, value]
  StoredPaper,  \* papers the manifest may know
  StoredKeys,   \* the key sets it may know a paper by
  None

HighPriorityKinds == {"doi", "isbn", "arxiv"}

IdentityPriority == [doi |-> 0, isbn |-> 1, arxiv |-> 2, citation |-> 3, text |-> 4]

ASSUME DedupAssumption ==
  /\ N \in Nat \ {0}
  /\ Key \subseteq [kind : DOMAIN IdentityPriority, value : Nat]
  /\ StoredKeys \subseteq SUBSET Key
  /\ None \notin 1..N

Index == 1..N

(* identity_keys_for: at most one key of a kind, and at least one in all,  *)
(* for a candidate without keys is set aside.                              *)
Evidence ==
  {keys \in SUBSET Key : keys # {} /\ \A j, k \in keys : j.kind = k.kind => j = k}

(* What the manifest may know: the identity keys of each stored paper.     *)
Manifest == [StoredPaper -> StoredKeys]

VARIABLES
  evidence,  \* the identity keys of each candidate
  parents,
  owners,    \* the first candidate with a key
  groups,    \* the resulting group of each candidate
  loop       \* where the loops are

vars == <<evidence, parents, owners, groups, loop>>

(* index counts the candidates, todo is what remains of its keys; left and *)
(* right are the cursors of the two calls of _find.                        *)
LoopState ==
  [phase : {"keys", "find", "group", "done"}, index : Index, todo : SUBSET Key,
   left : Index, right : Index]

TypeOK ==
  /\ evidence \in [Index -> Evidence]
  /\ parents \in [Index -> Index]
  /\ owners \in [Key -> Index \cup {None}]
  /\ groups \in [Index -> Index \cup {None}]
  /\ loop \in LoopState

-----------------------------------------------------------------------------
HasHighPriorityConflict(left, right) ==
  \E kind \in HighPriorityKinds :
    LET of(keys) == {k \in keys : k.kind = kind}
    IN of(left) # {} /\ of(right) # {} /\ of(left) \cap of(right) = {}

CanShareIdentity(i, j) == ~HasHighPriorityConflict(evidence[i], evidence[j])

(* Mutant of LinkRoots: the older root becomes the parent of the newer.    *)
LinkNewer(left, right) ==
  IF left = right THEN parents ELSE [parents EXCEPT ![left] = right]

LinkRoots(left, right) ==
  IF left = right THEN parents ELSE [parents EXCEPT ![right] = left]

IsRoot(i) == parents[i] = i

-----------------------------------------------------------------------------
(* One key of the current candidate.                                       *)
TakeKey(k) ==
  /\ loop.phase = "keys"
  /\ k \in loop.todo

(* Mutant of ClaimKey: the candidates are counted from the next one.       *)
ClaimNextIndex(k) ==
  /\ TakeKey(k) /\ owners[k] = None
  /\ owners' = [owners EXCEPT ![k] = loop.index + 1]
  /\ loop' = [loop EXCEPT !.todo = @ \ {k}]
  /\ UNCHANGED <<evidence, parents, groups>>

ClaimKey(k) ==
  /\ TakeKey(k) /\ owners[k] = None
  /\ owners' = [owners EXCEPT ![k] = loop.index]
  /\ loop' = [loop EXCEPT !.todo = @ \ {k}]
  /\ UNCHANGED <<evidence, parents, groups>>

RefuseKey(k) ==
  /\ TakeKey(k) /\ owners[k] # None
  /\ ~CanShareIdentity(loop.index, owners[k])
  /\ loop' = [loop EXCEPT !.todo = @ \ {k}]
  /\ UNCHANGED <<evidence, parents, owners, groups>>

JoinKey(k) ==
  /\ TakeKey(k) /\ owners[k] # None
  /\ CanShareIdentity(loop.index, owners[k])
  /\ loop' = [loop EXCEPT !.phase = "find", !.todo = @ \ {k},
                          !.left = loop.index, !.right = owners[k]]
  /\ UNCHANGED <<evidence, parents, owners, groups>>

(* The two _find of _union, side by side: a root is its own parent.        *)
FindRoots ==
  /\ loop.phase = "find" /\ ~(IsRoot(loop.left) /\ IsRoot(loop.right))
  /\ loop' = [loop EXCEPT !.left = parents[@], !.right = parents[@]]
  /\ UNCHANGED <<evidence, parents, owners, groups>>

(* Mutant of Union: the owner of the key is linked, not its root.          *)
UnionOfOwner ==
  /\ loop.phase = "find" /\ IsRoot(loop.left)
  /\ parents' = LinkRoots(loop.left, loop.right)
  /\ loop' = [loop EXCEPT !.phase = "keys"]
  /\ UNCHANGED <<evidence, owners, groups>>

Union ==
  /\ loop.phase = "find" /\ IsRoot(loop.left) /\ IsRoot(loop.right)
  /\ parents' = LinkRoots(loop.left, loop.right)
  /\ loop' = [loop EXCEPT !.phase = "keys"]
  /\ UNCHANGED <<evidence, owners, groups>>

NextCandidate ==
  /\ loop.phase = "keys" /\ loop.todo = {}
  /\ loop' = IF loop.index < N
               THEN [loop EXCEPT !.index = @ + 1, !.todo = evidence[loop.index + 1]]
               ELSE [loop EXCEPT !.phase = "group", !.index = 1, !.left = 1]
  /\ UNCHANGED <<evidence, parents, owners, groups>>

(* Mutant of FindGroup: the search goes on from where it began.            *)
FindGroupFromIndex ==
  /\ loop.phase = "group" /\ ~IsRoot(loop.left)
  /\ loop' = [loop EXCEPT !.left = parents[loop.index]]
  /\ UNCHANGED <<evidence, parents, owners, groups>>

(* The _find of each candidate at the end.                                 *)
FindGroup ==
  /\ loop.phase = "group" /\ ~IsRoot(loop.left)
  /\ loop' = [loop EXCEPT !.left = parents[loop.left]]
  /\ UNCHANGED <<evidence, parents, owners, groups>>

AssignGroup ==
  /\ loop.phase = "group" /\ IsRoot(loop.left)
  /\ groups' = [groups EXCEPT ![loop.index] = loop.left]
  /\ loop' = IF loop.index < N
               THEN [loop EXCEPT !.index = @ + 1, !.left = loop.index + 1]
               ELSE [loop EXCEPT !.phase = "done"]
  /\ UNCHANGED <<evidence, parents, owners>>

-----------------------------------------------------------------------------
Init ==
  /\ evidence \in [Index -> Evidence]
  /\ parents = [i \in Index |-> i]
  /\ owners = [k \in Key |-> None]
  /\ groups = [i \in Index |-> None]
  /\ loop = [phase |-> "keys", index |-> 1, todo |-> evidence[1],
             left |-> 1, right |-> 1]

Next ==
  \/ \E k \in Key : ClaimKey(k) \/ RefuseKey(k) \/ JoinKey(k)
  \/ FindRoots \/ Union \/ NextCandidate
  \/ FindGroup \/ AssignGroup

(* One thread that nothing holds up.                                       *)
Spec == Init /\ [][Next]_vars /\ WF_vars(Next)

Done == loop.phase = "done"

-----------------------------------------------------------------------------
(* The paper id of a group, and the pairs reported for an audited merge.   *)

Before(j, k) ==
  \/ IdentityPriority[j.kind] < IdentityPriority[k.kind]
  \/ j.kind = k.kind /\ j.value < k.value

FirstKey(keys) == CHOOSE j \in keys : \A k \in keys \ {j} : Before(j, k)

StoredWith(keys, manifest) == {p \in StoredPaper : manifest[p] \cap keys # {}}

(* A known paper, a digest of all keys, or a digest of the first key.      *)
PaperIdForKeys(keys, manifest) ==
  LET found == StoredWith(keys, manifest)
  IN CASE Cardinality(found) = 1 -> [by |-> "stored", of |-> found]
       [] Cardinality(found) > 1 -> [by |-> "review", of |-> keys]
       [] OTHER                  -> [by |-> "key", of |-> {FirstKey(keys)}]

(* Mutant of PaperIdOf: from the keys of the candidate alone.              *)
PaperIdOfOwnKeys(i, manifest) == PaperIdForKeys(evidence[i], manifest)

PaperIdOf(i, manifest) ==
  PaperIdForKeys(UNION {evidence[j] : j \in {m \in Index : groups[m] = groups[i]}}, manifest)

SharedLowerKeys(i, j) ==
  {k \in evidence[i] \cap evidence[j] : k.kind \notin HighPriorityKinds}

(* Mutant of Blocked: only the next candidate is compared.                 *)
BlockedByNext(i, j) ==
  /\ groups[i] # groups[j] /\ j \in {i - 1, i + 1}
  /\ ~CanShareIdentity(i, j) /\ SharedLowerKeys(i, j) # {}

(* The pairs that an identifier kept apart, reported as merge candidates.  *)
Blocked(i, j) ==
  /\ groups[i] # groups[j]
  /\ ~CanShareIdentity(i, j) /\ SharedLowerKeys(i, j) # {}

-----------------------------------------------------------------------------
(* _find never meets a cycle: a parent is a later candidate, or the same.  *)
ParentsClimb == \A i \in Index : parents[i] >= i

(* deduplicate_papers comes to an end.                                     *)
DedupTerminates == <>Done

(* What joins candidate i to an earlier one: it is the first that has one  *)
(* of the keys of i, and no identifier contradicts it.                     *)
Joined(i, first) ==
  \E k \in evidence[i] :
    /\ first < i
    /\ k \in evidence[first] /\ \A j \in 1..(first - 1) : k \notin evidence[j]
    /\ CanShareIdentity(i, first)

Connected(i, j, Related(_, _)) ==
  \A S \in SUBSET Index :
    (i \in S /\ \A a, b \in Index : Related(a, b) => (a \in S <=> b \in S)) => j \in S

(* Whatever the order in which the keys are iterated, the groups are the   *)
(* connected candidates: the hash seed of the process has no say in it.    *)
GroupsAreConnected ==
  Done => \A i, j \in Index : groups[i] = groups[j] <=> Connected(i, j, Joined)

(* When no identifiers contradict each other, candidates with a common key *)
(* are one paper, however many others lie between them and whatever the    *)
(* manifest knows.                                                         *)
SharedKeySharesPaper ==
  (Done /\ \A i, j \in Index : CanShareIdentity(i, j)) =>
    \A i, j \in Index, manifest \in Manifest :
      evidence[i] \cap evidence[j] # {} => PaperIdOf(i, manifest) = PaperIdOf(j, manifest)

GroupedOrReported(i, j) == groups[i] = groups[j] \/ Blocked(i, j)

(* A key has one owner, and a later candidate is only compared with that   *)
(* one; still, two candidates with the same citation or the same text are  *)
(* never silently apart: groups and reported pairs lead from one to the    *)
(* other.                                                                  *)
SharedCitationIsMergedOrReported ==
  Done => \A i, j \in Index :
    SharedLowerKeys(i, j) # {} => Connected(i, j, GroupedOrReported)

(* tests/test_metadata_dedup.py:94, "when doi conflicts then lower keys do *)
(* not merge": candidates with different DOIs become different papers.     *)
ConflictingDoisStayApart ==
  Done => \A i, j \in Index, manifest \in Manifest :
    (\E a \in evidence[i], b \in evidence[j] : /\ a.kind = "doi" /\ b.kind = "doi"
                                               /\ a # b) =>
      PaperIdOf(i, manifest) # PaperIdOf(j, manifest)

=============================================================================
