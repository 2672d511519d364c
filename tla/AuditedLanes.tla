----------------------------- MODULE AuditedLanes -----------------------------
(***************************************************************************)
(* What the review side of the vault promises, without its queue: a paper  *)
(* has a privacy lane and the vault an audit trail.  The classifier may    *)
(* put a paper into any lane, and what it said last is on record.  A       *)
(* reviewer changes the lane of one paper at a time, and every such change *)
(* is one step with the new entry of the trail that names the paper and    *)
(* says which lane it was put into.                                        *)
(***************************************************************************)
CONSTANTS Paper, Lane, None,
          Entry,           \* audit entries
          PaperOf(_),      \* the paper an entry is about
          Grants(_, _)     \* does an entry say that its paper got this lane?

VARIABLES lane, classified, trail

vars == <<lane, classified, trail>>

Init ==
  /\ lane \in [Paper -> Lane \cup {None}]
  /\ classified = lane
  /\ trail = {}

(* A paper may be known before it is classified.                           *)
Register(p, l) ==
  /\ lane[p] = None
  /\ lane' = [lane EXCEPT ![p] = l]
  /\ UNCHANGED <<classified, trail>>

Classify(p, l) ==
  /\ lane' = [lane EXCEPT ![p] = l]
  /\ classified' = [classified EXCEPT ![p] = l]
  /\ UNCHANGED trail

(* A decision about a paper that leaves its lane alone is recorded too.    *)
Note(e) ==
  /\ e \notin trail
  /\ trail' = trail \cup {e}
  /\ UNCHANGED <<lane, classified>>

Decide(e, l) ==
  /\ e \notin trail
  /\ Grants(e, l)
  /\ trail' = trail \cup {e}
  /\ lane' = [lane EXCEPT ![PaperOf(e)] = l]
  /\ UNCHANGED classified

(* The entry of a step is one of those the trail has after it.             *)
Next ==
  \/ \E p \in Paper, l \in Lane : Register(p, l) \/ Classify(p, l)
  \/ \E e \in Entry \cap trail' : Note(e) \/ \E l \in Lane : Decide(e, l)

Spec == Init /\ [][Next]_vars

=============================================================================
