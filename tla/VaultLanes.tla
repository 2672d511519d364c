------------------------------ MODULE VaultLanes ------------------------------
(***************************************************************************)
(* The privacy lanes and stage statuses every other module speaks of, and  *)
(* the pure policy functions of schema.py, quarantine.py and               *)
(* review_policy.py that tie a stage to a lane.  StrEnum members are kept  *)
(* as their string values.                                                 *)
(***************************************************************************)

Lane == {"green", "amber", "red"}

StageStatus == {"pending", "running", "complete", "failed", "quarantined"}

InstanceStatus == {"available", "missing", "pending_sync", "quarantined"}

(* The stage the scan classifier gives a lane.                             *)
StageForLane(lane) ==
  CASE lane = "green" -> "complete"
    [] lane = "amber" -> "pending"
    [] lane = "red"   -> "quarantined"

(* The stage of a queue row that sync_required_review_items creates.  It   *)
(* agrees with StageForLane, and the code states it a second time.         *)
SyncedStageForLane(lane) ==
  CASE lane = "amber" -> "pending"
    [] lane = "red"   -> "quarantined"
    [] lane = "green" -> "complete"

(* The stage of a queue row after a reviewer reclassified its paper: a     *)
(* green one is queued for processing, not complete.                       *)
StageAfterReclassify(lane) ==
  IF lane = "red" THEN "quarantined" ELSE "pending"

(* May an artifact row of this lane and stage name a vector artifact?      *)
CanCarryVectorPath(lane, stage) ==
  lane # "red" /\ stage # "quarantined"

=============================================================================
