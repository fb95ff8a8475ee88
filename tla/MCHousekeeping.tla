---------------------------- MODULE MCHousekeeping ----------------------------
(***************************************************************************)
(* What one-shot processes look after: the artifacts (retention, cleanup)  *)
(* and the schedules (dispatch, recovery).  The two have nothing in        *)
(* common, so a behaviour is one of them and the other stands still, as it *)
(* may in either specification: in its initial state nothing is bound to   *)
(* happen.                                                                 *)
(***************************************************************************)
EXTENDS ArtifactLifecycle, RefreshSchedule

VARIABLE running

housekeepingVars == <<running, vars, scheduleVars>>

HousekeepingInit == running \in {"artifacts", "schedules"} /\ Init /\ ScheduleInit

HousekeepingNext ==
  /\ UNCHANGED running
  /\ IF running = "artifacts" THEN Next ELSE UNCHANGED vars
  /\ IF running = "schedules" THEN ScheduleNext ELSE UNCHANGED scheduleVars

FairSpec ==
  HousekeepingInit /\ [][HousekeepingNext]_housekeepingVars /\ Fairness /\ ScheduleFairness
=============================================================================
