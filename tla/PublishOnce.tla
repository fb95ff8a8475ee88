----------------------------- MODULE PublishOnce -----------------------------
(***************************************************************************)
(* What the platform promises of a publish job while nothing is put back:  *)
(* it moves through its statuses in one direction and its rows reach the   *)
(* target database at most once, before it is called completed.            *)
(***************************************************************************)
EXTENDS Naturals

CONSTANT Jobs

VARIABLES phase, rows

Submit(j) == phase[j] = "absent" /\ phase' = [phase EXCEPT ![j] = "pending"] /\ UNCHANGED rows

Start(j) == phase[j] = "pending" /\ phase' = [phase EXCEPT ![j] = "planning"] /\ UNCHANGED rows

Load(j) ==
  /\ phase[j] = "planning" /\ rows[j] = 0
  /\ rows' = [rows EXCEPT ![j] = 1]
  /\ UNCHANGED phase

Finish(j) ==
  /\ phase[j] = "planning" /\ rows[j] = 1
  /\ phase' = [phase EXCEPT ![j] = "completed"]
  /\ UNCHANGED rows

\* Even a completed job may fail: its trail is written after its status.
Fail(j) ==
  /\ phase[j] \in {"pending", "planning", "completed"}
  /\ phase' = [phase EXCEPT ![j] = "failed"]
  /\ UNCHANGED rows

Init == phase = [j \in Jobs |-> "absent"] /\ rows = [j \in Jobs |-> 0]

Next == \E j \in Jobs : Submit(j) \/ Start(j) \/ Load(j) \/ Finish(j) \/ Fail(j)

Spec == Init /\ [][Next]_<<phase, rows>>
=============================================================================
