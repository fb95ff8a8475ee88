----------------------------- MODULE JobLeases -----------------------------
(***************************************************************************)
(* The job_leases table of the control plane for one lease kind, and the   *)
(* statements ControlPlaneJsonStore runs on it, each in a transaction of   *)
(* its own (adapters/postgres/control_plane.py).                           *)
(*                                                                         *)
(* A row keeps the id its worker wrote and the time it has left.  The code *)
(* writes floor(now) + lease_seconds and calls a row expired as soon as    *)
(* lease_expires_at <= now, so the row lives through exactly lease_seconds *)
(* changes of the second: `left' counts the changes still to come, and     *)
(* Elapse is one of them.  An expired row stays in the table (left = 0)    *)
(* until an acquisition of the same job deletes it.                        *)
(***************************************************************************)
EXTENDS Integers

CONSTANTS
  NumJobs,       \* how many jobs can be requested
  LeaseSeconds,  \* lease_seconds: twice the configured heartbeat interval
  WorkerIds,     \* the values SDP_WORKER_ID takes
  NoLease        \* there is no row for the job

\* Jobs are numbered in the order of their created_at.
Jobs == 1 .. NumJobs

LeaseRow == [worker: WorkerIds, left: 0 .. LeaseSeconds]

ASSUME LeaseAssumption ==
  /\ NumJobs \in Nat \ {0}
  /\ LeaseSeconds \in Nat \ {0}
  /\ NoLease \notin LeaseRow

VARIABLE leases

LeasesOK == leases \in [Jobs -> LeaseRow \cup {NoLease}]

NoLeases == [j \in Jobs |-> NoLease]

\* Fault: the expiry is rounded up to the second instead of down.
FreshLeaseRoundedUp(id) == [worker |-> id, left |-> LeaseSeconds + 1]

FreshLease(id) == [worker |-> id, left |-> LeaseSeconds]

HasActiveLease(j) == leases[j] # NoLease /\ leases[j].left > 0

\* Fault: ON CONFLICT DO UPDATE, which takes the row of whoever has it.
AcquireLeaseOverwriting(j, id) == leases' = [leases EXCEPT ![j] = FreshLease(id)]

\* Fault: an expired row is taken as it is, its expiry is not renewed.
AcquireLeaseUnrenewed(j, id) ==
  /\ ~HasActiveLease(j)
  /\ leases' = [leases EXCEPT ![j] =
                  IF @ = NoLease THEN FreshLease(id) ELSE [@ EXCEPT !.worker = id]]

\* Fault: the expired row is not deleted, so the insertion always conflicts.
AcquireLeaseIfNoRow(j, id) ==
  /\ leases[j] = NoLease
  /\ leases' = [leases EXCEPT ![j] = FreshLease(id)]

\* DELETE the row if it has expired, then INSERT ... ON CONFLICT DO NOTHING:
\* the insertion takes place exactly when no active row is in the way.
AcquireLease(j, id) ==
  /\ ~HasActiveLease(j)
  /\ leases' = [leases EXCEPT ![j] = FreshLease(id)]

\* Fault: the UPDATE does not ask for the worker.
HeartbeatAnyLease(j, id) ==
  leases' = [leases EXCEPT ![j] = IF @ # NoLease THEN FreshLease(id) ELSE @]

\* UPDATE ... WHERE worker_id = id.  It finds an expired row too, and makes it
\* active again; it silently does nothing when the row is gone or another's.
HeartbeatLease(j, id) ==
  leases' = [leases EXCEPT ![j] =
               IF @ # NoLease /\ @.worker = id THEN FreshLease(id) ELSE @]

\* DELETE by job alone: whoever holds the row loses it.
ReleaseLease(j) == leases' = [leases EXCEPT ![j] = NoLease]

\* The wall clock enters the next second.
Elapse ==
  /\ \E j \in Jobs : HasActiveLease(j)
  /\ leases' = [j \in Jobs |->
                  IF HasActiveLease(j)
                  THEN [leases[j] EXCEPT !.left = @ - 1]
                  ELSE leases[j]]
=============================================================================
