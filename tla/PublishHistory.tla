--------------------------- MODULE PublishHistory ---------------------------
(***************************************************************************)
(* PublishExecution with history variables that count how often the rows   *)
(* of a job were committed to its target database and how often the stale  *)
(* job recovery put it back, to say how many repetitions the leases and    *)
(* the status filter of the queue still allow.                             *)
(***************************************************************************)
EXTENDS PublishExecution, FiniteSets

CONSTANT MaxRequeues  \* bound on the times one job is put back

ASSUME HistoryAssumption == MaxRequeues \in Nat /\ IsFiniteSet(Workers)

VARIABLES
  requeues,  \* how often each job was put back
  seen,      \* per worker: requeues when it last listed the queue
  loads,     \* how often the rows of each job were committed
  loaders    \* which worker did, and what it had seen: <<worker, requeues>>

historyVars == <<requeues, seen, loads, loaders>>
hvars == <<vars, historyVars>>

HistoryTypeOK ==
  /\ requeues \in [Jobs -> 0 .. MaxRequeues]
  /\ seen \in [Workers -> [Jobs -> 0 .. MaxRequeues]]
  /\ loads \in [Jobs -> Nat]
  /\ loaders \in [Jobs -> SUBSET (Workers \X (0 .. MaxRequeues))]

HistoryInit ==
  /\ Init
  /\ requeues = [j \in Jobs |-> 0]
  /\ seen = [w \in Workers |-> requeues]
  /\ loads = [j \in Jobs |-> 0]
  /\ loaders = [j \in Jobs |-> {}]

\* What the step is, told from the process that moves.
Listing(w) == pc[w] = "poll" /\ pc'[w] = "claim"
Loading(w, j) == pc[w] = "execute" /\ pc'[w] = "save_completed" /\ cur[w] = j
PuttingBack(r, j) == rpc[r] = "save_pending" /\ rpc'[r] = "audit_recovered" /\ rcur[r] = j

HistoryNext ==
  /\ Next
  /\ requeues' = [j \in Jobs |->
       requeues[j] + IF \E r \in Recoveries : PuttingBack(r, j) THEN 1 ELSE 0]
  /\ \A j \in Jobs : requeues'[j] <= MaxRequeues
  /\ seen' = [w \in Workers |-> IF Listing(w) THEN requeues ELSE seen[w]]
  /\ loads' = [j \in Jobs |->
       loads[j] + IF \E w \in Workers : Loading(w, j) THEN 1 ELSE 0]
  /\ loaders' = [j \in Jobs |->
       loaders[j] \cup {<<w, seen[w][j]>> : w \in {v \in Workers : Loading(v, j)}}]

HistorySpec == HistoryInit /\ [][HistoryNext]_hvars

-----------------------------------------------------------------------------
\* However leases expire, processes die and listings grow stale, the rows of a
\* job are committed at most once per replica and once more per replica each
\* time the recovery puts the job back.  With the one replica of compose.yml
\* every repetition is the work of the recovery.
LoadsBounded ==
  \A j \in Jobs : loads[j] <= Cardinality(Workers) * (1 + requeues[j])
-----------------------------------------------------------------------------
Once == INSTANCE PublishOnce WITH phase <- status, rows <- loads

\* A single replica that no recovery interferes with publishes every job at
\* most once and never takes a status back, however often it is killed, raises
\* or outlives its lease.
PublishesOnce == Once!Spec
=============================================================================
