-------------------------- MODULE MCBaselineRefresh --------------------------
(* Values of the constants for TLC. *)
EXTENDS BaselineRefresh

OwnIds == [w \in Workers |-> w]
RefreshWorkers == [w \in Workers |-> "baseline_refresh"]
RefreshJobs == [j \in 1 .. NumJobs |-> "baseline_refresh"]
=============================================================================
