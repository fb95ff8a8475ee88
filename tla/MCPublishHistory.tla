-------------------------- MODULE MCPublishHistory --------------------------
(* Values for the constants of PublishHistory.                             *)
EXTENDS PublishHistory, TLC

\* compose.yml gives each replica an id of its own.
OwnIds == [w \in Workers |-> w]

Replicas == Permutations(Workers)
=============================================================================
