------------------------ MODULE MCPublishExecution ------------------------
(* Values for the constants of PublishExecution.                           *)
EXTENDS PublishExecution, TLC

\* compose.yml gives each replica an id of its own.
OwnIds == [w \in Workers |-> w]

Replicas == Permutations(Workers)
=============================================================================
