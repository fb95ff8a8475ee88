---------------------------- MODULE MCArtifactFlow ----------------------------
(* Values of the constants for TLC.                                        *)
EXTENDS ArtifactFlow, TLC

CONSTANT we  \* the extraction worker, if it takes part

OwnIds == [w \in Workers |-> w]
OneOfEach == [w \in Workers |-> IF w = we THEN "extraction" ELSE "artifact_publish"]

OneExtraction == [j \in 1 .. NumJobs |-> IF j = 1 THEN "extraction" ELSE "artifact_publish"]
OnlyPublishes == [j \in 1 .. NumJobs |-> "artifact_publish"]

SameArtifacts == Permutations(Artifacts)

\* Jobs outside the instance have extracted every artifact.
Extracted ==
  /\ QueueInit
  /\ files = Artifacts /\ due = {}
  /\ record = [a \in Artifacts |-> "available"]
  /\ extracting = NoArtifact
  /\ looked = [c \in Callers |-> NoArtifact]
  /\ found = [c \in Callers |-> "none"]
  /\ listed = [r \in Retentions |-> {}]
  /\ expired = [d \in Cleanups |-> {}]
  /\ removing = [d \in Cleanups |-> NoArtifact]
  /\ maker = [a \in Artifacts |-> NoJob]
  /\ wanted = [j \in Jobs |-> NoArtifact]
  /\ loaded = {}

ExtractedSpec == Extracted /\ [][Next]_vars /\ Fairness
=============================================================================
