-------------------------- MODULE ExtractionPlanning --------------------------
(***************************************************************************)
(* ExtractionPlanningService.build_plan: from the root it follows foreign  *)
(* keys, in both directions, up to a maximal depth.  One step takes one    *)
(* table from the queue and looks at all its neighbors.                    *)
(***************************************************************************)
EXTENDS Naturals, Sequences, FiniteSets, SequencesExt

CONSTANTS
  Relationships,  \* what may be <<source table, target table, id>>
  Root,           \* the table of the root object
  MaxDepth        \* bound of max_depth

ASSUME PlanAssumption ==
  /\ IsFiniteSet(Relationships)
  /\ MaxDepth \in Nat

VARIABLES
  links,        \* the active foreign keys between active columns
  rootIsTable,  \* the root object is a table, not one of its columns
  maxDepth,     \* max_depth, 0 if include_related is not set
  queue,        \* tables to expand, with their depth
  visited,
  selected,     \* the tables among selected_object_ids
  followed      \* selected_relationship_ids

planVars == <<links, rootIsTable, maxDepth, queue, visited, selected, followed>>

PlanTables == {Root} \cup {r[1] : r \in Relationships} \cup {r[2] : r \in Relationships}

PlanOK ==
  /\ links \in SUBSET Relationships
  /\ rootIsTable \in BOOLEAN
  /\ maxDepth \in 0 .. MaxDepth
  /\ queue \in Seq(PlanTables \X (0 .. MaxDepth))
  /\ visited \in SUBSET PlanTables
  /\ selected \in SUBSET visited
  /\ followed \in SUBSET links

PlanInit ==
  /\ links \in SUBSET Relationships
  /\ rootIsTable \in BOOLEAN
  /\ maxDepth \in 0 .. MaxDepth
  /\ queue = IF maxDepth = 0 THEN <<>> ELSE << <<Root, 0>> >>
  /\ visited = {Root}
  /\ selected = IF rootIsTable THEN {Root} ELSE {}
  /\ followed = {}

\* table_neighbors: the relationships of a table, and the tables they lead to.
Joining(t) == {r \in links : t \in {r[1], r[2]}}

Neighbors(t) == {r[1] : r \in Joining(t)} \cup {r[2] : r \in Joining(t)}

SkipDeep ==
  /\ queue # <<>> /\ Head(queue)[2] >= maxDepth
  /\ queue' = Tail(queue)
  /\ UNCHANGED <<links, rootIsTable, maxDepth, visited, selected, followed>>

\* Fault: what is found goes to the front of the queue.
ExpandFirst ==
  LET t == Head(queue)[1]
      depth == Head(queue)[2]
      found == Neighbors(t) \ visited
  IN /\ queue # <<>> /\ depth < maxDepth
     /\ \E s \in SetToSeqs(found) :
          queue' = [i \in DOMAIN s |-> <<s[i], depth + 1>>] \o Tail(queue)
     /\ visited' = visited \cup found
     /\ selected' = selected \cup found
     /\ followed' = followed \cup Joining(t)
     /\ UNCHANGED <<links, rootIsTable, maxDepth>>

\* The neighbors are met in the order of the relationships' ids.
Expand ==
  LET t == Head(queue)[1]
      depth == Head(queue)[2]
      found == Neighbors(t) \ visited
  IN /\ queue # <<>> /\ depth < maxDepth
     /\ \E s \in SetToSeqs(found) :
          queue' = Tail(queue) \o [i \in DOMAIN s |-> <<s[i], depth + 1>>]
     /\ visited' = visited \cup found
     /\ selected' = selected \cup found
     /\ followed' = followed \cup Joining(t)
     /\ UNCHANGED <<links, rootIsTable, maxDepth>>

PlanNext == SkipDeep \/ Expand

PlanSpec == PlanInit /\ [][PlanNext]_planVars

-----------------------------------------------------------------------------
\* Ways from the root over n foreign keys, or fewer.
Ways(n) ==
  {way \in [0 .. n -> PlanTables] :
    way[0] = Root /\ \A i \in 1 .. n : way[i] \in Neighbors(way[i - 1]) \cup {way[i - 1]}}

\* The tables within n foreign keys of the root.
Within(n) == {way[n] : way \in Ways(n)}

\* A plan holds the tables within max_depth foreign keys of the root, by the
\* shortest way, and the foreign keys of those that are nearer: of two tables
\* at the limit none.  The table of a root column is not part of it.
PlanIsNeighbourhood ==
  queue = <<>> =>
    /\ selected = Within(maxDepth) \ (IF rootIsTable THEN {} ELSE {Root})
    /\ followed = IF maxDepth = 0 THEN {} ELSE UNION {Joining(t) : t \in Within(maxDepth - 1)}
=============================================================================
