----------------------------- MODULE MCDecisions -----------------------------
(***************************************************************************)
(* Values of the constants for TLC, and one specification for the modules  *)
(* of what the program computes for itself: a behaviour is one of the      *)
(* computations, the others stand still.                                   *)
(***************************************************************************)
EXTENDS TableOrder, Materialization, ExtractionPlanning, BaselineSelection, PolicyGovernance,
  MetadataIngestion

CONSTANTS c1, c2, c3, k1, k2, k3, k4, app, orders, report, orderId, reportId, orderKey

VARIABLE running

vars == <<running, orderVars, materialVars, planVars, selectionVars, governanceVars, ingestionVars>>

\* Columns in two steps from each other, by keys of opposite directions.
TwoPairs == {<<c1, c2>>, <<c3, c2>>}

SomeHandlings == {<<Masking, FALSE>>, <<Tokenization, TRUE>>}

\* All pairs of five tables; a second foreign key between two of them that goes
\* the other way, and one of a table to itself.
SomeRelationships ==
  {r \in (1 .. 5) \X (1 .. 5) \X {1} : r[1] < r[2]} \cup {<<2, 1, 2>>, <<3, 3, 1>>}

\* A table and a view with a column each, and a key on the table's column.
SomeKinds ==
  [o \in Objects |-> CASE o = app -> "schema" [] o = orders -> "table" [] o = report -> "view"
                     [] o \in {orderId, reportId} -> "column" [] OTHER -> "relationship"]

SomeReferences ==
  [o \in Objects |-> CASE o = app -> {} [] o \in {orders, report} -> {app} [] o = orderId -> {orders}
                     [] o = reportId -> {report} [] OTHER -> {orders, orderId}]

NoFacts == [selectable |-> FALSE, matches |-> FALSE, stored |-> FALSE, report |-> "none"]

Init ==
  /\ running \in {"order", "material", "plan", "selection", "governance", "ingestion"}
  /\ running = "governance" \/ (tags = [c \in Columns |-> {}] /\ foreignKeys = {} /\ policies = <<>>)
  /\ GovernanceInit
  /\ running = "order" \/ fks = [f \in ForeignKeys |-> <<1, 1>>]
  /\ OrderInit
  /\ running = "material" \/ rows = [t \in Sources |-> 0]
  /\ MaterialInit
  /\ running = "plan" \/ (links = {} /\ rootIsTable = TRUE /\ maxDepth = 0)
  /\ PlanInit
  /\ running = "selection" \/ baseline = [b \in Baselines |-> NoFacts]
  /\ SelectionInit
  /\ running = "ingestion" \/ source = {}
  /\ IngestionInit

Next ==
  /\ UNCHANGED running
  /\ IF running = "order" THEN OrderNext ELSE UNCHANGED orderVars
  /\ IF running = "material" THEN MaterialNext ELSE UNCHANGED materialVars
  /\ IF running = "plan" THEN PlanNext ELSE UNCHANGED planVars
  /\ IF running = "selection" THEN SelectionNext ELSE UNCHANGED selectionVars
  /\ IF running = "governance" THEN GovernanceNext ELSE UNCHANGED governanceVars
  /\ IF running = "ingestion" THEN IngestionNext ELSE UNCHANGED ingestionVars

Spec == Init /\ [][Next]_vars

TypeOK == OrderOK /\ MaterialOK /\ PlanOK /\ SelectionOK /\ GovernanceOK /\ IngestionOK
=============================================================================
