--------------------------- MODULE MetadataIngestion ---------------------------
(***************************************************************************)
(* MetadataIngestionService.ingest_discovered_metadata: it lists schemas,  *)
(* tables, columns and relationships of a source, over a connection each,  *)
(* and then saves them in the catalog one by one.  The source goes on      *)
(* changing meanwhile, and nothing is ever taken out of the catalog.       *)
(***************************************************************************)
EXTENDS Naturals

CONSTANTS
  Objects,         \* what the source may contain, views included
  Kind,            \* "schema", "table", "view", "column" or "relationship"
  Refers,          \* the objects each one belongs to or joins
  Ingestions,      \* ingestions that may overlap
  GrowsWhileListed \* TRUE: objects may be created during the four listings

\* The order in which the kinds are listed and saved; views are never listed,
\* but their columns are.
Place == [schema |-> 1, table |-> 2, view |-> 2, column |-> 3, relationship |-> 4]

ASSUME IngestionAssumption ==
  /\ Kind \in [Objects -> DOMAIN Place]
  /\ Refers \in [Objects -> SUBSET Objects]
  /\ \A o \in Objects : \A p \in Refers[o] : Place[Kind[p]] < Place[Kind[o]]
  /\ GrowsWhileListed \in BOOLEAN

VARIABLES
  source,   \* what is in the source database
  catalog,  \* the records of the metadata catalog
  stage,    \* ingestion: its next call
  found,    \* ingestion: what it has listed and not saved yet
  standing  \* what has been in the source ever since its first listing

ingestionVars == <<source, catalog, stage, found, standing>>

\* The number of each stage is that of the kind it lists.
StageNumber ==
  [list_schemas |-> 1, list_tables |-> 2, list_columns |-> 3, list_relationships |-> 4,
   upsert |-> 5, ingested |-> 6]

Listing(i) == stage[i] \in {"list_tables", "list_columns", "list_relationships"}

Listable == {o \in Objects : Kind[o] # "view"}

\* What the source contains has all it belongs to.
Closed(S) == \A o \in S : Refers[o] \subseteq S

IngestionOK ==
  /\ source \in SUBSET Objects
  /\ catalog \in SUBSET Listable
  /\ stage \in [Ingestions -> DOMAIN StageNumber]
  /\ found \in [Ingestions -> SUBSET Listable]
  /\ standing \in [Ingestions -> SUBSET Objects]

IngestionInit ==
  /\ source \in SUBSET Objects /\ Closed(source)
  /\ catalog = {}
  /\ stage = [i \in Ingestions |-> "list_schemas"]
  /\ found = [i \in Ingestions |-> {}]
  /\ standing = [i \in Ingestions |-> {}]

-----------------------------------------------------------------------------
(* The source.                                                             *)

CreateObject == \E o \in Objects \ source :
  /\ Refers[o] \subseteq source
  /\ GrowsWhileListed \/ ~\E i \in Ingestions : Listing(i)
  /\ source' = source \cup {o}
  /\ UNCHANGED <<catalog, stage, found, standing>>

\* An object is dropped after what belongs to it.
DropObject == \E o \in source :
  /\ Closed(source \ {o})
  /\ source' = source \ {o}
  /\ standing' = [i \in Ingestions |-> standing[i] \ {o}]
  /\ UNCHANGED <<catalog, stage, found>>

-----------------------------------------------------------------------------
(* The ingestion.                                                          *)

List(i, kind, from, to) ==
  /\ stage[i] \in from
  /\ stage' = [stage EXCEPT ![i] = to]
  /\ found' = [found EXCEPT ![i] = @ \cup {o \in source : Kind[o] = kind}]
  /\ UNCHANGED <<source, catalog>>

ListSchemas(i) ==
  /\ List(i, "schema", {"list_schemas", "ingested"}, "list_tables")
  /\ standing' = [standing EXCEPT ![i] = source]

ListTables(i) ==
  List(i, "table", {"list_tables"}, "list_columns") /\ UNCHANGED standing

\* The columns of tables and of views.
ListColumns(i) ==
  List(i, "column", {"list_columns"}, "list_relationships") /\ UNCHANGED standing

\* Primary keys, then foreign keys: a change of the source between the two
\* queries can as well come before both, or after.
ListRelationships(i) ==
  List(i, "relationship", {"list_relationships"}, "upsert") /\ UNCHANGED standing

Upsert(i, o) ==
  /\ stage[i] = "upsert" /\ o \in found[i]
  /\ catalog' = catalog \cup {o}
  /\ found' = [found EXCEPT ![i] = @ \ {o}]
  /\ UNCHANGED <<source, stage, standing>>

UpsertObject(i) == \E o \in found[i] :
  /\ Kind[o] # "relationship"
  /\ \A p \in found[i] : Place[Kind[o]] <= Place[Kind[p]]
  /\ Upsert(i, o)

\* Fault: the relationships do not wait for the objects.
UpsertRelationshipEarly(i) == \E o \in found[i] : Kind[o] = "relationship" /\ Upsert(i, o)

UpsertRelationship(i) == \E o \in found[i] :
  /\ \A p \in found[i] : Kind[p] = "relationship"
  /\ Upsert(i, o)

\* Fault: the relationships are discovered, and not saved.
ReturnObjects(i) ==
  /\ stage[i] = "upsert" /\ \A o \in found[i] : Kind[o] = "relationship"
  /\ stage' = [stage EXCEPT ![i] = "ingested"]
  /\ found' = [found EXCEPT ![i] = {}]
  /\ UNCHANGED <<source, catalog, standing>>

ReturnCatalog(i) ==
  /\ stage[i] = "upsert" /\ found[i] = {}
  /\ stage' = [stage EXCEPT ![i] = "ingested"]
  /\ UNCHANGED <<source, catalog, found, standing>>

\* A query or a save raises, or the process is killed.
AbortIngestion(i) ==
  /\ stage[i] \notin {"list_schemas", "ingested"}
  /\ stage' = [stage EXCEPT ![i] = "list_schemas"]
  /\ found' = [found EXCEPT ![i] = {}]
  /\ standing' = [standing EXCEPT ![i] = {}]
  /\ UNCHANGED <<source, catalog>>

IngestionStep(i) ==
  \/ ListSchemas(i) \/ ListTables(i) \/ ListColumns(i) \/ ListRelationships(i)
  \/ UpsertObject(i) \/ UpsertRelationship(i) \/ ReturnCatalog(i)

IngestionNext ==
  \/ CreateObject \/ DropObject
  \/ \E i \in Ingestions : IngestionStep(i) \/ AbortIngestion(i)

IngestionSpec == IngestionInit /\ [][IngestionNext]_ingestionVars

-----------------------------------------------------------------------------
\* As long as nothing is created while an ingestion is listing, the catalog
\* refers to nothing it does not have, but the views: at any moment of an
\* ingestion, after one that broke off, and whatever was dropped in between.
CatalogResolves ==
  ~GrowsWhileListed => \A o \in catalog : Refers[o] \cap Listable \subseteq catalog

\* When an ingestion returns, the catalog has everything that was in the source
\* from its first listing on, whatever was created and dropped meanwhile.
IngestedIsComplete ==
  \A i \in Ingestions : stage[i] = "ingested" => standing[i] \cap Listable \subseteq catalog
=============================================================================
