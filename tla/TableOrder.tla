------------------------------ MODULE TableOrder ------------------------------
(***************************************************************************)
(* _order_tables of the refresh pipelines: the importOrder in which the    *)
(* assets of a baseline are loaded.  A table is ready when every table its *)
(* foreign keys reference has been placed; what never gets ready comes     *)
(* last.  Tables are numbered by qualified_name.                           *)
(***************************************************************************)
EXTENDS Naturals, FiniteSets

CONSTANTS
  NumTables,   \* the active tables of the catalog
  ForeignKeys  \* the active foreign keys between columns of these tables

ASSUME OrderAssumption ==
  /\ NumTables \in Nat
  /\ IsFiniteSet(ForeignKeys)

Tables == 1 .. NumTables

VARIABLES
  fks,          \* the table each foreign key is a column of and the one it references
  count,        \* inbound_count
  placed,       \* the tables in "ordered"
  importOrder,  \* the place of each of them, 0 for the others
  phase

orderVars == <<fks, count, placed, importOrder, phase>>

\* outgoing: one edge for all foreign keys between two tables, none for a table
\* that references itself.
Edges == {fks[f] : f \in {g \in ForeignKeys : fks[g][1] # fks[g][2]}}

OrderOK ==
  /\ fks \in [ForeignKeys -> Tables \X Tables]
  /\ count \in [Tables -> Nat]
  /\ placed \in SUBSET Tables
  /\ importOrder \in [Tables -> 0 .. NumTables]
  /\ phase \in {"count", "ready", "rest"}

OrderInit ==
  /\ fks \in [ForeignKeys -> Tables \X Tables]
  /\ count = [t \in Tables |-> 0]
  /\ placed = {}
  /\ importOrder = [t \in Tables |-> 0]
  /\ phase = "count"

Referenced(t) == {u \in Tables : <<t, u>> \in Edges}

\* Fault: each of several foreign keys between two tables counts.
InboundCountAll ==
  /\ phase = "count"
  /\ count' = [t \in Tables |-> Cardinality({f \in ForeignKeys : fks[f][1] = t /\ fks[f][2] # t})]
  /\ phase' = "ready"
  /\ UNCHANGED <<fks, placed, importOrder>>

InboundCount ==
  /\ phase = "count"
  /\ count' = [t \in Tables |-> Cardinality(Referenced(t))]
  /\ phase' = "ready"
  /\ UNCHANGED <<fks, placed, importOrder>>

Ready == {t \in Tables \ placed : count[t] = 0}

\* The first of a set of tables by name is placed.
PlaceFirst(S, t) ==
  /\ t \in S
  /\ \A u \in S : t <= u
  /\ placed' = placed \cup {t}
  /\ importOrder' = [importOrder EXCEPT ![t] = Cardinality(placed) + 1]
  /\ UNCHANGED fks

PlaceReady == \E t \in Tables :
  /\ phase = "ready"
  /\ PlaceFirst(Ready, t)
  /\ count' = [u \in Tables |-> IF <<u, t>> \in Edges THEN count[u] - 1 ELSE count[u]]
  /\ UNCHANGED phase

GiveUp ==
  /\ phase = "ready" /\ Ready = {}
  /\ phase' = "rest"
  /\ UNCHANGED <<fks, count, placed, importOrder>>

PlaceRest == \E t \in Tables :
  /\ phase = "rest"
  /\ PlaceFirst(Tables \ placed, t)
  /\ UNCHANGED <<count, phase>>

OrderNext == InboundCount \/ PlaceReady \/ GiveUp \/ PlaceRest

OrderSpec == OrderInit /\ [][OrderNext]_orderVars

-----------------------------------------------------------------------------
\* Every table of the set waits for another one of it.
Circular(S) == \A t \in S : Referenced(t) \cap S # {}

\* The tables on a cycle of references or with a chain of references into one.
Waiting == UNION {S \in SUBSET Tables : Circular(S)}

\* A table is loaded after every table it references, whatever cycles there are
\* among other tables: only what waits for a cycle is exempt.
ReferencedFirst ==
  \A t \in placed \ Waiting : \A u \in Referenced(t) :
    u \in placed /\ importOrder[u] < importOrder[t]
=============================================================================
