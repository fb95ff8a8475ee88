---------------------------- MODULE DecisionProofs ----------------------------
(* Proofs about what the program computes for itself, for any values of    *)
(* the constants: the modules of MCDecisions one by one, each under its    *)
(* own specification.                                                      *)
EXTENDS MCDecisions, FiniteSetTheorems, SequenceTheorems, WellFoundedInduction, TLAPS

\* The library's least element, for a set of numbers.
LEMMA LeastNumber ==
  ASSUME NEW T \in SUBSET Nat, T # {}
  PROVE  \E m \in T : \A k \in T : m <= k
<1>1. \E m \in T : \A k \in T : <<k, m>> \notin OpToRel(<, Nat)
  BY NatLessThanWellFounded, WFMin
<1>2. \A k, m \in T : <<k, m>> \notin OpToRel(<, Nat) => m <= k
  BY DEF OpToRel
<1> QED BY <1>1, <1>2

-----------------------------------------------------------------------------
(* TableOrder.                                                             *)

LEMMA TablesFinite ==
  /\ IsFiniteSet(Tables) /\ Cardinality(Tables) = NumTables
  /\ \A S \in SUBSET Tables : IsFiniteSet(S) /\ Cardinality(S) \in Nat /\ Cardinality(S) <= NumTables
<1>1. IsFiniteSet(Tables) /\ Cardinality(Tables) = NumTables
  BY OrderAssumption, FS_Interval DEF Tables
<1>2. ASSUME NEW S \in SUBSET Tables
      PROVE  IsFiniteSet(S) /\ Cardinality(S) \in Nat /\ Cardinality(S) <= NumTables
  BY <1>1, FS_Subset, FS_CardinalityType
<1> QED BY <1>1, <1>2

-----------------------------------------------------------------------------
(* The invariant.  The count of a table that is not placed is that of its  *)
(* references not placed; what is left in the end waits for a cycle; the   *)
(* places are taken in order.                                              *)

CountsUnplaced ==
  /\ phase = "count" => placed = {}
  /\ phase = "ready" =>
       /\ \A t \in Tables \ placed : count[t] = Cardinality(Referenced(t) \ placed)
       /\ \A t \in placed : Referenced(t) \subseteq placed
  /\ phase = "rest" => Tables \ placed \subseteq Waiting
  /\ \A t \in placed : importOrder[t] <= Cardinality(placed)

Ordered == OrderOK /\ CountsUnplaced /\ ReferencedFirst

LEMMA InitOrdered == OrderInit => Ordered
BY OrderAssumption DEF OrderInit, Ordered, OrderOK, CountsUnplaced, ReferencedFirst, Tables

\* The foreign keys do not change, nor does what is said of them.
LEMMA SameKeys ==
  ASSUME fks' = fks
  PROVE  /\ Edges' = Edges
         /\ \A t : Referenced(t)' = Referenced(t)
         /\ Waiting' = Waiting
BY DEF Edges, Referenced, Waiting, Circular

LEMMA NextOrdered == Ordered /\ [OrderNext]_orderVars => Ordered'
<1> SUFFICES ASSUME Ordered, [OrderNext]_orderVars
             PROVE  Ordered'
  OBVIOUS
<1> USE DEF Ordered, OrderOK
<1>1. CASE InboundCount
  <2>1. /\ fks' = fks /\ placed' = {} /\ placed = {} /\ importOrder' = importOrder
        /\ phase' = "ready" /\ count' = [t \in Tables |-> Cardinality(Referenced(t))]
    BY <1>1 DEF InboundCount, CountsUnplaced
  <2>2. \A t \in Tables : Referenced(t) \subseteq Tables /\ Cardinality(Referenced(t)) \in Nat
    BY TablesFinite DEF Referenced
  <2>3. OrderOK'
    BY <2>1, <2>2
  <2>4. \A t \in Tables : Referenced(t)' = Referenced(t) /\ Referenced(t) \ {} = Referenced(t)
    BY <2>1, SameKeys
  <2>5. CountsUnplaced'
    BY <2>1, <2>4 DEF CountsUnplaced
  <2> QED BY <2>1, <2>3, <2>5 DEF ReferencedFirst
<1>2. CASE PlaceReady
  <2>1. PICK t \in Tables : /\ phase = "ready" /\ PlaceFirst(Ready, t) /\ phase' = phase
                            /\ count' = [u \in Tables |-> IF <<u, t>> \in Edges THEN count[u] - 1 ELSE count[u]]
    BY <1>2 DEF PlaceReady
  <2>2. /\ t \notin placed /\ count[t] = 0 /\ fks' = fks
        /\ placed' = placed \cup {t}
        /\ importOrder' = [importOrder EXCEPT ![t] = Cardinality(placed) + 1]
    BY <2>1 DEF PlaceFirst, Ready
  <2>3. /\ Cardinality(placed) \in Nat /\ Cardinality(placed') = Cardinality(placed) + 1
        /\ Cardinality(placed) + 1 <= NumTables
    <3>1. placed' \in SUBSET Tables
      BY <2>2
    <3>2. IsFiniteSet(placed)
      BY TablesFinite
    <3>3. Cardinality(placed') = Cardinality(placed) + 1
      BY <2>2, <3>2, FS_AddElement
    <3> QED BY <3>1, <3>3, TablesFinite
  <2>4. Referenced(t) \subseteq placed
    <3>1. Referenced(t) \ placed \in SUBSET Tables
      BY DEF Referenced
    <3>2. Cardinality(Referenced(t) \ placed) = 0
      BY <2>1, <2>2 DEF CountsUnplaced
    <3>3. Referenced(t) \ placed = {}
      BY <3>1, <3>2, TablesFinite, FS_EmptySet
    <3> QED BY <3>3
  <2>5. \A u \in Tables : <<u, t>> \in Edges => u \notin placed /\ u # t
    <3>1. \A u \in Tables : <<u, t>> \in Edges => t \in Referenced(u)
      BY DEF Referenced
    <3>2. t \notin Referenced(t)
      BY <2>2, <2>4
    <3> QED BY <2>1, <2>2, <3>1, <3>2 DEF CountsUnplaced
  <2>6. ASSUME NEW u \in Tables \ placed'
        PROVE  count'[u] = Cardinality(Referenced(u) \ placed') /\ count'[u] \in Nat
    <3>1. Referenced(u) \ placed \in SUBSET Tables
      BY DEF Referenced
    <3>2. count[u] = Cardinality(Referenced(u) \ placed)
      BY <2>1, <2>2 DEF CountsUnplaced
    <3>3. Referenced(u) \ placed' = (Referenced(u) \ placed) \ {t}
      BY <2>2
    <3>4. <<u, t>> \in Edges <=> t \in Referenced(u) \ placed
      BY <2>2 DEF Referenced
    <3>5. Cardinality(Referenced(u) \ placed') =
            IF t \in Referenced(u) \ placed THEN count[u] - 1 ELSE count[u]
      <4>1. IsFiniteSet(Referenced(u) \ placed)
        BY <3>1, TablesFinite
      <4>2. Cardinality((Referenced(u) \ placed) \ {t}) =
              IF t \in Referenced(u) \ placed
              THEN Cardinality(Referenced(u) \ placed) - 1 ELSE Cardinality(Referenced(u) \ placed)
        BY <4>1, FS_RemoveElement
      <4> QED BY <3>2, <3>3, <4>2
    <3>6. Cardinality(Referenced(u) \ placed') \in Nat
      BY <3>1, <3>3, TablesFinite
    <3> QED BY <2>1, <3>4, <3>5, <3>6
  <2>7. OrderOK'
    <3>1. count' \in [Tables -> Nat]
      BY <2>1, <2>2, <2>5, <2>6
    <3>2. importOrder' \in [Tables -> 0 .. NumTables]
      BY <2>2, <2>3, OrderAssumption
    <3> QED BY <2>1, <2>2, <3>1, <3>2
  <2>8. CountsUnplaced'
    <3>1. \A u \in placed' : Referenced(u) \subseteq placed'
      BY <2>1, <2>2, <2>4 DEF CountsUnplaced
    <3>2. \A u \in placed' : importOrder'[u] <= Cardinality(placed')
      BY <2>2, <2>3 DEF CountsUnplaced
    <3>3. \A u : Referenced(u)' = Referenced(u)
      BY <2>2, SameKeys
    <3> QED BY <2>1, <2>6, <3>1, <3>2, <3>3 DEF CountsUnplaced
  <2>9. ReferencedFirst'
    <3>1. \A u : Referenced(u)' = Referenced(u) /\ Waiting' = Waiting
      BY <2>2, SameKeys
    <3>2. ASSUME NEW u \in placed' \ Waiting, NEW v \in Referenced(u)
          PROVE  v \in placed' /\ importOrder'[v] < importOrder'[u]
      <4>1. CASE u = t
        BY <2>2, <2>3, <2>4, <4>1 DEF CountsUnplaced
      <4>2. CASE u # t
        BY <2>2, <4>2 DEF ReferencedFirst
      <4> QED BY <4>1, <4>2
    <3> QED BY <3>1, <3>2 DEF ReferencedFirst
  <2> QED BY <2>7, <2>8, <2>9
<1>3. CASE GiveUp
  <2>1. /\ phase = "ready" /\ phase' = "rest" /\ Ready = {}
        /\ fks' = fks /\ placed' = placed /\ count' = count /\ importOrder' = importOrder
    BY <1>3 DEF GiveUp
  <2>2. ASSUME NEW t \in Tables \ placed
        PROVE  Referenced(t) \cap (Tables \ placed) # {}
    <3>1. count[t] # 0 /\ count[t] = Cardinality(Referenced(t) \ placed)
      BY <2>1 DEF Ready, CountsUnplaced
    <3>2. Referenced(t) \ placed # {}
      BY <3>1, FS_EmptySet
    <3> QED BY <3>2 DEF Referenced
  <2>3. Circular(Tables \ placed)
    BY <2>2 DEF Circular
  <2>4. Tables \ placed \subseteq Waiting
    BY <2>3 DEF Waiting
  <2>5. \A u : Referenced(u)' = Referenced(u) /\ Waiting' = Waiting
    BY <2>1, SameKeys
  <2>6. CountsUnplaced'
    BY <2>1, <2>4, <2>5 DEF CountsUnplaced
  <2>7. ReferencedFirst'
    BY <2>1, <2>5 DEF ReferencedFirst
  <2> QED BY <2>1, <2>6, <2>7
<1>4. CASE PlaceRest
  <2>1. PICK t \in Tables : /\ phase = "rest" /\ phase' = phase /\ count' = count
                            /\ PlaceFirst(Tables \ placed, t)
    BY <1>4 DEF PlaceRest
  <2>2. /\ t \notin placed /\ fks' = fks
        /\ placed' = placed \cup {t}
        /\ importOrder' = [importOrder EXCEPT ![t] = Cardinality(placed) + 1]
    BY <2>1 DEF PlaceFirst
  <2>3. /\ Cardinality(placed) \in Nat /\ Cardinality(placed') = Cardinality(placed) + 1
        /\ Cardinality(placed) + 1 <= NumTables
    <3>1. placed' \in SUBSET Tables
      BY <2>2
    <3>2. IsFiniteSet(placed)
      BY TablesFinite
    <3>3. Cardinality(placed') = Cardinality(placed) + 1
      BY <2>2, <3>2, FS_AddElement
    <3> QED BY <3>1, <3>3, TablesFinite
  <2>4. OrderOK'
    BY <2>1, <2>2, <2>3, OrderAssumption
  <2>5. \A u : Referenced(u)' = Referenced(u) /\ Waiting' = Waiting
    BY <2>2, SameKeys
  <2>6. t \in Waiting
    BY <2>1, <2>2 DEF CountsUnplaced
  <2>7. CountsUnplaced'
    BY <2>1, <2>2, <2>3, <2>5 DEF CountsUnplaced
  <2>8. ReferencedFirst'
    BY <2>2, <2>5, <2>6 DEF ReferencedFirst
  <2> QED BY <2>4, <2>7, <2>8
<1>5. CASE UNCHANGED orderVars
  <2>1. /\ fks' = fks /\ placed' = placed /\ count' = count
        /\ importOrder' = importOrder /\ phase' = phase
    BY <1>5 DEF orderVars
  <2>2. \A u : Referenced(u)' = Referenced(u) /\ Waiting' = Waiting
    BY <2>1, SameKeys
  <2> QED BY <2>1, <2>2 DEF CountsUnplaced, ReferencedFirst
<1> QED BY <1>1, <1>2, <1>3, <1>4, <1>5 DEF OrderNext

-----------------------------------------------------------------------------
\* A table of a baseline is loaded after every table it references unless it
\* waits for a cycle, for any number of tables and foreign keys.
THEOREM SpecReferencedFirst == OrderSpec => []ReferencedFirst
<1>1. Ordered => ReferencedFirst
  BY DEF Ordered
<1> QED BY InitOrdered, NextOrdered, <1>1, PTL DEF OrderSpec

-----------------------------------------------------------------------------
(* Materialization.                                                        *)

(* The invariant: the tables before the present one have become assets,    *)
(* those after it have no line, and what is on disk is in created_paths    *)
(* except the file being written.                                          *)

Opened ==
  /\ table \in 0 .. LastTable + 1
  /\ fetched = 0 /\ written = 0
  /\ created = 0 .. table - 1 /\ disk = created
  /\ \A t \in table .. LastTable : lines[t] = 0

Streaming ==
  /\ table \in Sources
  /\ fetched \in 0 .. rows[table] /\ written = fetched /\ lines[table] = fetched
  /\ created = 0 .. table - 1 /\ disk = 0 .. table
  /\ \A t \in table + 1 .. LastTable : lines[t] = 0

CreatedAreComplete ==
  /\ rowCount \in [created -> Nat]
  /\ \A t \in created : rowCount[t] = rows[t] /\ lines[t] = rows[t]

Progress ==
  /\ rows \in [Sources -> 0 .. MaxRows]
  /\ lines \in [Sources -> Nat]
  /\ step \in Steps
  /\ step = "open" => Opened
  /\ step = "stream" => Streaming
  /\ step \in {"open", "stream"} => CreatedAreComplete
  /\ step = "clean" => \A t \in disk \ created : t = table /\ lines[t] = rows[t]
  /\ FailureCleansUp
  /\ AssetsAreComplete

LEMMA InitProgress == MaterialInit => Progress
BY MaterialAssumption DEF MaterialInit, Progress, Opened, Streaming, CreatedAreComplete, FailureCleansUp,
   AssetsAreComplete, Steps, Sources

LEMMA NextProgress == Progress /\ [MaterialNext]_materialVars => Progress'
<1> SUFFICES ASSUME Progress, [MaterialNext]_materialVars
             PROVE  Progress'
  OBVIOUS
<1> USE MaterialAssumption DEF Progress, Steps, Sources, FailureCleansUp, AssetsAreComplete
<1>1. CASE OpenFile
  <2>1. Streaming'
    BY <1>1 DEF OpenFile, Opened, Streaming, progressVars
  <2>2. CreatedAreComplete'
    BY <1>1 DEF OpenFile, CreatedAreComplete, progressVars
  <2> QED BY <1>1, <2>1, <2>2 DEF OpenFile
<1>2. CASE FetchBatch
  <2> DEFINE n == Least(BatchSize, rows[table] - fetched)
  <2>1. table \in Sources /\ rows[table] \in Nat /\ fetched \in Nat /\ fetched < rows[table]
    BY <1>2 DEF FetchBatch, Streaming
  <2>2. n \in Nat /\ fetched + n <= rows[table]
    BY <2>1 DEF Least
  <2>3. /\ fetched' = fetched + n /\ written' = written + n
        /\ lines' = [lines EXCEPT ![table] = @ + n]
        /\ rows' = rows /\ table' = table /\ disk' = disk /\ created' = created
        /\ rowCount' = rowCount /\ step = "stream" /\ step' = "stream"
    BY <1>2 DEF FetchBatch
  <2> HIDE DEF n
  <2>4. lines' \in [Sources -> Nat] /\ lines'[table] = fetched + n
        /\ \A t \in Sources \ {table} : lines'[t] = lines[t]
    BY <2>1, <2>2, <2>3 DEF Streaming
  <2>5. Streaming'
    BY <2>1, <2>2, <2>3, <2>4 DEF Streaming
  <2>6. CreatedAreComplete'
    BY <2>1, <2>3, <2>4 DEF CreatedAreComplete, Streaming
  <2> QED BY <2>3, <2>4, <2>5, <2>6
<1>3. CASE EndTable
  <2>1. /\ step = "stream" /\ step' = "open" /\ fetched = rows[table]
        /\ created' = created \cup {table} /\ table' = table + 1
        /\ rowCount' = [t \in created' |-> IF t = table THEN written ELSE rowCount[t]]
        /\ fetched' = 0 /\ written' = 0
        /\ rows' = rows /\ disk' = disk /\ lines' = lines
    BY <1>3 DEF EndTable, NextTable
  <2>2. Opened'
    <3>1. table \in 0 .. LastTable /\ created = 0 .. table - 1 /\ disk = 0 .. table
          /\ \A t \in table + 1 .. LastTable : lines[t] = 0
      BY <2>1 DEF Streaming
    <3>2. created' = 0 .. table
      BY <2>1, <3>1
    <3>3. table' \in 0 .. LastTable + 1 /\ table' - 1 = table
      BY <2>1, <3>1
    <3> QED BY <2>1, <3>1, <3>2, <3>3 DEF Opened
  <2>3. CreatedAreComplete'
    BY <2>1 DEF Streaming, CreatedAreComplete
  <2> QED BY <2>1, <2>2, <2>3
<1>4. CASE ReturnSummary
  <2>1. /\ step = "open" /\ table = LastTable + 1 /\ step' = "done"
        /\ rows' = rows /\ lines' = lines /\ disk' = disk /\ rowCount' = rowCount
    BY <1>4 DEF ReturnSummary
  <2>2. created = Sources /\ disk = Sources
    BY <2>1 DEF Opened
  <2>3. rowCount = rows /\ lines = rows
    BY <2>1, <2>2 DEF CreatedAreComplete
  <2> QED BY <2>1, <2>2, <2>3
<1>5. CASE RaiseBefore
  BY <1>5 DEF RaiseBefore, Opened, progressVars
<1>6. CASE RaiseStreaming
  BY <1>6 DEF RaiseStreaming, Streaming, progressVars
<1>7. CASE RaiseClosing
  BY <1>7 DEF RaiseClosing, Streaming, progressVars
<1>8. CASE RemovePath
  BY <1>8 DEF RemovePath, progressVars
<1>9. CASE Reraise
  BY <1>9 DEF Reraise, progressVars
<1>10. CASE Kill
  BY <1>10 DEF Kill, progressVars
<1>11. CASE UNCHANGED materialVars
  BY <1>11 DEF materialVars, progressVars, Opened, Streaming, CreatedAreComplete
<1> QED BY <1>1, <1>2, <1>3, <1>4, <1>5, <1>6, <1>7, <1>8, <1>9, <1>10, <1>11 DEF MaterialNext

-----------------------------------------------------------------------------
\* A refresh that raises leaves no file of the tables before and nothing partial
\* of the one it failed at, for any tables and rows.
THEOREM SpecFailureCleansUp == MaterialSpec => []FailureCleansUp
<1>1. Progress => FailureCleansUp
  BY DEF Progress
<1> QED BY InitProgress, NextProgress, <1>1, PTL DEF MaterialSpec

\* A refresh that returns has a whole file and its row count for every table,
\* for any tables and rows and any size of the batches.
THEOREM SpecAssetsAreComplete == MaterialSpec => []AssetsAreComplete
<1>1. Progress => AssetsAreComplete
  BY DEF Progress
<1> QED BY InitProgress, NextProgress, <1>1, PTL DEF MaterialSpec

-----------------------------------------------------------------------------
(* PolicyGovernance.                                                       *)

(* The invariant: the report is that of the policies.                      *)

Governed ==
  /\ tags \in [Columns -> SUBSET Tags]
  /\ foreignKeys \in SUBSET ColumnPairs
  /\ policies \in Seq(Policy)
  /\ verdict = "ready" => ~BlockingGaps

LEMMA InitGoverned == GovernanceInit => Governed
<1> SUFFICES ASSUME GovernanceInit
             PROVE  Governed
  OBVIOUS
<1>1. PICK n \in 0 .. MaxPolicies : policies \in [1 .. n -> Policy]
  BY DEF GovernanceInit
<1>2. policies \in Seq(Policy)
  BY <1>1, GovernanceAssumption
<1> QED BY <1>2 DEF GovernanceInit, Governed

\* The report depends on what does not change.
LEMMA SameGiven ==
  ASSUME UNCHANGED givenVars
  PROVE  BlockingGaps' <=> BlockingGaps
<1>1. tags' = tags /\ foreignKeys' = foreignKeys /\ policies' = policies
  BY DEF givenVars
<1> QED BY <1>1 DEF BlockingGaps, ColumnBlocks, LinkBlocks, State, HasPolicy, PoliciesAreConsistent,
     MatchingPolicy, AppliesTo, SensitiveTags

LEMMA NextGoverned == Governed /\ [GovernanceNext]_governanceVars => Governed'
<1> SUFFICES ASSUME Governed, [GovernanceNext]_governanceVars
             PROVE  Governed'
  OBVIOUS
<1>1. UNCHANGED givenVars
  BY DEF GovernanceNext, AssertPublishReady, ApplyToRows, RaiseTokenization, governanceVars
<1>2. tags' = tags /\ foreignKeys' = foreignKeys /\ policies' = policies
  BY <1>1 DEF givenVars
<1>3. BlockingGaps' <=> BlockingGaps
  BY <1>1, SameGiven
<1>4. verdict' = "ready" => ~BlockingGaps
  BY DEF Governed, GovernanceNext, AssertPublishReady, ApplyToRows, RaiseTokenization, governanceVars
<1> QED BY <1>2, <1>3, <1>4 DEF Governed

-----------------------------------------------------------------------------
\* A column with policies has a first one.
LEMMA FirstMatches ==
  ASSUME policies \in Seq(Policy), NEW c, HasPolicy(c)
  PROVE  \E i \in DOMAIN policies : MatchingPolicy(i, c)
<1> DEFINE T == {i \in DOMAIN policies : AppliesTo(i, c)}
<1>1. T \subseteq Nat /\ T # {} /\ DOMAIN policies = 1 .. Len(policies) /\ Len(policies) \in Nat
  BY DEF HasPolicy
<1>2. PICK m \in T : \A k \in T : m <= k
  <2> HIDE DEF T
  <2> QED BY <1>1, LeastNumber
<1>3. ASSUME NEW j \in 1 .. m - 1
      PROVE  ~AppliesTo(j, c)
  <2>1. j \in DOMAIN policies /\ ~(m <= j)
    BY <1>1
  <2> QED BY <1>2, <2>1
<1> QED BY <1>2, <1>3 DEF MatchingPolicy

LEMMA SensitiveHasPolicy ==
  ASSUME Governed, ~BlockingGaps, NEW c \in Columns, SensitiveTags(c) # {}
  PROVE  State(c) = "sensitive_with_policy" /\ HasPolicy(c)
<1>1. tags[c] # {} /\ tags[c] # {"non_sensitive"}
  BY GovernanceAssumption DEF SensitiveTags
<1>2. State(c) \notin {"needs_review", "sensitive_without_policy"}
  BY DEF BlockingGaps, ColumnBlocks
<1>3. "needs_review" \notin tags[c]
  BY <1>1, <1>2 DEF State
<1> QED BY <1>1, <1>2, <1>3 DEF State

\* What a foreign key joins to a sensitive column is sensitive and handled alike.
LEMMA LinkedAlike ==
  ASSUME Governed, ~BlockingGaps, NEW link \in foreignKeys
  PROVE  /\ link[1] \in Columns /\ link[2] \in Columns
         /\ SensitiveTags(link[1]) # {} <=> SensitiveTags(link[2]) # {}
         /\ SensitiveTags(link[1]) # {} => PoliciesAreConsistent(link[1], link[2])
<1> DEFINE c == link[1]
           d == link[2]
<1>1. c \in Columns /\ d \in Columns
  BY GovernanceAssumption DEF Governed
<1>2. ~LinkBlocks(c, d)
  BY DEF BlockingGaps
<1> HIDE DEF c, d
<1>3. ASSUME NEW e \in Columns, SensitiveTags(e) = {}
      PROVE  State(e) \in {"unclassified", "non_sensitive"}
  <2>1. State(e) \notin {"needs_review", "sensitive_without_policy"} /\ ~HasPolicy(e)
    BY <1>3 DEF BlockingGaps, ColumnBlocks, HasPolicy, AppliesTo
  <2> QED BY <2>1 DEF State
<1>4. ASSUME NEW e \in Columns, SensitiveTags(e) # {}
      PROVE  State(e) = "sensitive_with_policy"
  BY <1>4, SensitiveHasPolicy
<1>5. SensitiveTags(c) # {} <=> SensitiveTags(d) # {}
  BY <1>1, <1>2, <1>3, <1>4 DEF LinkBlocks
<1>6. SensitiveTags(c) # {} => PoliciesAreConsistent(c, d)
  BY <1>1, <1>2, <1>4, <1>5 DEF LinkBlocks
<1> QED BY <1>1, <1>5, <1>6 DEF c, d

\* The columns under a policy of one handling are closed under foreign keys.
LEMMA GovernedIsConsistent == Governed => ReadyIsConsistent
<1> SUFFICES ASSUME Governed, verdict = "ready", NEW c \in Columns, NEW d \in Columns,
                    SensitiveTags(c) # {}, Joined(c, d)
             PROVE  PoliciesAreConsistent(c, d)
  BY DEF ReadyIsConsistent
<1>1. ~BlockingGaps
  BY DEF Governed
<1>2. DOMAIN policies = 1 .. Len(policies) /\ Len(policies) \in Nat
  BY DEF Governed
<1>3. \A e : \A i, j \in DOMAIN policies : MatchingPolicy(i, e) /\ MatchingPolicy(j, e) => i = j
  BY <1>2 DEF MatchingPolicy
<1>4. PICK k \in DOMAIN policies : MatchingPolicy(k, c)
  BY <1>1, SensitiveHasPolicy, FirstMatches DEF Governed
<1> DEFINE S == {e \in Columns : \E i \in DOMAIN policies :
                   MatchingPolicy(i, e) /\ policies[i].handling = policies[k].handling}
<1>5. c \in S
  BY <1>4
<1>6. \A e \in S : SensitiveTags(e) # {}
  BY DEF MatchingPolicy, AppliesTo
<1>7. LinkClosed(S)
  <2> SUFFICES ASSUME NEW link \in foreignKeys
               PROVE  link[1] \in S <=> link[2] \in S
    BY DEF LinkClosed
  <2>1. link[1] \in Columns /\ link[2] \in Columns
        /\ (SensitiveTags(link[1]) # {} <=> SensitiveTags(link[2]) # {})
    BY <1>1, LinkedAlike
  <2>2. SensitiveTags(link[1]) # {} =>
          \E i, j \in DOMAIN policies : /\ MatchingPolicy(i, link[1]) /\ MatchingPolicy(j, link[2])
                                        /\ policies[i].handling = policies[j].handling
    BY <1>1, LinkedAlike DEF PoliciesAreConsistent
  <2> QED BY <1>3, <1>6, <2>1, <2>2
<1>8. d \in S
  BY <1>5, <1>7 DEF Joined
<1> QED BY <1>4, <1>8 DEF PoliciesAreConsistent

-----------------------------------------------------------------------------
\* The report judges one foreign key at a time; still, in a source that is ready
\* every column that chains of any length join to a sensitive one is under a
\* policy of the same handling, for any columns, tags, foreign keys and policies.
THEOREM SpecReadyIsConsistent == GovernanceSpec => []ReadyIsConsistent
BY InitGoverned, NextGoverned, GovernedIsConsistent, PTL DEF GovernanceSpec

-----------------------------------------------------------------------------
(* MetadataIngestion.                                                      *)

(* The invariant: an ingestion has everything of the kinds it has listed,  *)
(* and what it has in its hands refers to what it has in its hands or has  *)
(* saved.                                                                  *)

\* Of what has been there all along, the kinds listed are found or saved.
HasStanding(i) ==
  /\ standing[i] \subseteq source
  /\ \A o \in standing[i] \cap Listable :
       Place[Kind[o]] < StageNumber[stage[i]] => o \in found[i] \cup catalog

\* Of what is in the source, unless it grows, the kinds listed are found.
HasListed(i) ==
  ~GrowsWhileListed /\ Listing(i) =>
    \A o \in source \cap Listable : Place[Kind[o]] < StageNumber[stage[i]] => o \in found[i]

Resolves(i) ==
  ~GrowsWhileListed => \A o \in found[i] : Refers[o] \cap Listable \subseteq found[i] \cup catalog

Idle(i) == stage[i] \in {"list_schemas", "ingested"} => found[i] = {}

Orderly(i) == HasStanding(i) /\ HasListed(i) /\ Resolves(i) /\ Idle(i)

Ingested ==
  /\ IngestionOK
  /\ Closed(source)
  /\ \A i \in Ingestions : Orderly(i)
  /\ CatalogResolves

LEMMA PlaceOfKinds ==
  /\ \A o \in Objects : Place[Kind[o]] \in 1 .. 4
  /\ \A n \in DOMAIN StageNumber : StageNumber[n] \in 1 .. 6
BY IngestionAssumption DEF Place, StageNumber

LEMMA InitIngested == IngestionInit => Ingested
BY IngestionAssumption DEF IngestionInit, Ingested, IngestionOK, Orderly, HasStanding, HasListed, Resolves,
   Idle, CatalogResolves, Listing, Closed, StageNumber, Place

\* The four listings differ in the kind, the stage, and what the first one
\* notes.
LEMMA ListIngested ==
  ASSUME Ingested, NEW i \in Ingestions, NEW kind, NEW from, NEW to,
         List(i, kind, from, to),
         \/ /\ kind = "schema" /\ from = {"list_schemas", "ingested"} /\ to = "list_tables"
            /\ standing' = [standing EXCEPT ![i] = source]
         \/ /\ kind = "table" /\ from = {"list_tables"} /\ to = "list_columns" /\ UNCHANGED standing
         \/ /\ kind = "column" /\ from = {"list_columns"} /\ to = "list_relationships" /\ UNCHANGED standing
         \/ /\ kind = "relationship" /\ from = {"list_relationships"} /\ to = "upsert" /\ UNCHANGED standing
  PROVE  Ingested'
<1> DEFINE listed == {o \in source : Kind[o] = kind}
<1>1. /\ found' = [found EXCEPT ![i] = @ \cup listed] /\ stage' = [stage EXCEPT ![i] = to]
      /\ stage[i] \in from /\ UNCHANGED <<source, catalog>>
  BY DEF List
<1>2. listed \subseteq Listable /\ source \subseteq Objects
  BY DEF Ingested, IngestionOK, Listable
<1>3. IngestionOK'
  BY <1>1, <1>2 DEF Ingested, IngestionOK, StageNumber
<1>4. /\ found[i] \subseteq Listable /\ found'[i] = found[i] \cup listed /\ stage'[i] = to
      /\ \A k \in Ingestions \ {i} :
           found'[k] = found[k] /\ stage'[k] = stage[k] /\ standing'[k] = standing[k]
  BY <1>1 DEF Ingested, IngestionOK
<1>5. Orderly(i) /\ Closed(source)
  BY DEF Ingested
\* Whatever is of a kind listed by now has just been listed or was before.
<1>6. \A o \in source \cap Listable :
        Place[Kind[o]] < StageNumber[to] =>
          o \in listed \/ (Listing(i) /\ Place[Kind[o]] < StageNumber[stage[i]])
  BY <1>1, <1>2, IngestionAssumption DEF Place, StageNumber, Listable, Listing
<1>7. standing'[i] \subseteq source /\ (standing'[i] = standing[i] \/ kind = "schema")
  BY <1>5, <1>1 DEF HasStanding, Orderly, Ingested, IngestionOK
<1>8. Listing(i) => kind # "schema"
  BY <1>1 DEF Listing
<1>9. HasStanding(i)'
  <2> SUFFICES ASSUME NEW o \in standing'[i] \cap Listable, Place[Kind[o]] < StageNumber[to]
               PROVE  o \in found'[i] \cup catalog'
    BY <1>1, <1>4, <1>7 DEF HasStanding
  <2> QED BY <1>1, <1>4, <1>5, <1>6, <1>7, <1>8 DEF Orderly, HasStanding
<1>10. HasListed(i)'
  BY <1>1, <1>4, <1>5, <1>6 DEF Orderly, HasListed
<1>11. Resolves(i)'
  <2> SUFFICES ASSUME ~GrowsWhileListed, NEW o \in found'[i], NEW p \in Refers[o] \cap Listable
               PROVE  p \in found'[i] \cup catalog'
    BY DEF Resolves
  <2>1. CASE o \in found[i]
    BY <2>1, <1>1, <1>4, <1>5 DEF Orderly, Resolves
  <2>2. CASE o \in listed
    <3>1. p \in source /\ Place[Kind[p]] < Place[kind]
      BY <2>2, <1>2, <1>5, IngestionAssumption DEF Closed
    <3>2. Listing(i) /\ Place[kind] = StageNumber[stage[i]]
      BY <3>1, <1>1, <1>2, PlaceOfKinds DEF Place, StageNumber, Listing
    <3> QED BY <3>1, <3>2, <1>4, <1>5 DEF Orderly, HasListed
  <2> QED BY <2>1, <2>2, <1>4
<1>12. Idle(i)'
  BY <1>4 DEF Idle
<1>13. \A k \in Ingestions \ {i} : Orderly(k)'
  BY <1>1, <1>4 DEF Ingested, Orderly, HasStanding, HasListed, Resolves, Idle, Listing
<1> QED
  BY <1>1, <1>3, <1>9, <1>10, <1>11, <1>12, <1>13 DEF Ingested, Orderly, Closed, CatalogResolves

\* An object is saved after those it refers to.
LEMMA UpsertIngested ==
  ASSUME Ingested, NEW i \in Ingestions, NEW o \in found[i], Upsert(i, o),
         \A p \in found[i] : Place[Kind[o]] <= Place[Kind[p]]
  PROVE  Ingested'
<1>1. /\ catalog' = catalog \cup {o} /\ found' = [found EXCEPT ![i] = @ \ {o}]
      /\ stage[i] = "upsert" /\ UNCHANGED <<source, stage, standing>>
  BY DEF Upsert
<1>2. o \in Listable /\ found[i] \subseteq Listable
  BY DEF Ingested, IngestionOK
<1>3. IngestionOK'
  BY <1>1, <1>2 DEF Ingested, IngestionOK
<1>4. \A k \in Ingestions : IF k = i THEN found'[k] = found[i] \ {o} ELSE found'[k] = found[k]
  BY <1>1 DEF Ingested, IngestionOK
<1>5. \A k \in Ingestions : Orderly(k)'
  <2> TAKE k \in Ingestions
  <2>1. found[k] \cup catalog \subseteq found'[k] \cup catalog' /\ found'[k] \subseteq found[k]
    BY <1>1, <1>4
  <2>2. Listing(k) => found'[k] = found[k]
    BY <1>1, <1>4 DEF Listing
  <2> QED BY <1>1, <2>1, <2>2 DEF Ingested, Orderly, HasStanding, HasListed, Resolves, Idle, Listing
<1>6. CatalogResolves'
  <2> SUFFICES ASSUME ~GrowsWhileListed, NEW p \in Refers[o] \cap Listable
               PROVE  p \in catalog
    BY <1>1 DEF Ingested, CatalogResolves
  <2>1. p \in found[i] \cup catalog
    BY DEF Ingested, Orderly, Resolves
  <2>2. Place[Kind[p]] < Place[Kind[o]] /\ Place[Kind[p]] \in Nat /\ Place[Kind[o]] \in Nat
    BY <1>2, IngestionAssumption, PlaceOfKinds DEF Listable
  <2> QED BY <2>1, <2>2
<1> QED BY <1>1, <1>3, <1>5, <1>6 DEF Ingested, Closed

LEMMA NextIngested == Ingested /\ [IngestionNext]_ingestionVars => Ingested'
<1> SUFFICES ASSUME Ingested, [IngestionNext]_ingestionVars
             PROVE  Ingested'
  OBVIOUS
<1>1. CASE CreateObject
  BY <1>1 DEF CreateObject, Ingested, IngestionOK, Orderly, HasStanding, HasListed, Resolves, Idle, Listing,
     Closed, CatalogResolves
<1>2. CASE DropObject
  <2>1. PICK o \in source : /\ Closed(source \ {o}) /\ source' = source \ {o}
                            /\ standing' = [i \in Ingestions |-> standing[i] \ {o}]
                            /\ UNCHANGED <<catalog, stage, found>>
    BY <1>2 DEF DropObject
  <2>2. IngestionOK' /\ Closed(source') /\ CatalogResolves'
    BY <2>1 DEF Ingested, IngestionOK, CatalogResolves
  <2>3. \A i \in Ingestions : Orderly(i)'
    BY <2>1 DEF Ingested, Orderly, HasStanding, HasListed, Resolves, Idle, Listing
  <2> QED BY <2>2, <2>3 DEF Ingested, Closed
<1>3. ASSUME NEW i \in Ingestions, IngestionStep(i)
      PROVE  Ingested'
  <2>1. CASE ListSchemas(i)
    BY <2>1, ListIngested DEF ListSchemas
  <2>2. CASE ListTables(i)
    BY <2>2, ListIngested DEF ListTables
  <2>3. CASE ListColumns(i)
    BY <2>3, ListIngested DEF ListColumns
  <2>4. CASE ListRelationships(i)
    BY <2>4, ListIngested DEF ListRelationships
  <2>5. CASE UpsertObject(i)
    BY <2>5, UpsertIngested DEF UpsertObject
  <2>6. CASE UpsertRelationship(i)
    <3>1. PICK o \in found[i] : /\ \A p \in found[i] : Kind[p] = "relationship"
                                /\ Upsert(i, o)
      BY <2>6 DEF UpsertRelationship
    <3>2. \A p \in found[i] : Place[Kind[o]] <= Place[Kind[p]]
      BY <3>1 DEF Place
    <3> QED BY <3>1, <3>2, UpsertIngested
  <2>7. CASE ReturnCatalog(i)
    <3>1. /\ stage[i] = "upsert" /\ found[i] = {} /\ stage' = [stage EXCEPT ![i] = "ingested"]
          /\ UNCHANGED <<source, catalog, found, standing>>
      BY <2>7 DEF ReturnCatalog
    <3>2. IngestionOK' /\ Closed(source)' /\ CatalogResolves'
      BY <3>1 DEF Ingested, IngestionOK, Closed, CatalogResolves, StageNumber
    <3>3. stage'[i] = "ingested" /\ \A k \in Ingestions \ {i} : stage'[k] = stage[k]
      BY <3>1 DEF Ingested, IngestionOK
    <3>4. StageNumber[stage[i]] = 5 /\ \A o \in Listable : Place[Kind[o]] \in 1 .. 4
      BY <3>1, PlaceOfKinds DEF StageNumber, Listable
    <3>5. Orderly(i)'
      BY <3>1, <3>3, <3>4 DEF Ingested, Orderly, HasStanding, HasListed, Resolves, Idle, Listing
    <3>6. \A k \in Ingestions \ {i} : Orderly(k)'
      BY <3>1, <3>3 DEF Ingested, Orderly, HasStanding, HasListed, Resolves, Idle, Listing
    <3> QED BY <3>2, <3>5, <3>6 DEF Ingested
  <2> QED BY <1>3, <2>1, <2>2, <2>3, <2>4, <2>5, <2>6, <2>7 DEF IngestionStep
<1>4. ASSUME NEW i \in Ingestions, AbortIngestion(i)
      PROVE  Ingested'
  <2>1. /\ stage' = [stage EXCEPT ![i] = "list_schemas"] /\ found' = [found EXCEPT ![i] = {}]
        /\ standing' = [standing EXCEPT ![i] = {}] /\ UNCHANGED <<source, catalog>>
    BY <1>4 DEF AbortIngestion
  <2>2. IngestionOK' /\ Closed(source)' /\ CatalogResolves'
    BY <2>1 DEF Ingested, IngestionOK, Closed, CatalogResolves, StageNumber
  <2>3. /\ stage'[i] = "list_schemas" /\ found'[i] = {} /\ standing'[i] = {}
        /\ \A k \in Ingestions \ {i} :
             stage'[k] = stage[k] /\ found'[k] = found[k] /\ standing'[k] = standing[k]
    BY <2>1 DEF Ingested, IngestionOK
  <2>4. Orderly(i)'
    BY <2>3 DEF Orderly, HasStanding, HasListed, Resolves, Idle, Listing
  <2>5. \A k \in Ingestions \ {i} : Orderly(k)'
    BY <2>1, <2>3 DEF Ingested, Orderly, HasStanding, HasListed, Resolves, Idle, Listing
  <2> QED BY <2>2, <2>4, <2>5 DEF Ingested
<1>5. CASE UNCHANGED ingestionVars
  BY <1>5 DEF ingestionVars, Ingested, IngestionOK, Orderly, HasStanding, HasListed, Resolves, Idle, Listing,
     Closed, CatalogResolves
<1> QED BY <1>1, <1>2, <1>3, <1>4, <1>5 DEF IngestionNext

LEMMA IngestedComplete == Ingested => IngestedIsComplete
<1> SUFFICES ASSUME Ingested, NEW i \in Ingestions, stage[i] = "ingested",
                    NEW o \in standing[i] \cap Listable
             PROVE  o \in catalog
  BY DEF IngestedIsComplete
<1>1. Place[Kind[o]] < StageNumber[stage[i]]
  BY PlaceOfKinds DEF StageNumber, Listable
<1> QED BY <1>1 DEF Ingested, Orderly, HasStanding, Idle

LEMMA SpecIngested == IngestionSpec => []Ingested
BY InitIngested, NextIngested, PTL DEF IngestionSpec

\* While the source does not grow under a listing, the catalog never refers to
\* what it does not have: an ingestion that fails half way through its saves,
\* or overlaps others, leaves no loose column or relationship behind.
THEOREM SpecCatalogResolves == IngestionSpec => []CatalogResolves
<1>1. Ingested => CatalogResolves
  BY DEF Ingested
<1> QED BY <1>1, SpecIngested, PTL

\* An ingestion that returns has missed nothing that was there throughout.
THEOREM SpecIngestedIsComplete == IngestionSpec => []IngestedIsComplete
BY SpecIngested, IngestedComplete, PTL

-----------------------------------------------------------------------------
(* BaselineSelection.                                                      *)

(* The invariant: what is no longer a candidate has been refused, and the  *)
(* storage has been to blame exactly if one of those was not stored.       *)

Compatible == {b \in Baselines : IsCompatible(b)}

Tried == Compatible \ candidates

Publishable(b) == baseline[b].stored /\ baseline[b].report = "eligible"

TriedUnstored == \E b \in Tried : ~baseline[b].stored

Selecting ==
  /\ SelectionOK
  /\ outcome = "no_compatible" => Compatible = {}
  /\ outcome \notin {"list", "no_compatible"} =>
       /\ candidates \subseteq Compatible
       /\ \A b \in Tried : ~Publishable(b)
       /\ storageIssue <=> TriedUnstored
  /\ outcome = "list" => candidates = {} /\ ~storageIssue
  /\ outcome = "returned" => Publishable(chosen) /\ Latest(chosen)
  /\ outcome \in {"not_stored", "not_validated"} =>
       candidates = {} /\ (storageIssue <=> outcome = "not_stored")

LEMMA InitSelecting == SelectionInit => Selecting
BY DEF SelectionInit, Selecting, SelectionOK, Errors

LEMMA NextSelecting == Selecting /\ [SelectionNext]_selectionVars => Selecting'
<1> SUFFICES ASSUME Selecting, [SelectionNext]_selectionVars
             PROVE  Selecting'
  OBVIOUS
<1>0. UNCHANGED baseline /\ UNCHANGED Compatible /\ \A b \in Baselines : Publishable(b)' <=> Publishable(b)
  BY DEF SelectionNext, ListCompatible, TryNext, ReturnBaseline, RaiseLast, selectionVars, Compatible,
         IsCompatible, Publishable
<1> USE <1>0 DEF Selecting, SelectionOK, Errors
<1>1. CASE UNCHANGED selectionVars
  <2>1. UNCHANGED <<Tried, TriedUnstored, candidates, storageIssue, chosen, outcome>>
    BY <1>1 DEF selectionVars, Tried, TriedUnstored
  <2> QED BY <2>1 DEF Latest, Publishable
<1>2. CASE ListCompatible
  <2>1. /\ outcome = "list" /\ candidates' = Compatible /\ Tried' = {} /\ UNCHANGED <<storageIssue, chosen>>
        /\ outcome' = IF Compatible = {} THEN "no_compatible" ELSE "try"
    BY <1>2 DEF ListCompatible, Compatible, Tried
  <2>2. ~TriedUnstored'
    BY <2>1 DEF TriedUnstored
  <2> QED BY <2>1, <2>2 DEF Compatible
<1>3. CASE TryNext
  <2>1. PICK b \in Baselines : /\ outcome = "try" /\ Latest(b) /\ ~Publishable(b)
                               /\ candidates' = candidates \ {b}
                               /\ storageIssue' = (storageIssue \/ ~baseline[b].stored)
                               /\ UNCHANGED <<chosen, outcome>>
    BY <1>3 DEF TryNext, Publishable
  <2>2. Tried' = Tried \cup {b} /\ b \in candidates
    BY <2>1 DEF Tried, Latest
  <2>3. TriedUnstored' <=> TriedUnstored \/ ~baseline[b].stored
    BY <2>2 DEF TriedUnstored
  <2>4. storageIssue' \in BOOLEAN /\ (storageIssue' <=> storageIssue \/ ~baseline[b].stored)
    BY <2>1, Zenon
  <2>5. storageIssue' <=> TriedUnstored'
    BY <2>1, <2>3, <2>4
  <2>6. SelectionOK'
    BY <2>1, <2>4
  <2>7. candidates' \subseteq Compatible /\ \A c \in Tried' : ~Publishable(c)'
    <3>1. Compatible \subseteq Baselines /\ candidates \subseteq Compatible /\ Tried \subseteq Compatible
          /\ \A c \in Tried : ~Publishable(c)
      BY <2>1 DEF Compatible, Tried
    <3> QED BY <2>1, <2>2, <3>1
  <2> QED BY <2>1, <2>5, <2>6, <2>7
<1>4. CASE ReturnBaseline
  <2>1. PICK b \in Baselines : /\ outcome = "try" /\ Latest(b) /\ Publishable(b)
                               /\ outcome' = "returned" /\ chosen' = b
                               /\ UNCHANGED <<candidates, storageIssue>>
    BY <1>4 DEF ReturnBaseline, Publishable
  <2>2. UNCHANGED Tried /\ (TriedUnstored' <=> TriedUnstored)
    BY <2>1 DEF Tried, TriedUnstored
  <2>3. Latest(chosen)' /\ Publishable(chosen)'
    BY <2>1 DEF Latest, Publishable
  <2>4. candidates' \subseteq Compatible /\ (\A c \in Tried' : ~Publishable(c)') /\ (storageIssue' <=> TriedUnstored')
    <3>1. Tried \subseteq Baselines
      BY DEF Tried, Compatible
    <3> QED BY <2>1, <2>2, <3>1
  <2> QED BY <2>1, <2>3, <2>4
<1>5. CASE RaiseLast
  <2>1. outcome = "try" /\ candidates = {} /\ UNCHANGED <<candidates, storageIssue, chosen, Tried>>
    BY <1>5 DEF RaiseLast, Tried
  <2>2. outcome' = (IF storageIssue THEN "not_stored" ELSE "not_validated")
    BY <1>5 DEF RaiseLast
  <2>3. outcome' \in {"not_stored", "not_validated"} /\ (storageIssue <=> outcome' = "not_stored")
    BY <2>2
  <2>4. TriedUnstored' <=> TriedUnstored
    BY <2>1 DEF TriedUnstored
  <2>5. (\A c \in Tried' : ~Publishable(c)') /\ (storageIssue' <=> TriedUnstored')
    <3>1. Tried \subseteq Baselines
      BY DEF Tried, Compatible
    <3> QED BY <2>1, <2>4, <3>1
  <2> QED BY <2>1, <2>3, <2>5
<1> QED BY <1>1, <1>2, <1>3, <1>4, <1>5 DEF SelectionNext

LEMMA ExplanationOfCompatible ==
  ASSUME Selecting, NEW b \in Baselines, baseline[b].matches
  PROVE  /\ Explanation(b) = "eligible" <=> b \in Compatible /\ Publishable(b)
         /\ Explanation(b) = "missing_materialized_assets" <=> b \in Compatible /\ ~baseline[b].stored
<1>1. baseline[b] \in BaselineFacts
  BY DEF Selecting, SelectionOK
<1> QED BY <1>1 DEF BaselineFacts, Reports, Explanation, Compatible, IsCompatible, Publishable

LEMMA SelectingAgrees == Selecting => SelectionAgrees
<1> SUFFICES ASSUME Selecting PROVE SelectionAgrees
  OBVIOUS
<1>1. /\ Matching("eligible") = {b \in Compatible : Publishable(b)}
      /\ Matching("missing_materialized_assets") = {b \in Compatible : ~baseline[b].stored}
  BY ExplanationOfCompatible DEF Matching, Compatible, IsCompatible
<1>2. ASSUME outcome \notin {"list", "no_compatible"}
      PROVE  Matching("eligible") \subseteq candidates
  BY <1>1, <1>2 DEF Selecting, Tried
<1>3. CASE outcome = "returned"
  BY <1>1, <1>2, <1>3 DEF Selecting, SelectionAgrees, Latest, Errors
<1>4. CASE outcome = "no_compatible"
  BY <1>1, <1>4 DEF SelectionAgrees, Selecting
<1>5. CASE outcome \in {"not_stored", "not_validated"}
  BY <1>1, <1>2, <1>5 DEF SelectionAgrees, Selecting, Tried, TriedUnstored, Publishable
<1> QED BY <1>3, <1>4, <1>5 DEF SelectionAgrees, Errors

\* A publish gets the last refreshed baseline that the pages call eligible, or
\* is refused with the blame they give, for any number of baselines and any
\* facts about them.
THEOREM SpecSelectionAgrees == SelectionSpec => []SelectionAgrees
<1>1. SelectionSpec => []Selecting
  BY InitSelecting, NextSelecting, PTL DEF SelectionSpec
<1> QED BY <1>1, SelectingAgrees, PTL

-----------------------------------------------------------------------------
(* ExtractionPlanning.                                                     *)
(*                                                                         *)
(* The invariant.  Up to the tables of a depth d that are still queued,    *)
(* the tables within d foreign keys have been expanded, and what has been  *)
(* found beyond them is queued with depth d + 1.                           *)

Pending(q, d) == {q[i][1] : i \in {k \in DOMAIN q : q[k][2] = d}}

Expanded(d) ==
  IF d < maxDepth THEN Within(d) \ Pending(queue, d)
  ELSE IF d = 0 THEN {} ELSE Within(d - 1)

InOrder(q, d, top) ==
  /\ \A i \in DOMAIN q : q[i][2] \in {d, d + 1} /\ q[i][2] <= top
  /\ \A i, j \in DOMAIN q : i < j => q[i][2] <= q[j][2] /\ q[i][1] # q[j][1]

Level(d) ==
  /\ InOrder(queue, d, maxDepth)
  /\ visited = Within(d) \cup Pending(queue, d + 1)
  /\ Within(d) \cap Pending(queue, d + 1) = {}
  /\ Pending(queue, d) \subseteq Within(d)
  /\ Pending(queue, d + 1) \subseteq Within(d + 1)
  /\ \A t \in Expanded(d) : Neighbors(t) \subseteq visited
  /\ followed = UNION {Joining(t) : t \in Expanded(d)}

AtDepth(s, e) == [i \in DOMAIN s |-> <<s[i], e>>]

\* From the n tables of q the first, of depth d, is taken, and the m tables of S,
\* which s lists, come behind the others in p.
Requeues(q, n, p, m, s, S, d, top) ==
  /\ n \in Nat \ {0} /\ m \in Nat /\ d \in Nat /\ top \in Nat
  /\ DOMAIN q = 1 .. n /\ DOMAIN p = 1 .. n - 1 + m
  /\ InOrder(q, d, top) /\ q[1][2] = d /\ (m > 0 => d < top)
  /\ \A i \in 1 .. n - 1 : p[i] = q[i + 1]
  /\ \A i \in 1 .. m : p[n - 1 + i] = <<s[i], d + 1>>
  /\ \A i \in 1 .. m : s[i] \in S
  /\ \A u \in S : \E i \in 1 .. m : s[i] = u
  /\ \A i, j \in 1 .. m : i # j => s[i] # s[j]
  /\ \A i \in 1 .. n : q[i][1] \notin S

Planning ==
  /\ PlanOK
  /\ selected = visited \ (IF rootIsTable THEN {} ELSE {Root})
  /\ Root \in visited
  /\ \E d \in 0 .. maxDepth : Level(d)

-----------------------------------------------------------------------------
(* The tables within n foreign keys, by induction on ways.                 *)

LEMMA NeighborsAreTables ==
  ASSUME PlanOK, NEW t
  PROVE  Neighbors(t) \subseteq PlanTables
BY DEF PlanOK, Neighbors, Joining, PlanTables

LEMMA WithinNone == Within(0) = {Root}
<1>1. [i \in 0 .. 0 |-> Root] \in Ways(0)
  BY DEF Ways, PlanTables
<1>2. \A way \in Ways(0) : way[0] = Root
  BY DEF Ways
<1> QED BY <1>1, <1>2 DEF Within

LEMMA WithinOneMore ==
  ASSUME PlanOK, NEW n \in Nat
  PROVE  Within(n + 1) = Within(n) \cup UNION {Neighbors(t) : t \in Within(n)}
<1>1. ASSUME NEW way \in Ways(n + 1)
      PROVE  \E v \in Ways(n) : way[n + 1] \in Neighbors(v[n]) \cup {v[n]}
  <2> DEFINE v == [i \in 0 .. n |-> way[i]]
  <2>1. v \in Ways(n)
    BY DEF Ways
  <2>2. way[n + 1] \in Neighbors(way[n + 1 - 1]) \cup {way[n + 1 - 1]}
    BY DEF Ways
  <2> QED BY <2>1, <2>2
<1>2. ASSUME NEW way \in Ways(n), NEW t \in Neighbors(way[n]) \cup {way[n]}
      PROVE  t \in Within(n + 1)
  <2> DEFINE v == [i \in 0 .. n + 1 |-> IF i = n + 1 THEN t ELSE way[i]]
  <2>1. v \in [0 .. n + 1 -> PlanTables] /\ v[0] = Root
    BY NeighborsAreTables DEF Ways
  <2>2. ASSUME NEW i \in 1 .. n + 1
        PROVE  v[i] \in Neighbors(v[i - 1]) \cup {v[i - 1]}
    <3>1. CASE i = n + 1
      BY <3>1
    <3>2. CASE i # n + 1
      BY <3>2 DEF Ways
    <3> QED BY <3>1, <3>2
  <2>3. v \in Ways(n + 1) /\ v[n + 1] = t
    BY <2>1, <2>2 DEF Ways
  <2> QED BY <2>3 DEF Within
<1>3. Within(n + 1) \subseteq Within(n) \cup UNION {Neighbors(t) : t \in Within(n)}
  BY <1>1 DEF Within
<1>4. Within(n) \cup UNION {Neighbors(t) : t \in Within(n)} \subseteq Within(n + 1)
  <2>1. \A t \in Within(n) : t \in Within(n + 1) /\ Neighbors(t) \subseteq Within(n + 1)
    BY <1>2 DEF Within
  <2> QED BY <2>1
<1> QED BY <1>3, <1>4

LEMMA WithinMore ==
  ASSUME NEW m \in Nat, NEW n \in Nat, m <= n
  PROVE  Within(m) \subseteq Within(n)
<1> SUFFICES ASSUME NEW way \in Ways(m)
             PROVE  way[m] \in Within(n)
  BY DEF Within
<1> DEFINE v == [i \in 0 .. n |-> IF i <= m THEN way[i] ELSE way[m]]
<1>1. v \in [0 .. n -> PlanTables] /\ v[0] = Root /\ v[n] = way[m]
  BY DEF Ways
<1>2. ASSUME NEW i \in 1 .. n
      PROVE  v[i] \in Neighbors(v[i - 1]) \cup {v[i - 1]}
  <2>1. CASE i <= m
    BY <2>1 DEF Ways
  <2>2. CASE i > m
    BY <2>2
  <2> QED BY <2>1, <2>2
<1>3. v \in Ways(n)
  BY <1>1, <1>2 DEF Ways
<1> QED BY <1>1, <1>3 DEF Within

\* No way leads out of a set that has the neighbors of its tables.
LEMMA WithinClosed ==
  ASSUME NEW V, Root \in V, \A t \in V : Neighbors(t) \subseteq V, NEW n \in Nat
  PROVE  Within(n) \subseteq V
<1> SUFFICES ASSUME NEW way \in Ways(n), way[n] \notin V
             PROVE  FALSE
  BY DEF Within
<1> DEFINE T == {i \in 0 .. n : way[i] \notin V}
<1>1. T \in SUBSET Nat /\ T # {}
  OBVIOUS
<1>2. PICK m \in T : \A k \in T : m <= k
  <2> HIDE DEF T
  <2> QED BY <1>1, LeastNumber
<1>3. m \in 1 .. n /\ way[m] \notin V
  BY <1>2 DEF Ways
<1>4. way[m - 1] \in V
  BY <1>2, <1>3
<1> QED BY <1>3, <1>4 DEF Ways

-----------------------------------------------------------------------------
(* The queue.                                                              *)

LEMMA PlanTablesFinite == IsFiniteSet(PlanTables)
<1> DEFINE first == [r \in Relationships |-> r[1]]
<1> DEFINE second == [r \in Relationships |-> r[2]]
<1>1. IsFiniteSet({r[1] : r \in Relationships})
  <2>1. first \in Surjection(Relationships, {r[1] : r \in Relationships})
    BY DEF Surjection
  <2> QED BY <2>1, PlanAssumption, FS_Surjection
<1>2. IsFiniteSet({r[2] : r \in Relationships})
  <2>1. second \in Surjection(Relationships, {r[2] : r \in Relationships})
    BY DEF Surjection
  <2> QED BY <2>1, PlanAssumption, FS_Surjection
<1>3. IsFiniteSet({Root})
  BY FS_Singleton
<1> QED BY <1>1, <1>2, <1>3, FS_Union DEF PlanTables

\* A sequence of SetToSeqs has every element of the set, and each once.
LEMMA EachListedOnce ==
  ASSUME NEW S \in SUBSET PlanTables, NEW s \in SetToSeqs(S)
  PROVE  /\ s \in Seq(S) /\ DOMAIN s = 1 .. Len(s)
         /\ \A i, j \in 1 .. Len(s) : i # j => s[i] # s[j]
         /\ \A t \in S : \E i \in 1 .. Len(s) : s[i] = t
<1>1. IsFiniteSet(S) /\ Cardinality(S) \in Nat
  BY PlanTablesFinite, FS_Subset, FS_CardinalityType
<1>2. s \in [1 .. Cardinality(S) -> S] /\ \A i, j \in 1 .. Cardinality(S) : i # j => s[i] # s[j]
  BY DEF SetToSeqs
<1>3. s \in Injection(1 .. Cardinality(S), S)
  BY <1>2 DEF Injection, IsInjective
<1>4. Cardinality(1 .. Cardinality(S)) = Cardinality(S)
  BY <1>1, FS_Interval
<1>5. s \in Surjection(1 .. Cardinality(S), S)
  BY <1>1, <1>3, <1>4, FS_Injection
<1>6. s \in Seq(S) /\ Len(s) = Cardinality(S)
  BY <1>1, <1>2
<1> QED BY <1>2, <1>5, <1>6 DEF Surjection

LEMMA OneAfterTheOther ==
  ASSUME NEW Q, NEW u \in Seq(Q), NEW v \in Seq(Q)
  PROVE  /\ u \o v \in Seq(Q) /\ Len(u \o v) = Len(u) + Len(v)
         /\ \A i \in 1 .. Len(u) : (u \o v)[i] = u[i]
         /\ \A i \in 1 .. Len(v) : (u \o v)[Len(u) + i] = v[i]
<1>1. Len(u) \in Nat /\ Len(v) \in Nat
  BY LenProperties
<1> QED BY <1>1, ConcatProperties

\* The queue after a table has been taken from it and others have been added.
LEMMA TablesAtDepth ==
  ASSUME NEW S \in SUBSET PlanTables, NEW s \in SetToSeqs(S), NEW e \in 0 .. MaxDepth
  PROVE  /\ AtDepth(s, e) \in Seq(PlanTables \X (0 .. MaxDepth)) /\ Len(AtDepth(s, e)) = Len(s)
         /\ \A i \in 1 .. Len(s) : AtDepth(s, e)[i] = <<s[i], e>>
<1>1. s \in Seq(S) /\ DOMAIN s = 1 .. Len(s)
  BY EachListedOnce
<1>2. Len(s) \in Nat
  BY <1>1, LenProperties
<1> QED BY <1>1, <1>2 DEF AtDepth

LEMMA Requeued ==
  ASSUME NEW q, NEW n, NEW p, NEW m, NEW s, NEW S, NEW d, NEW top,
         Requeues(q, n, p, m, s, S, d, top)
  PROVE  /\ InOrder(p, d, top)
         /\ Pending(p, d) = Pending(q, d) \ {q[1][1]}
         /\ Pending(p, d + 1) = Pending(q, d + 1) \cup S
<1>1. /\ n \in Nat \ {0} /\ m \in Nat /\ d \in Nat /\ top \in Nat
      /\ DOMAIN q = 1 .. n /\ DOMAIN p = 1 .. n - 1 + m
      /\ q[1][2] = d /\ (m > 0 => d < top)
      /\ \A i \in 1 .. n : q[i][2] \in {d, d + 1} /\ q[i][2] <= top
      /\ \A i, j \in 1 .. n : i < j => q[i][2] <= q[j][2] /\ q[i][1] # q[j][1]
  BY DEF Requeues, InOrder
<1>6. /\ \A i \in 1 .. n - 1 : p[i] = q[i + 1]
      /\ \A i \in 1 .. m : p[n - 1 + i] = <<s[i], d + 1>>
  BY DEF Requeues
<1>7. (\A i \in 1 .. m : s[i] \in S) /\ (\A i \in 1 .. n : q[i][1] \notin S)
  BY DEF Requeues
<1>8. \A u \in S : \E i \in 1 .. m : s[i] = u
  BY DEF Requeues
<1>9. \A i, j \in 1 .. m : i # j => s[i] # s[j]
  BY DEF Requeues
<1>2. ASSUME NEW i \in 1 .. n - 1 + m
      PROVE  \/ i \in 1 .. n - 1 /\ p[i] = q[i + 1]
             \/ i - (n - 1) \in 1 .. m /\ p[i] = <<s[i - (n - 1)], d + 1>>
  <2>1. CASE i <= n - 1
    BY <1>1, <1>6, <2>1
  <2>2. CASE i > n - 1
    <3>1. i - (n - 1) \in 1 .. m /\ n - 1 + (i - (n - 1)) = i
      BY <1>1, <2>2
    <3> QED BY <1>6, <3>1
  <2> QED BY <1>1, <2>1, <2>2
<1>3. InOrder(p, d, top)
  <2>1. ASSUME NEW i \in 1 .. n - 1 + m
        PROVE  p[i][2] \in {d, d + 1} /\ p[i][2] <= top
    BY <1>1, <1>2
  <2>2. ASSUME NEW i \in 1 .. n - 1 + m, NEW j \in 1 .. n - 1 + m, i < j
        PROVE  p[i][2] <= p[j][2] /\ p[i][1] # p[j][1]
    <3>1. CASE j \in 1 .. n - 1 /\ p[j] = q[j + 1]
      <4>1. p[i] = q[i + 1] /\ i + 1 \in 1 .. n /\ j + 1 \in 1 .. n /\ i + 1 < j + 1
        <5>1. i \in 1 .. n - 1
          BY <1>1, <2>2, <3>1
        <5>2. p[i] = q[i + 1]
          BY <1>6, <5>1
        <5> QED BY <1>1, <2>2, <3>1, <5>1, <5>2
      <4> QED BY <1>1, <3>1, <4>1
    <3>2. CASE j - (n - 1) \in 1 .. m /\ p[j] = <<s[j - (n - 1)], d + 1>>
      <4>1. CASE i \in 1 .. n - 1 /\ p[i] = q[i + 1]
        <5>1. i + 1 \in 1 .. n
          BY <1>1, <4>1
        <5>2. q[i + 1][2] \in {d, d + 1} /\ q[i + 1][1] \notin S
          BY <1>1, <1>7, <5>1
        <5>3. s[j - (n - 1)] \in S
          BY <1>7, <3>2
        <5>4. p[j][2] = d + 1 /\ p[j][1] \in S
          BY <3>2, <5>3
        <5>5. p[i][2] \in {d, d + 1} /\ p[i][1] \notin S
          BY <4>1, <5>2
        <5> QED BY <1>1, <5>4, <5>5
      <4>2. CASE i - (n - 1) \in 1 .. m /\ p[i] = <<s[i - (n - 1)], d + 1>>
        <5>1. i - (n - 1) # j - (n - 1)
          BY <1>1, <2>2
        <5>2. s[i - (n - 1)] # s[j - (n - 1)]
          BY <1>9, <3>2, <4>2, <5>1
        <5> QED BY <1>1, <3>2, <4>2, <5>2
      <4> QED BY <1>2, <4>1, <4>2
    <3> QED BY <1>2, <3>1, <3>2
  <2> QED BY <1>1, <2>1, <2>2 DEF InOrder
<1>4. ASSUME NEW t
      PROVE  t \in Pending(p, d) <=> t \in Pending(q, d) /\ t # q[1][1]
  <2>1. ASSUME NEW i \in 1 .. n - 1 + m, p[i][2] = d, p[i][1] = t
        PROVE  t \in Pending(q, d) /\ t # q[1][1]
    <3>1. i \in 1 .. n - 1 /\ p[i] = q[i + 1]
      BY <1>1, <1>2, <2>1
    <3>2. i + 1 \in 1 .. n /\ 1 \in 1 .. n /\ 1 < i + 1
      BY <1>1, <3>1
    <3>3. q[i + 1][2] = d /\ q[i + 1][1] = t /\ q[1][1] # t
      BY <1>1, <2>1, <3>1, <3>2
    <3> QED BY <1>1, <3>2, <3>3 DEF Pending
  <2>2. ASSUME NEW i \in 1 .. n, q[i][2] = d, q[i][1] = t, t # q[1][1]
        PROVE  t \in Pending(p, d)
    <3>1. i - 1 \in 1 .. n - 1 /\ i - 1 \in 1 .. n - 1 + m /\ (i - 1) + 1 = i
      BY <1>1, <2>2
    <3>2. p[i - 1] = q[i]
      BY <1>6, <3>1
    <3> QED BY <1>1, <2>2, <3>1, <3>2 DEF Pending
  <2> QED BY <1>1, <2>1, <2>2 DEF Pending
<1>5. ASSUME NEW t
      PROVE  t \in Pending(p, d + 1) <=> t \in Pending(q, d + 1) \/ t \in S
  <2>1. ASSUME NEW i \in 1 .. n - 1 + m, p[i][2] = d + 1, p[i][1] = t
        PROVE  t \in Pending(q, d + 1) \/ t \in S
    <3>1. CASE i \in 1 .. n - 1 /\ p[i] = q[i + 1]
      <4>1. i + 1 \in DOMAIN q /\ q[i + 1][2] = d + 1 /\ q[i + 1][1] = t
        BY <1>1, <2>1, <3>1
      <4> QED BY <1>1, <4>1 DEF Pending
    <3>2. CASE i - (n - 1) \in 1 .. m /\ p[i] = <<s[i - (n - 1)], d + 1>>
      BY <1>7, <2>1, <3>2
    <3> QED BY <1>2, <3>1, <3>2
  <2>2. ASSUME NEW i \in 1 .. n, q[i][2] = d + 1, q[i][1] = t
        PROVE  t \in Pending(p, d + 1)
    <3>1. i # 1
      BY <1>1, <2>2
    <3>2. i - 1 \in 1 .. n - 1 /\ i - 1 \in 1 .. n - 1 + m /\ (i - 1) + 1 = i
      BY <1>1, <3>1
    <3>3. p[i - 1] = q[i]
      BY <1>6, <3>2
    <3> QED BY <1>1, <2>2, <3>2, <3>3 DEF Pending
  <2>3. ASSUME NEW i \in 1 .. m, s[i] = t
        PROVE  t \in Pending(p, d + 1)
    <3>1. n - 1 + i \in 1 .. n - 1 + m
      BY <1>1, <2>3
    <3>2. p[n - 1 + i] = <<t, d + 1>>
      BY <1>6, <2>3
    <3>3. p[n - 1 + i][2] = d + 1 /\ p[n - 1 + i][1] = t
      BY <3>2
    <3> QED BY <1>1, <3>1, <3>3 DEF Pending
  <2> QED BY <1>1, <1>8, <2>1, <2>2, <2>3 DEF Pending
<1> QED BY <1>3, <1>4, <1>5

LEMMA QueueFacts ==
  ASSUME PlanOK, NEW d \in 0 .. maxDepth, InOrder(queue, d, maxDepth)
  PROVE  /\ Len(queue) \in Nat /\ DOMAIN queue = 1 .. Len(queue) /\ maxDepth \in Nat /\ d \in Nat
         /\ queue # <<>> => 1 \in DOMAIN queue /\ Head(queue) = queue[1] /\ queue[1][1] \in PlanTables
         /\ \A k : Pending(queue, k) # {} => k \in {d, d + 1} /\ k <= maxDepth
<1>1. maxDepth \in Nat /\ d \in Nat /\ Len(queue) \in Nat /\ DOMAIN queue = 1 .. Len(queue)
  BY PlanAssumption DEF PlanOK
<1>2. queue # <<>> => 1 \in DOMAIN queue /\ Head(queue) = queue[1] /\ queue[1][1] \in PlanTables
  BY DEF PlanOK
<1> QED BY <1>1, <1>2 DEF InOrder, Pending

\* When no table of depth d is left in the queue, the next level is complete.
LEMMA NextLevel ==
  ASSUME PlanOK, NEW d \in 0 .. maxDepth, Level(d), queue # <<>>, queue[1][2] # d
  PROVE  d + 1 \in 0 .. maxDepth /\ Level(d + 1)
<1>1. InOrder(queue, d, maxDepth)
  BY DEF Level
<1>2. \A i \in DOMAIN queue : queue[i][2] = d + 1
  BY <1>1, QueueFacts DEF InOrder
<1>3. d < maxDepth
  BY <1>1, <1>2, QueueFacts DEF InOrder
<1>4. Pending(queue, d) = {} /\ Pending(queue, d + 1 + 1) = {}
  BY <1>1, <1>2, QueueFacts DEF Pending
<1>5. Expanded(d) = Within(d)
  BY <1>3, <1>4 DEF Expanded
<1>6. visited = Within(d + 1)
  <2>1. Within(d + 1) = Within(d) \cup UNION {Neighbors(t) : t \in Within(d)}
    BY WithinOneMore, QueueFacts, <1>1
  <2> QED BY <1>5, <2>1 DEF Level
<1>7. Expanded(d + 1) = Within(d)
  <2>1. d + 1 # 0 /\ d + 1 - 1 = d
    BY <1>1, QueueFacts
  <2> QED BY <1>6, <2>1 DEF Expanded, Level
<1>8. InOrder(queue, d + 1, maxDepth)
  BY <1>1, <1>2, QueueFacts DEF InOrder
<1>9. Pending(queue, d + 1) \subseteq Within(d + 1)
  BY DEF Level
<1>10. Within(d + 1) \cap Pending(queue, d + 1 + 1) = {} /\ visited = Within(d + 1) \cup Pending(queue, d + 1 + 1)
       /\ Pending(queue, d + 1 + 1) \subseteq Within(d + 1 + 1)
  BY <1>4, <1>6
<1>11. /\ \A t \in Expanded(d + 1) : Neighbors(t) \subseteq visited
       /\ followed = UNION {Joining(t) : t \in Expanded(d + 1)}
  BY <1>5, <1>7 DEF Level
<1> QED BY <1>1, <1>3, <1>8, <1>9, <1>10, <1>11, QueueFacts DEF Level

\* What the plan is when the queue is empty.
LEMMA LastLevel ==
  ASSUME PlanOK, Root \in visited, NEW d \in 0 .. maxDepth, Level(d), queue = <<>>
  PROVE  /\ visited = Within(maxDepth)
         /\ followed = IF maxDepth = 0 THEN {} ELSE UNION {Joining(t) : t \in Within(maxDepth - 1)}
<1>1. maxDepth \in Nat /\ d \in Nat /\ InOrder(queue, d, maxDepth)
  BY QueueFacts DEF Level
<1>2. \A k : Pending(queue, k) = {}
  BY DEF Pending
<1>3. visited = Within(d)
  BY <1>2 DEF Level
<1>4. CASE d = maxDepth
  BY <1>1, <1>3, <1>4 DEF Level, Expanded
<1>5. CASE d < maxDepth
  <2>1. Expanded(d) = Within(d)
    BY <1>2, <1>5 DEF Expanded
  <2>2. \A t \in visited : Neighbors(t) \subseteq visited
    BY <1>3, <2>1 DEF Level
  <2>3. Within(maxDepth) \subseteq visited
    BY <1>1, <2>2, WithinClosed
  <2>4. Within(d) \subseteq Within(maxDepth - 1) /\ Within(maxDepth - 1) \subseteq Within(maxDepth)
    <3>1. maxDepth - 1 \in Nat /\ d <= maxDepth - 1 /\ maxDepth - 1 <= maxDepth
      BY <1>1, <1>5
    <3> QED BY <1>1, <3>1, WithinMore
  <2>5. Within(maxDepth) = visited /\ Within(maxDepth - 1) = visited
    BY <1>3, <2>3, <2>4
  <2> QED BY <1>1, <1>3, <1>5, <2>1, <2>5 DEF Level
<1> QED BY <1>1, <1>4, <1>5

LEMMA InitPlanning == PlanInit => Planning
<1> SUFFICES ASSUME PlanInit PROVE Planning
  OBVIOUS
<1>1. maxDepth \in Nat
  BY PlanAssumption DEF PlanInit
<1>2. queue \in Seq(PlanTables \X (0 .. MaxDepth))
  <2>1. CASE maxDepth = 0
    BY <2>1 DEF PlanInit
  <2>2. CASE maxDepth # 0
    <3>1. <<Root, 0>> \in PlanTables \X (0 .. MaxDepth)
      BY PlanAssumption DEF PlanTables
    <3> QED BY <2>2, <3>1 DEF PlanInit
  <2> QED BY <2>1, <2>2
<1>3. PlanOK
  BY <1>2 DEF PlanInit, PlanOK, PlanTables
<1>4. Level(0)
  <2>1. \A i \in DOMAIN queue : i = 1 /\ queue[i] = <<Root, 0>> /\ maxDepth > 0
    BY <1>1 DEF PlanInit
  <2>2. Pending(queue, 0 + 1) = {} /\ Pending(queue, 0) = IF maxDepth = 0 THEN {} ELSE {Root}
    BY <1>1, <2>1 DEF Pending, PlanInit
  <2>3. Expanded(0) = {}
    BY <1>1, <2>2, WithinNone DEF Expanded
  <2>4. InOrder(queue, 0, maxDepth)
    BY <1>1, <2>1 DEF InOrder
  <2> QED BY <2>2, <2>3, <2>4, WithinNone DEF Level, PlanInit
<1> QED BY <1>1, <1>3, <1>4 DEF Planning, PlanInit

LEMMA NextPlanning == Planning /\ [PlanNext]_planVars => Planning'
<1> SUFFICES ASSUME Planning, [PlanNext]_planVars
             PROVE  Planning'
  OBVIOUS
<1>1. /\ UNCHANGED <<links, rootIsTable, maxDepth>>
      /\ \A t : Joining(t)' = Joining(t) /\ Neighbors(t)' = Neighbors(t)
      /\ \A n : Within(n)' = Within(n)
  <2>1. UNCHANGED <<links, rootIsTable, maxDepth>>
    BY DEF PlanNext, SkipDeep, Expand, planVars
  <2>2. \A t : Joining(t)' = Joining(t)
    BY <2>1 DEF Joining
  <2>3. \A t : Neighbors(t)' = Neighbors(t)
    BY <2>2 DEF Neighbors
  <2>4. \A n : Ways(n)' = Ways(n)
    BY <2>3 DEF Ways
  <2>5. \A n : Within(n)' = Within(n)
    BY <2>4 DEF Within
  <2> QED BY <2>1, <2>2, <2>3, <2>5
<1>2. CASE UNCHANGED planVars
  <2>1. UNCHANGED <<queue, visited, selected, followed>>
    BY <1>2 DEF planVars
  <2>2. \A d : (Pending(queue', d) = Pending(queue, d)) /\ (InOrder(queue', d, maxDepth) <=> InOrder(queue, d, maxDepth))
    BY <1>1, <2>1 DEF Pending, InOrder
  <2>3. \A d : Expanded(d)' = Expanded(d)
    BY <1>1, <2>2 DEF Expanded
  <2>4. \A d : Level(d) => Level(d)'
    BY <1>1, <2>1, <2>2, <2>3 DEF Level
  <2> QED BY <1>1, <2>1, <2>4 DEF Planning, PlanOK
<1>3. ASSUME queue # <<>>
      PROVE  \E d \in 0 .. maxDepth : Level(d) /\ queue[1][2] = d
  <2>1. PICK d \in 0 .. maxDepth : Level(d)
    BY DEF Planning
  <2>2. CASE queue[1][2] = d
    BY <2>1, <2>2
  <2>3. CASE queue[1][2] # d
    <3>1. d + 1 \in 0 .. maxDepth /\ Level(d + 1) /\ queue[1][2] = d + 1
      BY <1>3, <2>1, <2>3, NextLevel, QueueFacts DEF Planning, Level, InOrder
    <3> QED BY <3>1
  <2> QED BY <2>2, <2>3
<1>4. CASE SkipDeep
  <2>1. queue # <<>> /\ Head(queue)[2] >= maxDepth /\ queue' = Tail(queue)
        /\ UNCHANGED <<visited, selected, followed>>
    BY <1>4 DEF SkipDeep
  <2>2. PICK d \in 0 .. maxDepth : Level(d) /\ queue[1][2] = d
    BY <1>3, <2>1
  <2>3. d = maxDepth /\ Pending(queue, d + 1) = {}
    BY <2>1, <2>2, QueueFacts DEF Planning, Level
  <2>4. /\ queue' \in Seq(PlanTables \X (0 .. MaxDepth)) /\ DOMAIN queue' = 1 .. Len(queue) - 1 + 0
        /\ \A i \in 1 .. Len(queue) - 1 : queue'[i] = queue[i + 1]
    BY <2>1 DEF Planning, PlanOK
  <2>5. /\ InOrder(queue', d, maxDepth) /\ Pending(queue', d) \subseteq Pending(queue, d)
        /\ Pending(queue', d + 1) = {}
    <3>1. /\ Len(queue) \in Nat \ {0} /\ DOMAIN queue = 1 .. Len(queue)
          /\ d \in Nat /\ maxDepth \in Nat /\ InOrder(queue, d, maxDepth) /\ queue[1][2] = d
      BY <2>1, <2>2, QueueFacts DEF Planning, PlanOK, Level
    <3>2. PICK none : none = {}
      OBVIOUS
    <3>3. Requeues(queue, Len(queue), queue', 0, none, none, d, maxDepth)
      BY <2>4, <3>1, <3>2 DEF Requeues
    <3>4. /\ InOrder(queue', d, maxDepth)
          /\ Pending(queue', d) = Pending(queue, d) \ {queue[1][1]}
          /\ Pending(queue', d + 1) = Pending(queue, d + 1) \cup none
      BY <3>3, Requeued
    <3> QED BY <2>3, <3>2, <3>4
  <2>6. Expanded(d)' = Expanded(d)
    BY <1>1, <2>3 DEF Expanded
  <2>7. Level(d)'
    BY <1>1, <2>1, <2>2, <2>3, <2>5, <2>6 DEF Level
  <2>8. PlanOK'
    BY <1>1, <2>1, <2>4 DEF Planning, PlanOK
  <2> QED BY <1>1, <2>1, <2>7, <2>8 DEF Planning
<1>5. CASE Expand
  <2> DEFINE t == Head(queue)[1]
             fresh == Neighbors(t) \ visited
  <2>1. /\ queue # <<>> /\ Head(queue)[2] < maxDepth
        /\ visited' = visited \cup fresh /\ selected' = selected \cup fresh
        /\ followed' = followed \cup Joining(t)
    BY <1>5 DEF Expand
  <2>2. PICK s \in SetToSeqs(fresh) :
          queue' = Tail(queue) \o [i \in DOMAIN s |-> <<s[i], Head(queue)[2] + 1>>]
    BY <1>5 DEF Expand
  <2>3. PICK d \in 0 .. maxDepth : Level(d) /\ queue[1][2] = d
    BY <1>3, <2>1
  <2>4. /\ d < maxDepth /\ d \in Nat /\ d + 1 \in 0 .. MaxDepth /\ Head(queue) = queue[1]
        /\ t = queue[1][1] /\ t \in PlanTables /\ maxDepth \in Nat
    BY <2>1, <2>3, QueueFacts, PlanAssumption DEF Planning, Level, PlanOK
  <2>5. fresh \in SUBSET PlanTables
    BY NeighborsAreTables DEF Planning
  <2>6. t \in Pending(queue, d) /\ t \in Within(d) /\ \A i \in DOMAIN queue : queue[i][1] \in visited
    <3>1. 1 \in DOMAIN queue
      BY <2>1, <2>3, QueueFacts DEF Planning, Level
    <3>2. \A i \in DOMAIN queue : queue[i][1] \in Pending(queue, d) \/ queue[i][1] \in Pending(queue, d + 1)
      BY <2>3 DEF Level, InOrder, Pending
    <3> QED BY <2>3, <2>4, <3>1, <3>2 DEF Level, Pending
  <2> HIDE DEF fresh, t
  <2>7. /\ s \in Seq(fresh) /\ Len(s) \in Nat
        /\ \A i, j \in 1 .. Len(s) : i # j => s[i] # s[j]
        /\ \A i \in 1 .. Len(s) : s[i] \in fresh
        /\ \A u \in fresh : \E i \in 1 .. Len(s) : s[i] = u
    <3>1. s \in Seq(fresh) /\ DOMAIN s = 1 .. Len(s)
      BY <2>5, EachListedOnce
    <3>2. Len(s) \in Nat
      BY <3>1, LenProperties
    <3>3. \A i \in 1 .. Len(s) : s[i] \in fresh
      BY <3>1, ElementOfSeq
    <3>4. /\ \A i, j \in 1 .. Len(s) : i # j => s[i] # s[j]
          /\ \A u \in fresh : \E i \in 1 .. Len(s) : s[i] = u
      BY <2>5, EachListedOnce
    <3> QED BY <3>1, <3>2, <3>3, <3>4
  <2>8. /\ queue' \in Seq(PlanTables \X (0 .. MaxDepth)) /\ DOMAIN queue' = 1 .. Len(queue) - 1 + Len(s)
        /\ \A i \in 1 .. Len(queue) - 1 : queue'[i] = queue[i + 1]
        /\ \A i \in 1 .. Len(s) : queue'[Len(queue) - 1 + i] = <<s[i], d + 1>>
    <3>1. PICK rest, new : rest = Tail(queue) /\ new = AtDepth(s, d + 1)
      OBVIOUS
    <3>2. queue' = rest \o new
      BY <2>2, <2>3, <2>4, <3>1 DEF AtDepth
    <3>3. /\ new \in Seq(PlanTables \X (0 .. MaxDepth)) /\ Len(new) = Len(s)
          /\ \A i \in 1 .. Len(s) : new[i] = <<s[i], d + 1>>
      BY <2>4, <2>5, <3>1, TablesAtDepth
    <3>4. /\ rest \in Seq(PlanTables \X (0 .. MaxDepth)) /\ Len(rest) = Len(queue) - 1
          /\ \A i \in 1 .. Len(queue) - 1 : rest[i] = queue[i + 1]
      BY <2>1, <3>1 DEF Planning, PlanOK
    <3>5. /\ rest \o new \in Seq(PlanTables \X (0 .. MaxDepth)) /\ Len(rest \o new) = Len(rest) + Len(new)
          /\ \A i \in 1 .. Len(rest) : (rest \o new)[i] = rest[i]
          /\ \A i \in 1 .. Len(new) : (rest \o new)[Len(rest) + i] = new[i]
      <4>1. PICK Q : Q = PlanTables \X (0 .. MaxDepth)
        OBVIOUS
      <4>2. rest \in Seq(Q) /\ new \in Seq(Q)
        BY <3>3, <3>4, <4>1
      <4>3. /\ rest \o new \in Seq(Q) /\ Len(rest \o new) = Len(rest) + Len(new)
            /\ \A i \in 1 .. Len(rest) : (rest \o new)[i] = rest[i]
            /\ \A i \in 1 .. Len(new) : (rest \o new)[Len(rest) + i] = new[i]
        BY <4>2, OneAfterTheOther
      <4> QED BY <4>1, <4>3
    <3>6. DOMAIN (rest \o new) = 1 .. Len(rest) + Len(new)
      BY <3>5, LenProperties, Zenon
    <3> QED BY <3>2, <3>3, <3>4, <3>5, <3>6
  <2>9. /\ InOrder(queue', d, maxDepth) /\ Pending(queue', d) = Pending(queue, d) \ {t}
        /\ Pending(queue', d + 1) = Pending(queue, d + 1) \cup fresh
    <3>1. \A i \in 1 .. Len(queue) : queue[i][1] \notin fresh
      BY <2>3, <2>6, QueueFacts DEF fresh, Planning, Level
    <3>2. /\ Len(queue) \in Nat \ {0} /\ DOMAIN queue = 1 .. Len(queue)
          /\ d \in Nat /\ maxDepth \in Nat /\ InOrder(queue, d, maxDepth) /\ queue[1][2] = d
      BY <2>1, <2>3, QueueFacts DEF Planning, PlanOK, Level
    <3>3. Requeues(queue, Len(queue), queue', Len(s), s, fresh, d, maxDepth)
      BY <2>4, <2>7, <2>8, <3>1, <3>2 DEF Requeues
    <3> QED BY <2>4, <3>3, Requeued
  <2>10. Expanded(d)' = Expanded(d) \cup {t}
    BY <1>1, <2>4, <2>6, <2>9 DEF Expanded
  <2>11. Neighbors(t) \subseteq Within(d + 1)
    BY <2>4, <2>6, WithinOneMore DEF Planning
  <2>12. visited' = Within(d) \cup Pending(queue', d + 1) /\ Within(d) \cap Pending(queue', d + 1) = {}
    BY <2>1, <2>3, <2>9 DEF Level, fresh
  <2>13. Pending(queue', d) \subseteq Within(d) /\ Pending(queue', d + 1) \subseteq Within(d + 1)
    BY <2>3, <2>9, <2>11 DEF Level, fresh
  <2>14. (\A u \in Expanded(d)' : Neighbors(u) \subseteq visited')
         /\ followed' = UNION {Joining(u) : u \in Expanded(d)'}
    <3>1. \A u \in Expanded(d)' : Neighbors(u) \subseteq visited'
      BY <2>1, <2>3, <2>10 DEF Level, fresh
    <3>2. followed = UNION {Joining(u) : u \in Expanded(d)}
      BY <2>3 DEF Level
    <3> QED BY <2>1, <2>10, <3>1, <3>2
  <2>15. Level(d)'
    BY <1>1, <2>9, <2>12, <2>13, <2>14 DEF Level
  <2>16. PlanOK'
    BY <1>1, <2>1, <2>5, <2>8 DEF Planning, PlanOK, Joining
  <2>17. selected' = visited' \ (IF rootIsTable THEN {} ELSE {Root}) /\ Root \in visited'
    BY <2>1 DEF Planning, fresh
  <2> QED BY <1>1, <2>15, <2>16, <2>17 DEF Planning
<1> QED BY <1>2, <1>4, <1>5 DEF PlanNext

\* A plan is the neighbourhood of its root, for any tables and foreign keys,
\* in cycles and with parallel ones, and in whatever order neighbors are met:
\* going breadth first, no table is reached by a way that is too long.
THEOREM SpecPlanIsNeighbourhood == PlanSpec => []PlanIsNeighbourhood
<1>1. PlanSpec => []Planning
  BY InitPlanning, NextPlanning, PTL DEF PlanSpec
<1>2. Planning => PlanIsNeighbourhood
  BY LastLevel DEF Planning, PlanIsNeighbourhood
<1> QED BY <1>1, <1>2, PTL

-----------------------------------------------------------------------------
(* MCDecisions.                                                            *)

LEMMA MaterialTypes ==
  /\ MaterialInit => MaterialOK
  /\ Progress /\ MaterialOK /\ [MaterialNext]_materialVars => MaterialOK'
<1>1. MaterialInit => MaterialOK
  <2> SUFFICES ASSUME MaterialInit PROVE MaterialOK
    OBVIOUS
  <2>1. rowCount \in UNION {[S -> 0 .. MaxRows] : S \in SUBSET Sources}
    <3>1. rowCount \in [{} -> 0 .. MaxRows] /\ {} \in SUBSET Sources
      BY DEF MaterialInit
    <3> QED BY <3>1
  <2>2. /\ rows \in [Sources -> 0 .. MaxRows] /\ lines \in [Sources -> 0 .. MaxRows]
        /\ disk \in SUBSET Sources /\ created \in SUBSET Sources
    BY MaterialAssumption DEF MaterialInit
  <2>3. /\ table \in 0 .. LastTable + 1 /\ fetched \in 0 .. MaxRows /\ written \in 0 .. MaxRows
        /\ sampled \in 0 .. SampleLimit /\ step \in Steps
    BY MaterialAssumption DEF MaterialInit, Steps
  <2> QED BY <2>1, <2>2, <2>3 DEF MaterialOK
<1>2. ASSUME Progress, MaterialOK, [MaterialNext]_materialVars
      PROVE  MaterialOK'
  <2> USE MaterialAssumption DEF MaterialOK, Steps, Sources
  <2>1. CASE OpenFile
    BY <1>2, <2>1 DEF OpenFile, progressVars
  <2>2. CASE FetchBatch
    <3> DEFINE n == Least(BatchSize, rows[table] - fetched)
    <3>1. /\ table \in Sources /\ rows[table] \in 0 .. MaxRows /\ fetched \in Nat
          /\ fetched < rows[table] /\ written = fetched /\ lines[table] = fetched
      BY <1>2, <2>2 DEF FetchBatch, Progress, Streaming
    <3>2. n \in Nat /\ fetched + n <= rows[table]
      BY <3>1 DEF Least
    <3>3. /\ fetched' = fetched + n /\ written' = written + n
          /\ sampled' = Least(SampleLimit, sampled + n)
          /\ lines' = [lines EXCEPT ![table] = @ + n]
          /\ UNCHANGED <<rows, table, disk, created, rowCount, step>>
      BY <2>2 DEF FetchBatch
    <3> HIDE DEF n
    <3>4. fetched' \in 0 .. MaxRows /\ written' \in 0 .. MaxRows
      BY <3>1, <3>2, <3>3
    <3>5. sampled' \in 0 .. SampleLimit
      BY <1>2, <3>2, <3>3 DEF Least
    <3>6. lines' \in [Sources -> 0 .. MaxRows]
      BY <1>2, <3>1, <3>2, <3>3
    <3> QED BY <1>2, <3>3, <3>4, <3>5, <3>6
  <2>3. CASE EndTable
    <3>1. /\ table \in Sources /\ written \in 0 .. MaxRows /\ created \in SUBSET Sources
          /\ \A t \in created : rowCount[t] \in 0 .. MaxRows
      BY <1>2, <2>3 DEF EndTable, Progress, Streaming, CreatedAreComplete
    <3>2. created' \in SUBSET Sources /\ rowCount' \in [created' -> 0 .. MaxRows]
      BY <2>3, <3>1 DEF EndTable
    <3>3. rowCount' \in UNION {[S -> 0 .. MaxRows] : S \in SUBSET Sources}
      BY <3>2
    <3>4. /\ table' \in 0 .. LastTable + 1 /\ fetched' \in 0 .. MaxRows
          /\ written' \in 0 .. MaxRows /\ sampled' \in 0 .. SampleLimit
      BY <2>3, <3>1 DEF EndTable, NextTable
    <3> QED BY <1>2, <2>3, <3>2, <3>3, <3>4 DEF EndTable
  <2>4. CASE ReturnSummary
    BY <1>2, <2>4 DEF ReturnSummary, progressVars
  <2>5. CASE RaiseBefore
    BY <1>2, <2>5 DEF RaiseBefore, progressVars
  <2>6. CASE RaiseStreaming
    BY <1>2, <2>6 DEF RaiseStreaming, progressVars
  <2>7. CASE RaiseClosing
    BY <1>2, <2>7 DEF RaiseClosing, progressVars
  <2>8. CASE RemovePath
    BY <1>2, <2>8 DEF RemovePath, progressVars
  <2>9. CASE Reraise
    BY <1>2, <2>9 DEF Reraise, progressVars
  <2>10. CASE Kill
    BY <1>2, <2>10 DEF Kill, progressVars
  <2>11. CASE UNCHANGED materialVars
    BY <1>2, <2>11 DEF materialVars, progressVars
  <2> QED BY <1>2, <2>1, <2>2, <2>3, <2>4, <2>5, <2>6, <2>7, <2>8, <2>9, <2>10, <2>11 DEF MaterialNext
<1> QED BY <1>1, <1>2

LEMMA GovernanceTypes ==
  /\ GovernanceInit => GovernanceOK
  /\ GovernanceOK /\ [GovernanceNext]_governanceVars => GovernanceOK'
<1>1. ASSUME GovernanceInit
      PROVE  GovernanceOK
  <2>1. PICK n \in 0 .. MaxPolicies : policies \in [1 .. n -> Policy]
    BY <1>1 DEF GovernanceInit
  <2>2. policies \in Seq(Policy) /\ Len(policies) = n /\ n <= MaxPolicies
    BY <2>1, GovernanceAssumption
  <2> QED BY <1>1, <2>2 DEF GovernanceInit, GovernanceOK
<1>2. ASSUME GovernanceOK, [GovernanceNext]_governanceVars
      PROVE  GovernanceOK'
  <2>1. \A c : Treatment(c) \in Types \cup {"raw"}
    BY DEF Treatment
  <2> QED BY <1>2, <2>1 DEF GovernanceOK, GovernanceNext, AssertPublishReady, ApplyToRows,
             RaiseTokenization, governanceVars, givenVars
<1> QED BY <1>1, <1>2

\* What runs checks together: each of the computations goes on as its own module
\* says, so that the theorems above are about the specification of the runs too.
THEOREM SpecIsEachOne ==
  Spec => /\ OrderSpec /\ MaterialSpec /\ PlanSpec
          /\ SelectionSpec /\ GovernanceSpec /\ IngestionSpec
<1>1. Init => /\ OrderInit /\ MaterialInit /\ PlanInit
              /\ SelectionInit /\ GovernanceInit /\ IngestionInit
  BY DEF Init
<1>2. [Next]_vars => /\ [OrderNext]_orderVars /\ [MaterialNext]_materialVars
                     /\ [PlanNext]_planVars /\ [SelectionNext]_selectionVars
                     /\ [GovernanceNext]_governanceVars /\ [IngestionNext]_ingestionVars
  BY DEF Next, vars
<1> QED BY <1>1, <1>2, PTL DEF Spec, OrderSpec, MaterialSpec, PlanSpec, SelectionSpec,
             GovernanceSpec, IngestionSpec

\* The variables of every computation stay within their types.
THEOREM SpecTypeOK == Spec => []TypeOK
<1>1. OrderSpec => []OrderOK
  <2>1. OrderSpec => []Ordered
    BY InitOrdered, NextOrdered, PTL DEF OrderSpec
  <2>2. Ordered => OrderOK
    BY DEF Ordered
  <2> QED BY <2>1, <2>2, PTL
<1>2. MaterialSpec => []MaterialOK
  <2>1. MaterialSpec => []Progress
    BY InitProgress, NextProgress, PTL DEF MaterialSpec
  <2> QED BY <2>1, MaterialTypes, PTL DEF MaterialSpec
<1>3. PlanSpec => []PlanOK
  <2>1. PlanSpec => []Planning
    BY InitPlanning, NextPlanning, PTL DEF PlanSpec
  <2>2. Planning => PlanOK
    BY DEF Planning
  <2> QED BY <2>1, <2>2, PTL
<1>4. SelectionSpec => []SelectionOK
  <2>1. SelectionSpec => []Selecting
    BY InitSelecting, NextSelecting, PTL DEF SelectionSpec
  <2>2. Selecting => SelectionOK
    BY DEF Selecting
  <2> QED BY <2>1, <2>2, PTL
<1>5. GovernanceSpec => []GovernanceOK
  BY GovernanceTypes, PTL DEF GovernanceSpec
<1>6. IngestionSpec => []IngestionOK
  <2>1. Ingested => IngestionOK
    BY DEF Ingested
  <2> QED BY <2>1, SpecIngested, PTL
<1>7. OrderOK /\ MaterialOK /\ PlanOK /\ SelectionOK /\ GovernanceOK /\ IngestionOK => TypeOK
  BY DEF TypeOK
<1> QED BY <1>1, <1>2, <1>3, <1>4, <1>5, <1>6, <1>7, SpecIsEachOne, PTL
=============================================================================
