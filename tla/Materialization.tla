---------------------------- MODULE Materialization ----------------------------
(***************************************************************************)
(* The execution of the refresh pipelines: every table of the source is    *)
(* streamed, in batches, to a JSON-lines file of its own; if one table     *)
(* cannot be, the files are removed and the refresh fails.                 *)
(***************************************************************************)
EXTENDS Naturals

CONSTANTS
  LastTable,    \* the tables are numbered as _order_tables returns them
  MaxRows,      \* bound of the rows of a table
  BatchSize,    \* _STREAM_BATCH_SIZE
  SampleLimit   \* sample_limit

ASSUME MaterialAssumption ==
  /\ LastTable \in Nat /\ MaxRows \in Nat
  /\ BatchSize \in Nat \ {0} /\ SampleLimit \in Nat

Sources == 0 .. LastTable

VARIABLES
  rows,      \* the rows of each table, as its query finds them
  table,     \* import_order
  fetched,   \* rows fetched of the table
  written,   \* materialized_row_count: lines written to its file
  sampled,   \* preview rows kept
  disk,      \* the tables whose file exists
  created,   \* created_paths
  lines,     \* the lines of each file
  rowCount,  \* the row counts in baseline_assets
  step       \* where the execution is

progressVars == <<table, fetched, written, sampled>>
materialVars == <<rows, progressVars, disk, created, lines, rowCount, step>>

Steps == {"open", "stream", "clean", "done", "failed", "killed"}

MaterialOK ==
  /\ rows \in [Sources -> 0 .. MaxRows]
  /\ table \in 0 .. LastTable + 1
  /\ fetched \in 0 .. MaxRows
  /\ written \in 0 .. MaxRows
  /\ sampled \in 0 .. SampleLimit
  /\ disk \in SUBSET Sources
  /\ created \in SUBSET Sources
  /\ lines \in [Sources -> 0 .. MaxRows]
  /\ rowCount \in UNION {[S -> 0 .. MaxRows] : S \in SUBSET Sources}
  /\ step \in Steps

MaterialInit ==
  /\ rows \in [Sources -> 0 .. MaxRows]
  /\ table = 0 /\ fetched = 0 /\ written = 0 /\ sampled = 0
  /\ disk = {} /\ created = {}
  /\ lines = [t \in Sources |-> 0]
  /\ rowCount = [t \in {} |-> 0]
  /\ step = "open"

Least(a, b) == IF a <= b THEN a ELSE b

\* The checks, COUNT(*) and the queries for columns come before mkstemp.
OpenFile ==
  /\ step = "open" /\ table <= LastTable
  /\ disk' = disk \cup {table}
  /\ step' = "stream"
  /\ UNCHANGED <<rows, progressVars, created, lines, rowCount>>

\* Fault: the last batch counts as a whole one.
FetchWholeBatch ==
  /\ step = "stream" /\ fetched < rows[table]
  /\ fetched' = fetched + Least(BatchSize, rows[table] - fetched)
  /\ written' = written + BatchSize
  /\ sampled' = Least(SampleLimit, sampled + BatchSize)
  /\ lines' = [lines EXCEPT ![table] = @ + Least(BatchSize, rows[table] - fetched)]
  /\ UNCHANGED <<rows, table, disk, created, rowCount, step>>

FetchBatch ==
  LET n == Least(BatchSize, rows[table] - fetched) IN
  /\ step = "stream" /\ fetched < rows[table]
  /\ fetched' = fetched + n
  /\ written' = written + n
  /\ sampled' = Least(SampleLimit, sampled + n)
  /\ lines' = [lines EXCEPT ![table] = @ + n]
  /\ UNCHANGED <<rows, table, disk, created, rowCount, step>>

NextTable == table' = table + 1 /\ fetched' = 0 /\ written' = 0 /\ sampled' = 0

\* Fault: the asset counts the preview.
EndTableSampled ==
  /\ step = "stream" /\ fetched = rows[table]
  /\ created' = created \cup {table}
  /\ rowCount' = [t \in created' |-> IF t = table THEN sampled ELSE rowCount[t]]
  /\ step' = "open"
  /\ NextTable
  /\ UNCHANGED <<rows, disk, lines>>

\* fetchmany returns nothing: the file is closed and becomes an asset.
EndTable ==
  /\ step = "stream" /\ fetched = rows[table]
  /\ created' = created \cup {table}
  /\ rowCount' = [t \in created' |-> IF t = table THEN written ELSE rowCount[t]]
  /\ step' = "open"
  /\ NextTable
  /\ UNCHANGED <<rows, disk, lines>>

ReturnSummary ==
  /\ step = "open" /\ table = LastTable + 1
  /\ step' = "done"
  /\ UNCHANGED <<rows, progressVars, disk, created, lines, rowCount>>

\* A check or a query fails before the table has a file.
RaiseBefore ==
  /\ step = "open" /\ table <= LastTable
  /\ step' = "clean"
  /\ UNCHANGED <<rows, progressVars, disk, created, lines, rowCount>>

\* Fault: the file of the table that failed is left to the clean-up, which does
\* not know it.
RaiseAndKeep ==
  /\ step = "stream"
  /\ step' = "clean"
  /\ UNCHANGED <<rows, progressVars, disk, created, lines, rowCount>>

\* The database, a transformation or the file system fails at any row: the
\* extraction removes its own file, which is not in created_paths yet.
RaiseStreaming ==
  /\ step = "stream"
  /\ disk' = disk \ {table}
  /\ step' = "clean"
  /\ UNCHANGED <<rows, progressVars, created, lines, rowCount>>

\* The stream has ended well and the file is closed, then the cursor or the
\* connection cannot be: nobody is told of the file.
RaiseClosing ==
  /\ step = "stream" /\ fetched = rows[table]
  /\ step' = "clean"
  /\ UNCHANGED <<rows, progressVars, disk, created, lines, rowCount>>

\* A file that is gone already is passed over.
RemovePath == \E t \in created :
  /\ step = "clean"
  /\ disk' = disk \ {t}
  /\ created' = created \ {t}
  /\ UNCHANGED <<rows, progressVars, lines, rowCount, step>>

Reraise ==
  /\ step = "clean" /\ created = {}
  /\ step' = "failed"
  /\ UNCHANGED <<rows, progressVars, disk, created, lines, rowCount>>

\* Killed, the process leaves its files behind.
Kill ==
  /\ step \in {"open", "stream", "clean"}
  /\ step' = "killed"
  /\ UNCHANGED <<rows, progressVars, disk, created, lines, rowCount>>

MaterialNext ==
  \/ OpenFile \/ FetchBatch \/ EndTable \/ ReturnSummary
  \/ RaiseBefore \/ RaiseStreaming \/ RaiseClosing \/ RemovePath \/ Reraise \/ Kill

MaterialSpec == MaterialInit /\ [][MaterialNext]_materialVars

-----------------------------------------------------------------------------
\* A refresh that raises has removed the files of the tables before the one it
\* failed at, and leaves nothing half-written of that one: its file is left only
\* if it is complete and closing the connection failed (removals are taken to
\* succeed).
FailureCleansUp == step = "failed" => \A t \in disk : t = table /\ lines[t] = rows[t]

\* A refresh that returns has an asset for every table, its file is there and
\* has one line per row, and the row count says so: the publish pipeline
\* compares it with the lines it reads.
AssetsAreComplete ==
  step = "done" =>
    /\ disk = Sources
    /\ rowCount = rows /\ lines = rows
=============================================================================
