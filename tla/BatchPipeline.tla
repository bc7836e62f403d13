--------------------------- MODULE BatchPipeline ---------------------------
(***************************************************************************)
(* The batch path: run_pipeline (spark/feature_pipeline.py) overwrites the *)
(* partitioned Parquet files, while the query layer reads them and the     *)
(* versioner commits snapshots that describe them.  The three share        *)
(* nothing but the files, and no lock protects these.                      *)
(*                                                                         *)
(* mode("overwrite") deletes all files before it writes the new ones, one  *)
(* at a time; each holds rows of one date, and a date may have several.    *)
(* _scan_parquet reads the files twice: for the row count and for the      *)
(* statistics.                                                             *)
(***************************************************************************)
EXTENDS FeatureVersioner, BatchFeatures

CONSTANTS
    Samples,        \* what generate_transactions may return
    MaxRuns         \* bound: runs of the pipeline

ASSUME SamplesAssumption == \A s \in Samples : IsSample(s)
ASSUME RunsAssumption == MaxRuns \in Nat

VARIABLES
    job,        \* of the pipeline: "idle", "deleting" or "writing"
    txns,       \* the transactions of the latest run
    output,     \* the wide table it writes
    files,      \* the Parquet files, each the set of its rows
    whole,      \* the latest run has finished
    runs,       \* how many runs were started
    scan,       \* "none", or the versioner has counted the rows
    counted,    \* how many
    steady,     \* no file has changed since the scan began (history)
    unchanged   \* the snapshots since whose scan none has (history)

scanVars  == <<scan, counted>>
fileVars  == <<files, steady, unchanged>>
jobVars   == <<job, txns, output, whole, runs>>
batchVars == <<jobVars, fileVars, scanVars>>
allVars   == <<vars, batchVars>>

BatchInit ==
    /\ Init
    /\ job = "idle"
    /\ txns = {} /\ output = {} /\ files = {}
    /\ whole = FALSE
    /\ runs = 0
    /\ scan = "none" /\ counted = 0
    /\ steady = TRUE /\ unchanged = {}

(* The tables run_pipeline may compute, and the parts of them that a       *)
(* reader may find in the files.                                           *)
WideTables(s) == {WideTable(s, categories) : categories \in CategoryTables(s)}
Readable == {{}} \union UNION {SUBSET table : table \in UNION {WideTables(s) : s \in Samples}}

(* A scan may count the rows of one part and read the values of another.   *)
ASSUME ContentsAssumption ==
    \A a, b \in Readable : [rows |-> Cardinality(a), stats |-> Summary(b)] \in Contents

Table == UNION files        \* what a query reads
Days(table) == {r.day : r \in table}
Partition(d, table) == {r \in table : r.day = d}

-----------------------------------------------------------------------------
(* Faulty variants of the definitions below. *)

OverwrittenDates ==             \* only files of dates it has rows for
    {f \in files : Days(f) \subseteq Days(output)}
CountFiles ==                   \* counts files, not rows
    /\ phase = "idle" /\ scan = "none" /\ taken < MaxSnapshots
    /\ files # {}
    /\ scan' = "counted"
    /\ counted' = Cardinality(files)
    /\ steady' = TRUE
    /\ UNCHANGED <<vars, jobVars, files, unchanged>>

-----------------------------------------------------------------------------
(* The pipeline. *)

StartRun(s) ==
    /\ job = "idle" /\ runs < MaxRuns
    /\ runs' = runs + 1
    /\ job' = "deleting"
    /\ txns' = s
    /\ output' \in WideTables(s)
    /\ whole' = FALSE
    /\ UNCHANGED <<vars, fileVars, scanVars>>

ChangeFiles(new) ==
    /\ files' = new
    /\ steady' = FALSE /\ unchanged' = {}
    /\ UNCHANGED <<vars, jobVars, scanVars>>

Outdated == files

DeleteFile(f) ==
    /\ job = "deleting" /\ f \in Outdated
    /\ ChangeFiles(files \ {f})

BeginWrite ==
    /\ job = "deleting" /\ Outdated = {}
    /\ job' = "writing"
    /\ UNCHANGED <<vars, txns, output, whole, runs, fileVars, scanVars>>

(* A task's file of a date is complete and gets its place.                 *)
WriteFile(f) ==
    /\ job = "writing" /\ f # {}
    /\ ChangeFiles(files \union {f})

FinishRun ==
    /\ job = "writing" /\ output \subseteq Table
    /\ job' = "idle"
    /\ whole' = TRUE
    /\ UNCHANGED <<vars, txns, output, runs, fileVars, scanVars>>

(* The job dies where it is; nothing cleans up.                            *)
FailRun ==
    /\ job # "idle"
    /\ job' = "idle"
    /\ UNCHANGED <<vars, txns, output, whole, runs, fileVars, scanVars>>

-----------------------------------------------------------------------------
(* The versioner's scan, and what follows it. *)

Empty == [rows |-> 0, stats |-> {}]
ScanOf(table) == [rows |-> Cardinality(table), stats |-> Summary(table)]

Commit(content) ==
    /\ BeginCommit(content)
    /\ unchanged' = IF steady' THEN unchanged \union {taken + 1} ELSE unchanged
    /\ scan' = "none" /\ counted' = 0
    /\ UNCHANGED <<jobVars, files>>

CountRows ==
    /\ phase = "idle" /\ scan = "none" /\ taken < MaxSnapshots
    /\ files # {}
    /\ scan' = "counted"
    /\ counted' = Cardinality(Table)
    /\ steady' = TRUE
    /\ UNCHANGED <<vars, jobVars, files, unchanged>>

ReadStatistics ==
    /\ scan = "counted" /\ files # {}
    /\ UNCHANGED steady
    /\ Commit([rows |-> counted, stats |-> Summary(Table)])

(* Any exception of either query makes the snapshot an empty one: there is *)
(* no file, one that was there at the start of a query is gone, or the     *)
(* reader fails over files that are all there.                             *)
ScanFails ==
    /\ steady' = (scan = "none" \/ steady)
    /\ Commit(Empty)

(* The process dies between the queries.                                   *)
AbandonScan ==
    /\ scan = "counted"
    /\ scan' = "none" /\ counted' = 0
    /\ UNCHANGED <<vars, jobVars, fileVars>>

Versioner ==
    \/ /\ \/ Deactivate \/ Insert \/ OpenManifest \/ WriteManifest
          \/ Clear \/ Restore \/ Interrupt
          \/ scan = "none" /\ \E r \in rows : BeginRollback(r)
       /\ UNCHANGED batchVars
    \/ /\ Forget
       /\ scan' = "none" /\ counted' = 0
       /\ UNCHANGED <<jobVars, fileVars>>

BatchNext ==
    \/ \E s \in Samples : StartRun(s)
    \/ \E f \in files : DeleteFile(f)
    \/ \E d \in Days(output) : \E f \in SUBSET (Partition(d, output) \ Table) : WriteFile(f)
    \/ BeginWrite \/ FinishRun \/ FailRun
    \/ CountRows \/ ReadStatistics \/ ScanFails \/ AbandonScan
    \/ Versioner

BatchSpec == BatchInit /\ [][BatchNext]_allVars

(* diff: the drift between two snapshots.                                  *)
Diff(r, s) == [rows |-> s.content.rows - r.content.rows,
               stats |-> r.content.stats # s.content.stats]

-----------------------------------------------------------------------------
(* Properties. *)

BatchTypeOK ==
    /\ TypeOK
    /\ job \in {"idle", "deleting", "writing"}
    /\ Cardinality({r.txn : r \in output}) = Cardinality(output)
    /\ {} \notin files
    /\ whole \in BOOLEAN
    /\ runs \in 0 .. MaxRuns
    /\ scan \in {"none", "counted"}
    /\ counted \in Nat
    /\ steady \in BOOLEAN
    /\ unchanged \subseteq 1 .. taken

(* What a query sees: rows of one run from its first file on, and once it  *)
(* has finished, one row for each of its transactions and nothing of       *)
(* earlier runs.  The queries that aggregate a user's rows then give the   *)
(* user's own recency, frequency, spending and category count back, and    *)
(* average the rolling spend of all the user's transactions and no others. *)
UserAnswer(u) ==
    [recency |-> Today - Max({t.day : t \in Of(u, txns)}),
     frequency |-> Cardinality(Of(u, txns)),
     monetary |-> Amount(Of(u, txns)),
     rolling |-> {<<r.txn, r.rolling>> : r \in Of(u, RollingTable(txns))}]
TableIsExact ==
    /\ job = "writing" \/ whole => Table \subseteq output
    /\ whole =>
          /\ {<<r.txn, r.user, r.day>> : r \in Table} = {<<t.id, t.user, t.day>> : t \in txns}
          /\ Cardinality(Table) = Cardinality(txns)
          /\ \A u \in Users(txns) : \E v \in UserFeatures(u, Table) :
                /\ \A f \in DOMAIN UserAnswer(u) : v[f] = UserAnswer(u)[f]
                /\ \A c \in {t.category : t \in txns} : v.count >= CategoryCount(u, c, txns)
          /\ \A us \in TopUsers(1, Table) : \A u \in us, v \in Users(txns) :
                Amount(Of(u, txns)) >= Amount(Of(v, txns))

(* A snapshot, restored or not, either says nothing or describes the files *)
(* exactly, as long as they have not changed since its scan began; between *)
(* two that say something there is then no drift; and no snapshot counts   *)
(* rows without statistics or has statistics of no rows.  Only a scan that *)
(* fails, over whatever files, says nothing; and only one that the files   *)
(* change under has a row count and statistics of different states.        *)
SnapshotsDescribeFiles ==
    /\ \A r \in rows : r.id \in unchanged => r.content \in {ScanOf(Table), Empty}
    /\ \A r, s \in {x \in rows : x.id \in unchanged /\ x.content # Empty} :
          Diff(r, s) = [rows |-> 0, stats |-> FALSE]
    /\ \A r \in rows : r.content.rows = 0 <=> r.content.stats = {}
=============================================================================
