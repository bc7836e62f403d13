----------------------- MODULE BatchPipeline_proofs -----------------------
(***************************************************************************)
(* Proofs about BatchPipeline, for any samples and any numbers of runs,    *)
(* commits and interruptions: the files of a finished run hold exactly the *)
(* rows it computed, a snapshot that says something describes the files    *)
(* as long as they have not changed since its scan began, and the          *)
(* versioner of this composition is the one of FeatureVersioner.           *)
(***************************************************************************)
EXTENDS BatchPipeline, BatchFeatures_proofs, FeatureVersioner_proofs

(* Queries and scans see finite tables.                                    *)
FiniteTables == IsFiniteSet(output) /\ IsFiniteSet(Table)

(* The latest run's table is one it may compute.                           *)
RunComputes ==
    /\ IsSample(txns)
    /\ output \in WideTables(txns) /\ output \in Readable
    /\ runs \in 0 .. MaxRuns

(* A run that writes found no files, and writes rows of its table.         *)
FilesOfRun ==
    /\ job \in {"idle", "deleting", "writing"} /\ whole \in BOOLEAN
    /\ job # "idle" => ~whole
    /\ {} \notin files
    /\ Table \in Readable
    /\ job = "writing" => Table \subseteq output
    /\ whole => Table = output

(* What is noted of scans is noted of ids in use.                          *)
Noted == steady \in BOOLEAN /\ unchanged \subseteq 1 .. taken

(* What a scan counts are the rows of files there may be, and some.        *)
Counts ==
    /\ scan \in {"none", "counted"}
    /\ counted \in Nat
    /\ scan = "counted" => counted # 0 /\ \E table \in Readable : counted = Cardinality(table)

(* Ids are new: what is noted for the next one is not that of a row.       *)
RowsAreOld ==
    /\ taken \in 0 .. MaxSnapshots
    /\ \A r \in rows : r.id \in 1 .. taken
    /\ phase \in {"deactivate", "insert"} => pending.id \in 1 .. taken

Describes(r) ==
    /\ r.id \in unchanged => r.content \in {ScanOf(Table), Empty}
    /\ r.content.rows = 0 <=> r.content.stats = {}
Described ==
    /\ \A r \in rows : Describes(r)
    /\ phase \in {"deactivate", "insert"} => Describes(pending)
    /\ scan = "counted" /\ steady => counted = Cardinality(Table)

BInv ==
    /\ FiniteTables
    /\ RunComputes
    /\ FilesOfRun
    /\ Noted
    /\ Counts
    /\ RowsAreOld
    /\ Described

-----------------------------------------------------------------------------
(* Where there are files there are rows.                                   *)
LEMMA FilesHaveRows ==
    ASSUME FilesOfRun, files # {}
    PROVE  Table # {}
<1>1. PICK f \in files : f # {}
  BY DEF FilesOfRun
<1>2. PICK x \in f : TRUE
  BY <1>1
<1>3. x \in Table
  BY <1>2 DEF Table
<1> QED
  BY <1>3

LEMMA SummaryOfSome == \A table : Summary(table) = {} <=> table = {}
BY Zenon DEF Summary

(* What is left of files there may be are files there may be.              *)
LEMMA PartsAreReadable ==
    ASSUME NEW table \in Readable, NEW part \in SUBSET table
    PROVE  part \in Readable
BY DEF Readable

LEMMA EmptyIsReadable == {} \in Readable
BY DEF Readable

LEMMA EmptyIsContent == Empty \in Contents
<1>1. Cardinality({}) = 0 /\ Summary({}) = {}
  BY FS_EmptySet, SummaryOfSome
<1> QED
  BY <1>1, EmptyIsReadable, ContentsAssumption DEF Empty

-----------------------------------------------------------------------------
LEMMA InitBInv == BatchInit => BInv
<1> SUFFICES ASSUME BatchInit PROVE BInv
  OBVIOUS
<1> USE DEF BatchInit, Init
<1>1. FiniteTables /\ FilesOfRun /\ Noted /\ Counts /\ RowsAreOld /\ Described
  <2>1. Table = {}
    BY DEF Table
  <2>2. FiniteTables /\ FilesOfRun /\ Noted /\ Counts
    BY <2>1, FS_EmptySet, EmptyIsReadable DEF FiniteTables, FilesOfRun, Noted, Counts
  <2> QED
    BY <2>2, BoundAssumption DEF RowsAreOld, Described
<1>2. IsSample({})
  BY FS_EmptySet DEF IsSample
<1>3. {} \in CategoryTables({})
  BY DEF CategoryTables, Users
<1>4. WideTable({}, {}) = {}
  BY <1>2, <1>3, OneRowPerTransaction
<1>5. RunComputes
  BY <1>2, <1>3, <1>4, RunsAssumption DEF RunComputes, WideTables, Readable
<1> QED
  BY <1>1, <1>5 DEF BInv

(* A run starts with a sample and computes its table. *)
LEMMA StartStep ==
    ASSUME BInv, NEW s \in Samples, StartRun(s)
    PROVE  BInv'
<1> USE DEF BInv
<1>1. UNCHANGED <<vars, fileVars, scanVars, Table>>
  BY DEF StartRun, fileVars, Table
<1>2. IsSample(s) /\ txns' = s /\ output' \in WideTables(s)
  BY SamplesAssumption DEF StartRun
<1>3. IsFiniteSet(output')
  BY <1>2, FiniteWideTable DEF IsSample, WideTables
<1>4. output' \in Readable
  BY <1>2 DEF Readable
<1>5. runs' \in 0 .. MaxRuns
  BY RunsAssumption DEF StartRun, RunComputes
<1>6. FiniteTables' /\ RunComputes'
  BY <1>1, <1>2, <1>3, <1>4, <1>5 DEF FiniteTables, RunComputes
<1>7. FilesOfRun'
  BY <1>1 DEF StartRun, FilesOfRun, fileVars
<1> QED
  BY <1>1, <1>6, <1>7 DEF Noted, Counts, RowsAreOld, Described, Describes, vars, fileVars, scanVars

(* The pipeline between two changes of the files.  A run has finished when *)
(* all its rows are there. *)
LEMMA JobStep ==
    ASSUME BInv, BeginWrite \/ FinishRun \/ FailRun
    PROVE  BInv'
<1> USE DEF BInv
<1>1. UNCHANGED <<vars, txns, output, runs, fileVars, scanVars, Table>>
  BY DEF BeginWrite, FinishRun, FailRun, fileVars, Table
<1>2. FilesOfRun'
  <2>1. CASE BeginWrite
    BY <1>1, <2>1 DEF BeginWrite, FilesOfRun, Outdated, Table, fileVars
  <2>2. CASE FinishRun
    BY <1>1, <2>2 DEF FinishRun, FilesOfRun, fileVars
  <2>3. CASE FailRun
    BY <1>1, <2>3 DEF FailRun, FilesOfRun, fileVars
  <2> QED
    BY <2>1, <2>2, <2>3
<1> QED
  BY <1>1, <1>2 DEF FiniteTables, RunComputes, Noted, Counts, RowsAreOld, Described, Describes,
     vars, fileVars, scanVars

(* Every change of the files makes all scans old. *)
LEMMA FilesStep ==
    ASSUME BInv,
           \/ \E f \in files : DeleteFile(f)
           \/ \E d \in Days(output) : \E f \in SUBSET (Partition(d, output) \ Table) : WriteFile(f)
    PROVE  BInv'
<1> USE DEF BInv
<1>1. ~steady' /\ steady' \in BOOLEAN /\ unchanged' = {} /\ UNCHANGED <<vars, jobVars, scanVars>>
  BY DEF DeleteFile, WriteFile, ChangeFiles
<1>2. FilesOfRun' /\ IsFiniteSet(Table')
  <2>1. ASSUME NEW f, DeleteFile(f) PROVE FilesOfRun' /\ IsFiniteSet(Table')
    <3>1. /\ files' = files \ {f} /\ job = "deleting" /\ job' = job /\ whole' = whole
          /\ Table' \in SUBSET Table
      BY <2>1 DEF DeleteFile, ChangeFiles, jobVars, Table
    <3>2. IsFiniteSet(Table') /\ Table' \in Readable
      BY <3>1, FS_Subset, PartsAreReadable DEF FiniteTables, FilesOfRun
    <3> QED
      BY <3>1, <3>2 DEF FilesOfRun
  <2>2. ASSUME NEW d, NEW f \in SUBSET (Partition(d, output) \ Table), WriteFile(f)
        PROVE  FilesOfRun' /\ IsFiniteSet(Table')
    <3>1. /\ files' = files \union {f} /\ f # {} /\ f \in SUBSET output
          /\ job = "writing" /\ job' = job /\ whole' = whole /\ output' = output
      BY <2>2 DEF WriteFile, ChangeFiles, jobVars, Partition
    <3>2. Table' = Table \union f
      BY <3>1 DEF Table
    <3>3. IsFiniteSet(Table')
      BY <3>1, <3>2, FS_Subset, FS_Union DEF FiniteTables
    <3>4. Table' \in SUBSET output
      BY <3>1, <3>2 DEF FilesOfRun
    <3>5. Table' \in Readable
      BY <3>4, PartsAreReadable DEF RunComputes
    <3> QED
      BY <3>1, <3>3, <3>4, <3>5 DEF FilesOfRun
  <2> QED
    BY <2>1, <2>2
<1>3. FiniteTables' /\ RunComputes' /\ Noted' /\ Counts' /\ RowsAreOld'
  BY <1>1, <1>2 DEF FiniteTables, RunComputes, Noted, Counts, RowsAreOld, vars, jobVars, scanVars
<1>4. Described'
  BY <1>1 DEF Described, Describes, vars, scanVars
<1> QED
  BY <1>2, <1>3, <1>4

(* The first query of a scan, or a scan that is given up. *)
LEMMA CountStep ==
    ASSUME BInv, CountRows \/ AbandonScan
    PROVE  BInv'
<1> USE DEF BInv
<1>1. UNCHANGED <<vars, jobVars, files, unchanged, Table>>
  BY DEF CountRows, AbandonScan, fileVars, Table
<1>2. \/ scan' = "counted" /\ counted' = Cardinality(Table) /\ steady' = TRUE
      \/ scan' = "none" /\ counted' = 0 /\ steady' = steady
  BY DEF CountRows, AbandonScan, fileVars
<1>3. Cardinality(Table) \in Nat
  BY FS_CardinalityType DEF FiniteTables
<1>4. scan' = "counted" => Cardinality(Table) # 0
  <2> SUFFICES ASSUME scan' = "counted" PROVE Cardinality(Table) # 0
    OBVIOUS
  <2>1. files # {}
    BY DEF CountRows, AbandonScan
  <2>2. Table # {}
    BY <2>1, FilesHaveRows
  <2> QED
    BY <2>2, FS_EmptySet DEF FiniteTables
<1>5. Counts'
  BY <1>1, <1>2, <1>3, <1>4 DEF Counts, FilesOfRun
<1>6. Noted'
  <2>1. steady' \in BOOLEAN /\ UNCHANGED <<unchanged, taken>>
    BY <1>1, <1>2 DEF Noted, vars
  <2> QED
    BY <2>1 DEF Noted
<1>7. Described'
  BY <1>1, <1>2 DEF Described, Describes, vars
<1> QED
  BY <1>1, <1>5, <1>6, <1>7 DEF FiniteTables, RunComputes, FilesOfRun, RowsAreOld, vars, jobVars

(* Its contents are empty or, unless the files changed meanwhile, those of *)
(* the files, and always some there may be.                                *)
LEMMA ScanIsCommitted ==
    ASSUME BInv, ReadStatistics \/ ScanFails
    PROVE  \E content \in Contents :
              /\ Commit(content)
              /\ steady' \in BOOLEAN
              /\ steady' => content \in {ScanOf(Table), Empty}
              /\ content.rows = 0 <=> content.stats = {}
<1> USE DEF BInv
<1>1. CASE ReadStatistics
  <2> DEFINE content == [rows |-> counted, stats |-> Summary(Table)]
  <2>1. content \in Contents
    BY <1>1, ContentsAssumption DEF ReadStatistics, Counts, FilesOfRun
  <2>2. Commit(content) /\ steady' = steady
    BY <1>1 DEF ReadStatistics
  <2>3. steady => content = ScanOf(Table)
    BY <1>1 DEF ReadStatistics, Described, ScanOf
  <2>4. content.rows # 0 /\ content.stats # {}
    <3>1. Table # {}
      BY <1>1, FilesHaveRows DEF ReadStatistics
    <3> QED
      BY <1>1, <3>1, SummaryOfSome DEF ReadStatistics, Counts
  <2> HIDE DEF content
  <2> QED
    BY <2>1, <2>2, <2>3, <2>4 DEF Noted
<1>2. CASE ScanFails
  <2>1. Commit(Empty)
    BY <1>2 DEF ScanFails
  <2>2. steady' \in BOOLEAN
    BY <1>2, Zenon DEF ScanFails
  <2>3. Empty.rows = 0 /\ Empty.stats = {}
    BY DEF Empty
  <2> QED
    BY <2>1, <2>2, <2>3, EmptyIsContent
<1> QED
  BY <1>1, <1>2

LEMMA CommitStep ==
    ASSUME BInv, ReadStatistics \/ ScanFails
    PROVE  BInv'
<1> USE DEF BInv
<1>1. PICK content \in Contents :
         /\ Commit(content)
         /\ steady' \in BOOLEAN
         /\ steady' => content \in {ScanOf(Table), Empty}
         /\ content.rows = 0 <=> content.stats = {}
  BY ScanIsCommitted
<1>2. /\ BeginCommit(content)
      /\ unchanged' = IF steady' THEN unchanged \union {taken + 1} ELSE unchanged
      /\ scan' = "none" /\ counted' = 0 /\ UNCHANGED <<jobVars, files, Table>>
  BY <1>1 DEF Commit, Table
<1>3. /\ phase' = "deactivate" /\ taken' = taken + 1 /\ rows' = rows
      /\ pending'.id = taken + 1 /\ pending'.content = content
      /\ taken < MaxSnapshots
  BY <1>2 DEF BeginCommit
<1>4. /\ taken \in Nat /\ \A i \in 1 .. taken : i # taken + 1
      /\ 1 .. taken \subseteq 1 .. taken + 1 /\ taken + 1 \in 1 .. taken + 1
      /\ taken + 1 \in 0 .. MaxSnapshots
  BY <1>3, BoundAssumption DEF RowsAreOld
<1>5. FiniteTables' /\ RunComputes' /\ FilesOfRun'
  BY <1>2 DEF FiniteTables, RunComputes, FilesOfRun, jobVars
<1>6. Noted' /\ Counts' /\ RowsAreOld'
  BY <1>1, <1>2, <1>3, <1>4 DEF Noted, Counts, RowsAreOld
<1>7. Described'
  <2>1. \A i \in 1 .. taken : i \in unchanged' <=> i \in unchanged
    BY <1>2, <1>4
  <2>2. ScanOf(Table)' = ScanOf(Table)
    BY <1>2 DEF ScanOf
  <2>3. \A r \in rows : Describes(r)'
    BY <2>1, <2>2 DEF Described, Describes, RowsAreOld
  <2>4. taken + 1 \in unchanged' => steady'
    BY <1>2, <1>4 DEF Noted
  <2>5. Describes(pending)'
    BY <1>1, <1>3, <2>2, <2>4 DEF Describes
  <2> QED
    BY <1>2, <1>3, <2>3, <2>5 DEF Described
<1> QED
  BY <1>5, <1>6, <1>7

LEMMA VersionerStep ==
    ASSUME BInv, Versioner
    PROVE  BInv'
<1> USE DEF BInv
<1>1. UNCHANGED <<jobVars, fileVars, taken, Table>>
  BY DEF Versioner, Deactivate, Insert, OpenManifest, WriteManifest, Clear, Restore, Interrupt,
     Forget, BeginRollback, GoTo, Return, batchVars, fileVars, Table
<1>2. UNCHANGED scanVars \/ (scan' = "none" /\ counted' = 0)
  <2>1. UNCHANGED batchVars \/ (scan' = "none" /\ counted' = 0)
    BY Zenon DEF Versioner
  <2> QED
    BY <2>1 DEF batchVars
<1>3. FiniteTables' /\ RunComputes' /\ FilesOfRun' /\ Noted' /\ Counts'
  BY <1>1, <1>2 DEF FiniteTables, RunComputes, FilesOfRun, Noted, Counts, jobVars, fileVars, scanVars
<1>4. \/ rows' \subseteq rows
      \/ phase = "insert" /\ rows' = rows \union {pending}
  BY DEF Versioner, Deactivate, Insert, OpenManifest, WriteManifest, Clear, Restore, Interrupt,
     Forget, BeginRollback
<1>5. phase' \in {"deactivate", "insert"} => phase \in {"deactivate", "insert"} /\ pending' = pending
  BY DEF Versioner, Deactivate, Insert, OpenManifest, WriteManifest, Clear, Restore, Interrupt,
     Forget, BeginRollback, GoTo, Return
<1>6. RowsAreOld'
  BY <1>1, <1>4, <1>5 DEF RowsAreOld
<1>7. Described'
  <2>1. ASSUME NEW r, Describes(r) PROVE Describes(r)'
    BY <1>1, <2>1 DEF Describes, fileVars
  <2>2. \A r \in rows' : Describes(r)'
    BY <1>4, <2>1 DEF Described
  <2>3. phase' \in {"deactivate", "insert"} => Describes(pending)'
    <3> SUFFICES ASSUME phase' \in {"deactivate", "insert"} PROVE Describes(pending)'
      OBVIOUS
    <3>1. Describes(pending) /\ pending' = pending
      BY <1>5 DEF Described
    <3> QED
      BY <1>1, <3>1 DEF Describes, fileVars
  <2>4. (scan = "counted" /\ steady => counted = Cardinality(Table))'
    BY <1>1, <1>2 DEF Described, fileVars, scanVars
  <2> QED
    BY <2>2, <2>3, <2>4 DEF Described
<1> QED
  BY <1>3, <1>6, <1>7

LEMMA NextBInv == BInv /\ [BatchNext]_allVars => BInv'
<1> SUFFICES ASSUME BInv, [BatchNext]_allVars PROVE BInv'
  OBVIOUS
<1>1. CASE UNCHANGED allVars
  BY <1>1 DEF allVars, vars, batchVars, jobVars, fileVars, scanVars, Table, BInv, FiniteTables,
     RunComputes, FilesOfRun, Noted, Counts, RowsAreOld, Described, Describes
<1>2. CASE BatchNext
  BY <1>2, StartStep, JobStep, FilesStep, CountStep, CommitStep, VersionerStep DEF BatchNext
<1> QED
  BY <1>1, <1>2

(* The files hold rows of one run's table as far as it has come, and every *)
(* snapshot is empty or describes what its scan read of them.              *)
THEOREM BatchInvariance == BatchSpec => []BInv
BY InitBInv, NextBInv, PTL DEF BatchSpec

(* A snapshot that says something describes the files exactly until they   *)
(* change, between two such snapshots diff finds no drift, and row counts  *)
(* and statistics come together.  What it does not say, because the code   *)
(* does not keep it: that a scan of unchanged files succeeds, or that one  *)
(* of changing files reads one state of them.                              *)
THEOREM SnapshotsAreExact == BatchSpec => []SnapshotsDescribeFiles
<1>1. ASSUME BInv
      PROVE  SnapshotsDescribeFiles
  <2> USE <1>1 DEF BInv
  <2>1. /\ \A r \in rows : r.id \in unchanged => r.content \in {ScanOf(Table), Empty}
        /\ \A r \in rows : r.content.rows = 0 <=> r.content.stats = {}
    BY DEF Described, Describes
  <2>2. ScanOf(Table).rows - ScanOf(Table).rows = 0
    <3>1. Cardinality(Table) \in Nat
      BY FS_CardinalityType DEF FiniteTables
    <3> QED
      BY <3>1 DEF ScanOf
  <2>3. \A r, s \in {x \in rows : x.id \in unchanged /\ x.content # Empty} :
           Diff(r, s) = [rows |-> 0, stats |-> FALSE]
    <3> SUFFICES ASSUME NEW r \in rows, NEW s \in rows,
                        r.id \in unchanged, r.content # Empty,
                        s.id \in unchanged, s.content # Empty
                 PROVE  Diff(r, s) = [rows |-> 0, stats |-> FALSE]
      OBVIOUS
    <3>1. r.content = ScanOf(Table) /\ s.content = ScanOf(Table)
      BY <2>1
    <3>2. s.content.rows - r.content.rows = 0
      BY <2>2, <3>1
    <3>3. (r.content.stats # s.content.stats) = FALSE
      BY <3>1
    <3> QED
      BY <3>2, <3>3, Zenon DEF Diff
  <2> QED
    BY <2>1, <2>3 DEF SnapshotsDescribeFiles
<1> QED
  BY <1>1, BatchInvariance, PTL

-----------------------------------------------------------------------------
(* What a query sees is exact: rows of one run while it writes, and after  *)
(* it one row for each transaction, from which a user's rows give that     *)
(* user's own recency, frequency, spending, category count and rolling     *)
(* averages back, and the top user is the largest spender.                 *)
THEOREM TablesAreExact == BatchSpec => []TableIsExact
<1>1. ASSUME BInv
      PROVE  TableIsExact
  <2> USE <1>1 DEF BInv
  <2>1. job = "writing" \/ whole => Table \subseteq output
    BY DEF FilesOfRun
  <2>2. ASSUME whole
        PROVE  /\ {<<r.txn, r.user, r.day>> : r \in Table}
                      = {<<t.id, t.user, t.day>> : t \in txns}
               /\ Cardinality(Table) = Cardinality(txns)
               /\ \A u \in Users(txns) : \E v \in UserFeatures(u, Table) :
                     /\ \A f \in DOMAIN UserAnswer(u) : v[f] = UserAnswer(u)[f]
                     /\ \A c \in {t.category : t \in txns} : v.count >= CategoryCount(u, c, txns)
               /\ \A us \in TopUsers(1, Table) : \A u \in us, v \in Users(txns) :
                     Amount(Of(u, txns)) >= Amount(Of(v, txns))
    <3>1. PICK categories \in CategoryTables(txns) : Table = WideTable(txns, categories)
      BY <2>2 DEF FilesOfRun, RunComputes, WideTables
    <3>2. IsSample(txns)
      BY DEF RunComputes
    <3>3. /\ {<<r.txn, r.user, r.day>> : r \in Table} = {<<t.id, t.user, t.day>> : t \in txns}
          /\ Cardinality(Table) = Cardinality(txns)
      BY <3>1, <3>2, RowsAndTransactions
    <3>4. ASSUME NEW u \in Users(txns)
          PROVE  \E v \in UserFeatures(u, Table) :
                    /\ \A f \in DOMAIN UserAnswer(u) : v[f] = UserAnswer(u)[f]
                    /\ \A c \in {t.category : t \in txns} : v.count >= CategoryCount(u, c, txns)
      <4>1. PICK v \in UserFeatures(u, Table) :
               /\ v.recency = Today - Max({t.day : t \in Of(u, txns)})
               /\ v.frequency = Cardinality(Of(u, txns))
               /\ v.monetary = Amount(Of(u, txns))
               /\ v.rolling = {<<x.id, RollingOf(x, txns)>> : x \in Of(u, txns)}
               /\ \A c : v.count >= CategoryCount(u, c, txns)
        BY <3>1, <3>2, UserFeaturesAreExact
      <4>2. {<<r.txn, r.rolling>> : r \in Of(u, RollingTable(txns))}
               = {<<x.id, RollingOf(x, txns)>> : x \in Of(u, txns)}
        <5> DEFINE L(x) == [user |-> x.user, txn |-> x.id, day |-> x.day,
                            rolling |-> RollingOf(x, txns)]
        <5>1. RollingTable(txns) = {L(x) : x \in txns}
          BY DEF RollingTable, RollingOf
        <5>2. \A x : L(x).user = x.user /\ L(x).txn = x.id /\ L(x).rolling = RollingOf(x, txns)
          OBVIOUS
        <5> HIDE DEF L
        <5>3. Of(u, RollingTable(txns)) = {L(x) : x \in Of(u, txns)}
          BY <5>1, <5>2 DEF Of
        <5> QED
          BY <5>2, <5>3
      <4>3. \A f \in DOMAIN UserAnswer(u) : v[f] = UserAnswer(u)[f]
        <5>1. DOMAIN UserAnswer(u) = {"recency", "frequency", "monetary", "rolling"}
          BY DEF UserAnswer
        <5>2. /\ UserAnswer(u).recency = Today - Max({t.day : t \in Of(u, txns)})
              /\ UserAnswer(u).frequency = Cardinality(Of(u, txns))
              /\ UserAnswer(u).monetary = Amount(Of(u, txns))
              /\ UserAnswer(u).rolling = {<<x.id, RollingOf(x, txns)>> : x \in Of(u, txns)}
          BY <4>2 DEF UserAnswer
        <5> QED
          BY <4>1, <5>1, <5>2
      <4> QED
        BY <4>1, <4>3
    <3>5. \A us \in TopUsers(1, Table) : \A u \in us, v \in Users(txns) :
             Amount(Of(u, txns)) >= Amount(Of(v, txns))
      BY <3>1, <3>2, TopUserSpendsMost
    <3> QED
      BY <3>3, <3>4, <3>5
  <2> QED
    BY <2>1, <2>2 DEF TableIsExact
<1> QED
  BY <1>1, BatchInvariance, PTL

-----------------------------------------------------------------------------
(* The pipeline and the scans leave the versioner's protocol alone: the    *)
(* composition takes steps of FeatureVersioner only, and every property of *)
(* that specification is one of the composition.                           *)
THEOREM ImplementsVersioner == BatchSpec => Spec
<1>1. BatchInit => Init
  BY DEF BatchInit
<1>2. ASSUME BInv, [BatchNext]_allVars
      PROVE  [Next]_vars
  <2>1. CASE UNCHANGED allVars
    BY <2>1 DEF allVars
  <2>2. CASE \E s \in Samples : StartRun(s)
    BY <2>2 DEF StartRun
  <2>3. CASE \/ \E f \in files : DeleteFile(f)
             \/ \E d \in Days(output) :
                   \E f \in SUBSET (Partition(d, output) \ Table) : WriteFile(f)
    BY <2>3 DEF DeleteFile, WriteFile, ChangeFiles
  <2>4. CASE BeginWrite \/ FinishRun \/ FailRun
    BY <2>4 DEF BeginWrite, FinishRun, FailRun
  <2>5. CASE CountRows \/ AbandonScan
    BY <2>5 DEF CountRows, AbandonScan
  <2>6. CASE ReadStatistics \/ ScanFails
    BY <1>2, <2>6, ScanIsCommitted DEF Commit, Next
  <2>7. CASE Versioner
    BY <2>7 DEF Versioner, Next
  <2> QED
    BY <1>2, <2>1, <2>2, <2>3, <2>4, <2>5, <2>6, <2>7 DEF BatchNext
<1> QED
  BY <1>1, <1>2, BatchInvariance, PTL DEF BatchSpec, Spec

(* What FeatureVersioner_proofs shows of the versioner is therefore shown  *)
(* of it beside a pipeline that rewrites the files it scans: interruptions *)
(* at any statement, wherever the runs are, leave at most one current      *)
(* snapshot, the one of the last call that returned, and an older lineage, *)
(* and the calls look atomic.                                              *)
THEOREM CompositionKeepsSnapshots ==
    BatchSpec =>
       /\ [](AtMostOneCurrent /\ ReturnedIsCurrent /\ LineageIsOlder)
       /\ [](RootsComeFromInterruptions /\ ManifestsMatchRows)
       /\ ImplementsHistory
BY ImplementsVersioner, OneCurrentAtMost, ReturnedCallsTakeEffect, LineageIsAForest,
   InterruptionsStartLineages, ManifestsAgree, Refinement, PTL

(* The state of all three has the types stated, and no two rows of a run's *)
(* table are of the same transaction.                                      *)
THEOREM BatchTypeCorrectness == BatchSpec => []BatchTypeOK
<1>1. ASSUME BInv, TypeOK
      PROVE  BatchTypeOK
  <2> USE <1>1 DEF BInv
  <2>1. Cardinality({r.txn : r \in output}) = Cardinality(output)
    <3>1. PICK categories \in CategoryTables(txns) : output = WideTable(txns, categories)
      BY DEF RunComputes, WideTables
    <3> QED
      BY <3>1, RowsAndTransactions DEF RunComputes
  <2> QED
    BY <2>1 DEF BatchTypeOK, RunComputes, FilesOfRun, Noted, Counts
<1> QED
  BY <1>1, BatchInvariance, ImplementsVersioner, TypeCorrectness, PTL
=============================================================================
