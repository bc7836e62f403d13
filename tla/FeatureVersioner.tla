-------------------------- MODULE FeatureVersioner --------------------------
(***************************************************************************)
(* store/feature_versioner.py: commit and rollback over the snapshots      *)
(* table of DuckDB and the JSON manifests beside it, statement by          *)
(* statement.  No transaction spans two statements, so a crash, or a       *)
(* statement that raises, leaves what was done before it, and the next     *)
(* call finds the table as it is.  One call runs at a time: a              *)
(* FeatureVersioner has one connection, and DuckDB locks the file.         *)
(*                                                                         *)
(* The database is a file (Durable), or, with the default db_path of       *)
(* ":memory:", a table that ends with its process while the manifests stay.*)
(***************************************************************************)
EXTENDS Naturals, FiniteSets

CONSTANTS
    Contents,           \* schema hash, row count and statistics of a scan
    Durable,            \* db_path names a file
    NoRow,              \* before the first call and after an interrupted one
    MaxSnapshots,       \* bound: commits
    MaxInterruptions    \* bound: crashes and raising statements

None == 0
Ids  == 1 .. MaxSnapshots
Row  == [id : Ids, content : Contents, parent : Ids \union {None}]
Manifest == [row : Row, current : BOOLEAN]

ASSUME BoundAssumption == MaxSnapshots \in Nat /\ MaxInterruptions \in Nat
ASSUME NoRowAssumption == NoRow \notin Row
ASSUME DurableAssumption == Durable \in BOOLEAN

VARIABLES
    rows,           \* the snapshots table, but for its is_current column
    isCurrent,      \* the ids of the rows with is_current = TRUE
    manifests,      \* the manifest files that are written
    torn,           \* the ids whose manifest file is created but not written
    phase,          \* the statement the running call executes next
    pending,        \* the row the call commits or restores
    taken,          \* how many snapshot ids were generated
    returned,       \* the last call returned: it was not interrupted
    interruptions   \* how many calls were interrupted

vars == <<rows, isCurrent, manifests, torn, phase, pending, taken, returned,
          interruptions>>

Phases == {"idle", "deactivate", "insert", "open", "write", "clear", "restore"}
RowIds == {r.id : r \in rows}

Init ==
    /\ rows = {}
    /\ isCurrent = {}
    /\ manifests = {}
    /\ torn = {}
    /\ phase = "idle"
    /\ pending = NoRow
    /\ taken = 0
    /\ returned = TRUE
    /\ interruptions = 0

(* _current_snapshot_id: some row with is_current = TRUE, or None.         *)
IsCurrentId(i) == IF isCurrent = {} THEN i = None ELSE i \in isCurrent

(* The statements that change the table end like this.                     *)
GoTo(next) == phase' = next /\ UNCHANGED <<pending, taken, returned, interruptions>>

Return == /\ phase' = "idle"
          /\ returned' = TRUE
          /\ UNCHANGED <<pending, taken, interruptions>>

-----------------------------------------------------------------------------
(* Faulty variants of the statements below, none of them part of Next.     *)

DeactivateNothing ==            \* the UPDATE is forgotten
    /\ phase = "deactivate"
    /\ GoTo("insert")
    /\ UNCHANGED <<rows, isCurrent, manifests, torn>>

BeginCommitLate(x) ==           \* reads the current id after the UPDATE
    /\ phase = "idle"
    /\ taken < MaxSnapshots
    /\ taken' = taken + 1
    /\ pending' = [id |-> taken + 1, content |-> x, parent |-> None]
    /\ phase' = "deactivate"
    /\ UNCHANGED <<rows, isCurrent, manifests, torn, returned, interruptions>>

BeginCommitNewest(x) ==         \* takes the newest id for the current one
    /\ phase = "idle"
    /\ taken < MaxSnapshots
    /\ taken' = taken + 1
    /\ pending' = [id |-> taken + 1, content |-> x, parent |-> taken]
    /\ phase' = "deactivate"
    /\ UNCHANGED <<rows, isCurrent, manifests, torn, returned, interruptions>>

BeginCommitFromZero(x) ==       \* ids from 0, the id of no snapshot
    /\ phase = "idle"
    /\ taken < MaxSnapshots
    /\ taken' = taken + 1
    /\ \E p \in Ids \union {None} :
          /\ IsCurrentId(p)
          /\ pending' = [id |-> taken, content |-> x, parent |-> p]
    /\ phase' = "deactivate"
    /\ UNCHANGED <<rows, isCurrent, manifests, torn, returned, interruptions>>

InsertInactive ==               \* is_current has its default, FALSE
    /\ phase = "insert"
    /\ rows' = rows \union {pending}
    /\ GoTo("open")
    /\ UNCHANGED <<isCurrent, manifests, torn>>

ManifestOfScan ==               \* a manifest without the parent
    /\ phase = "write"
    /\ manifests' = manifests \union {[row |-> [pending EXCEPT !.parent = None], current |-> TRUE]}
    /\ torn' = torn \ {pending.id}
    /\ Return
    /\ UNCHANGED <<rows, isCurrent>>

RestoreNothing ==               \* a rollback that only clears
    /\ phase = "restore"
    /\ Return
    /\ UNCHANGED <<rows, isCurrent, manifests, torn>>

-----------------------------------------------------------------------------
(* commit: scan the Parquet files, generate an id and read the current id; *)
(* a scan that raises counts as empty contents.                            *)
BeginCommit(x) ==
    /\ phase = "idle"
    /\ taken < MaxSnapshots
    /\ taken' = taken + 1
    /\ \E p \in Ids \union {None} :
          /\ IsCurrentId(p)
          /\ pending' = [id |-> taken + 1, content |-> x, parent |-> p]
    /\ phase' = "deactivate"
    /\ UNCHANGED <<rows, isCurrent, manifests, torn, returned, interruptions>>

(* UPDATE snapshots SET is_current = FALSE WHERE is_current = TRUE.        *)
Deactivate ==
    /\ phase = "deactivate"
    /\ isCurrent' = {}
    /\ GoTo("insert")
    /\ UNCHANGED <<rows, manifests, torn>>

(* INSERT INTO snapshots ... VALUES (..., TRUE).                           *)
Insert ==
    /\ phase = "insert"
    /\ rows' = rows \union {pending}
    /\ isCurrent' = isCurrent \union {pending.id}
    /\ GoTo("open")
    /\ UNCHANGED <<manifests, torn>>

(* write_text creates the manifest file and then writes it.                *)
OpenManifest ==
    /\ phase = "open"
    /\ torn' = torn \union {pending.id}
    /\ GoTo("write")
    /\ UNCHANGED <<rows, isCurrent, manifests>>

WriteManifest ==
    /\ phase = "write"
    /\ manifests' = manifests \union {[row |-> pending, current |-> TRUE]}
    /\ torn' = torn \ {pending.id}
    /\ Return
    /\ UNCHANGED <<rows, isCurrent>>

(* rollback: the snapshot must exist, or ValueError leaves all as it is.   *)
BeginRollback(r) ==
    /\ phase = "idle"
    /\ r \in rows
    /\ pending' = r
    /\ phase' = "clear"
    /\ UNCHANGED <<rows, isCurrent, manifests, torn, taken, returned,
                   interruptions>>

Clear ==
    /\ phase = "clear"
    /\ isCurrent' = {}
    /\ GoTo("restore")
    /\ UNCHANGED <<rows, manifests, torn>>

Restore ==
    /\ phase = "restore"
    /\ isCurrent' = isCurrent \union {pending.id}
    /\ Return
    /\ UNCHANGED <<rows, manifests, torn>>

(* The process dies or the next statement raises: the call is abandoned.   *)
Interrupt ==
    /\ phase # "idle"
    /\ interruptions < MaxInterruptions
    /\ interruptions' = interruptions + 1
    /\ phase' = "idle"
    /\ pending' = NoRow
    /\ returned' = FALSE
    /\ UNCHANGED <<rows, isCurrent, manifests, torn, taken>>

(* The process of an in-memory database ends, in a call or between two.    *)
Forget ==
    /\ ~Durable
    /\ rows' = {} /\ isCurrent' = {}
    /\ phase' = "idle" /\ pending' = NoRow /\ returned' = FALSE
    /\ UNCHANGED <<manifests, torn, taken, interruptions>>

Next ==
    \/ \E x \in Contents : BeginCommit(x)
    \/ \E r \in rows : BeginRollback(r)
    \/ Deactivate \/ Insert \/ OpenManifest \/ WriteManifest
    \/ Clear \/ Restore \/ Interrupt \/ Forget

Spec == Init /\ [][Next]_vars

-----------------------------------------------------------------------------
(* Properties. *)

TypeOK ==
    /\ rows \subseteq Row
    /\ isCurrent \subseteq Ids
    /\ manifests \subseteq Manifest
    /\ torn \subseteq Ids
    /\ phase \in Phases
    /\ pending \in Row \union {NoRow}
    /\ taken \in 0 .. MaxSnapshots
    /\ returned \in BOOLEAN
    /\ interruptions \in Nat

(* Wherever commits and rollbacks are interrupted, two snapshots are never *)
(* current, and a current one is in the table.                             *)
AtMostOneCurrent ==
    /\ isCurrent \subseteq RowIds
    /\ \A i, j \in isCurrent : i = j

(* After a commit or a rollback that returned, exactly the snapshot it     *)
(* committed or restored is current, whatever interrupted calls before it  *)
(* left behind.                                                            *)
ReturnedIsCurrent ==
    phase = "idle" /\ returned /\ rows # {} => isCurrent = {pending.id}

(* The lineage is a forest of older snapshots in the table.                *)
LineageIsOlder ==
    \A r \in rows :
       r.parent # None => r.parent < r.id /\ r.parent \in RowIds

(* A call interrupted between its two statements loses the current         *)
(* snapshot, and the next commit has no parent: that, and the first        *)
(* commit, are the only ways to start a lineage.                           *)
RootsComeFromInterruptions ==
    Cardinality({r \in rows : r.parent = None}) <= 1 + interruptions

(* The rows that have a manifest.                                          *)
Written == {m.row : m \in manifests}
ManifestIds == {r.id : r \in Written}

(* However calls are interrupted and processes end, a manifest and a row   *)
(* of one id never disagree on what the snapshot is and descends from, no  *)
(* file that was written is overwritten or cut short again, and each row   *)
(* without one was left by a commit of its own that was interrupted.  The  *)
(* is_current flag is no part of it: every manifest keeps it TRUE.         *)
ManifestsMatchRows ==
    /\ \A r \in rows, w \in Written : r.id = w.id => r = w
    /\ torn \intersect ManifestIds = {}
    /\ phase = "idle" => Cardinality(rows \ Written) <= interruptions

(* The docstring of commit: the manifest is written, then the snapshot is  *)
(* marked current; a current snapshot would always have its manifest.      *)
CurrentHasManifest ==
    phase = "idle" => isCurrent \subseteq ManifestIds

(* The current snapshot as callers may think of it: a commit replaces it   *)
(* when it inserts its row, a rollback when it clears the flags.           *)
Current ==
    CASE phase = "insert"  -> pending.parent
      [] phase = "restore" -> pending.id
      [] OTHER -> IF isCurrent = {} THEN None ELSE CHOOSE i \in isCurrent : TRUE

History == INSTANCE SnapshotHistory WITH history <- rows, current <- Current

(* Commit and rollback implement the atomic operations of SnapshotHistory. *)
ImplementsHistory == History!Spec

-----------------------------------------------------------------------------
(* The inductive invariant, from which FeatureVersioner_proofs derives     *)
(* these properties.                                                       *)

(* Ids are generated once; rows and manifests have ids generated so far.   *)
FreshIds ==
    /\ \A r \in rows \union Written : r.id <= taken
    /\ \A i \in torn : i <= taken
    /\ \A r \in rows, s \in rows \union Written : r.id = s.id => r = s

(* What the locals of the running call say about the table.                *)
Running ==
    /\ phase \in {"deactivate", "insert"} =>
          /\ pending \in Row
          /\ pending.id = taken
          /\ pending.id \notin RowIds \union ManifestIds \union torn
          /\ pending.parent # None => pending.parent \in RowIds
    /\ phase = "deactivate" => IsCurrentId(pending.parent)
    /\ phase \in {"insert", "restore"} => isCurrent = {}
    /\ phase \in {"open", "write"} => /\ pending \in rows
                                      /\ isCurrent = {pending.id}
                                      /\ pending.id \notin ManifestIds
    /\ phase \in {"clear", "restore"} => pending \in rows

IInv ==
    /\ TypeOK
    /\ FreshIds
    /\ AtMostOneCurrent
    /\ LineageIsOlder
    /\ torn \intersect ManifestIds = {}
    /\ Running
    /\ ReturnedIsCurrent
=============================================================================
