---------------------- MODULE FeatureVersioner_proofs ----------------------
(***************************************************************************)
(* Proofs about the versioner, for any number of snapshots, any contents   *)
(* and any number of interruptions.                                        *)
(***************************************************************************)
EXTENDS FeatureVersioner, FiniteSetTheorems, TLAPS

LEMMA InitIInv == Init => IInv
BY BoundAssumption, NoRowAssumption
   DEF Init, IInv, TypeOK, FreshIds, AtMostOneCurrent, LineageIsOlder, Manifest,
       Written, ManifestIds, Running, ReturnedIsCurrent, RowIds, Phases, Ids

LEMMA WrittenType ==
    ASSUME TypeOK
    PROVE  Written \subseteq Row /\ ManifestIds \subseteq Ids /\ RowIds \subseteq Ids
BY DEF TypeOK, Written, ManifestIds, RowIds, Manifest, Row

(* All ids in use were generated.                                          *)
LEMMA UsedIds ==
    ASSUME TypeOK, FreshIds
    PROVE  \A i \in RowIds \union ManifestIds \union torn : i <= taken /\ i \in Nat
<1>1. \A i \in RowIds \union ManifestIds \union torn : i \in Ids
  BY WrittenType DEF TypeOK
<1>2. \A i \in RowIds \union ManifestIds : i <= taken
  BY DEF RowIds, ManifestIds, FreshIds
<1>3. \A i \in torn : i <= taken
  BY DEF FreshIds
<1> QED
  BY <1>1, <1>2, <1>3, BoundAssumption DEF Ids

(* A manifest is added to those of its row.                                *)
LEMMA WrittenGrows ==
    ASSUME WriteManifest
    PROVE  Written' = Written \union {pending} /\ ManifestIds' = ManifestIds \union {pending.id}
<1>1. manifests' = manifests \union {[row |-> pending, current |-> TRUE]}
  BY DEF WriteManifest
<1> DEFINE new == [row |-> pending, current |-> TRUE]
<1>2. Written' = Written \union {pending}
  <2>1. new.row = pending
    OBVIOUS
  <2> HIDE DEF new
  <2>2. manifests' = manifests \union {new}
    BY <1>1 DEF new
  <2>3. {m.row : m \in manifests'} = {m.row : m \in manifests} \union {pending}
    BY <2>1, <2>2
  <2> QED
    BY <2>3 DEF Written
<1>3. ManifestIds' = ManifestIds \union {pending.id}
  BY <1>2 DEF ManifestIds
<1> QED
  BY <1>2, <1>3

(* A commit picks an id above those of all rows, and the current one as    *)
(* its parent.                                                             *)
LEMMA BeginCommitStep ==
    ASSUME IInv, NEW x \in Contents, BeginCommit(x)
    PROVE  IInv'
<1> USE BoundAssumption DEF IInv, BeginCommit
<1>1. TypeOK'
  BY DEF TypeOK, Phases, Row, Ids, None
<1>0. \A i \in RowIds \union ManifestIds \union torn : i <= taken /\ i \in Nat
  BY UsedIds
<1>7. UNCHANGED <<rows, manifests, torn>> /\ Written' = Written
  BY DEF Written
<1>2. FreshIds'
  BY <1>7, WrittenType DEF FreshIds, TypeOK, Row, Ids
<1>3. AtMostOneCurrent' /\ LineageIsOlder' /\ (torn \intersect ManifestIds = {})'
  BY <1>7 DEF AtMostOneCurrent, LineageIsOlder, ManifestIds, RowIds
<1>4. Running'
  <2>1. pending' \in Row /\ pending'.id = taken' /\ phase' = "deactivate"
    BY DEF TypeOK, Row, Ids, None
  <2>2. pending'.id \notin (RowIds \union ManifestIds \union torn)'
    BY <1>0, <1>7, <2>1 DEF RowIds, ManifestIds, TypeOK
  <2>3. /\ IsCurrentId(pending.parent)'
        /\ pending'.parent # None => pending'.parent \in RowIds'
    BY DEF IsCurrentId, AtMostOneCurrent, RowIds
  <2> QED
    BY <2>1, <2>2, <2>3 DEF Running
<1>5. ReturnedIsCurrent'
  BY DEF ReturnedIsCurrent
<1>6. QED
  BY <1>1, <1>2, <1>3, <1>4, <1>5 DEF IInv

LEMMA DeactivateStep ==
    ASSUME IInv, Deactivate
    PROVE  IInv'
<1>1. UNCHANGED <<rows, manifests, torn, pending, taken>>
      /\ UNCHANGED <<Written, ManifestIds, RowIds>>
  BY DEF Deactivate, GoTo, Written, ManifestIds, RowIds
<1> QED
  BY <1>1 DEF IInv, Deactivate, GoTo, TypeOK, Phases, FreshIds, AtMostOneCurrent,
     LineageIsOlder, Running, ReturnedIsCurrent

(* The new row is the only current one, and its parent is in the table.    *)
LEMMA InsertStep ==
    ASSUME IInv, Insert
    PROVE  IInv'
<1> USE DEF IInv, Insert, GoTo
<1>0. UNCHANGED <<Written, ManifestIds, torn, taken, pending>>
  BY DEF Written, ManifestIds
<1>1. /\ pending \in Row /\ pending.id = taken
      /\ pending.id \notin RowIds \union ManifestIds \union torn
      /\ pending.parent # None => pending.parent \in RowIds
      /\ isCurrent = {} /\ rows' = rows \union {pending}
      /\ isCurrent' = {pending.id}
  BY DEF Running
<1>2. pending.id \in Ids /\ pending.id \in Nat /\ pending.parent \in Ids \union {None}
  BY <1>1 DEF Row, Ids
<1>3. RowIds' = RowIds \union {pending.id}
  BY <1>1 DEF RowIds
<1>4. TypeOK'
  BY <1>1, <1>2 DEF TypeOK, Phases
<1>5. FreshIds'
  BY <1>0, <1>1, <1>2 DEF FreshIds, TypeOK, RowIds, ManifestIds
<1>6. AtMostOneCurrent'
  BY <1>1, <1>3 DEF AtMostOneCurrent
<1>7. LineageIsOlder'
  <2>1. pending.parent # None => pending.parent < pending.id
    <3> SUFFICES ASSUME pending.parent # None PROVE pending.parent < pending.id
      OBVIOUS
    <3>1. PICK r \in rows : r.id = pending.parent
      BY <1>1 DEF RowIds
    <3>2. r.id \in Nat /\ r.id <= taken /\ r.id # taken
      BY <1>1, <3>1 DEF FreshIds, TypeOK, Row, Ids, RowIds
    <3> QED
      BY <1>1, <1>2, <3>1, <3>2 DEF TypeOK
  <2> QED
    BY <1>1, <1>3, <2>1 DEF LineageIsOlder
<1>8. (torn \intersect ManifestIds = {})'
  BY <1>0
<1>9. Running'
  BY <1>0, <1>1 DEF Running, RowIds
<1>10. ReturnedIsCurrent'
  BY DEF ReturnedIsCurrent
<1>11. QED
  BY <1>4, <1>5, <1>6, <1>7, <1>8, <1>9, <1>10 DEF IInv

LEMMA OpenManifestStep ==
    ASSUME IInv, OpenManifest
    PROVE  IInv'
<1> USE DEF IInv, OpenManifest, GoTo
<1>0. UNCHANGED <<rows, isCurrent, taken, pending, Written, ManifestIds, RowIds>>
  BY DEF Written, ManifestIds, RowIds
<1>1. pending \in rows /\ pending.id \notin ManifestIds
  BY DEF Running
<1>2. pending.id \in Ids /\ pending.id <= taken
  BY <1>1 DEF TypeOK, Row, FreshIds
<1>3. (torn \intersect ManifestIds = {})'
  BY <1>0, <1>1
<1>4. FreshIds'
  BY <1>0, <1>2 DEF FreshIds
<1>5. QED
  BY <1>0, <1>2, <1>3, <1>4
     DEF TypeOK, Phases, AtMostOneCurrent, LineageIsOlder, Running, ReturnedIsCurrent

LEMMA WriteManifestStep ==
    ASSUME IInv, WriteManifest
    PROVE  IInv'
<1> USE DEF IInv, WriteManifest, Return
<1>1. pending \in rows /\ isCurrent = {pending.id} /\ pending \in Row
  BY DEF Running, TypeOK
<1>2. /\ Written' = Written \union {pending} /\ ManifestIds' = ManifestIds \union {pending.id}
      /\ RowIds' = RowIds
  BY WrittenGrows DEF RowIds
<1>3. TypeOK'
  <2>1. [row |-> pending, current |-> TRUE] \in Manifest
    BY <1>1, Zenon DEF Manifest
  <2>2. returned' \in BOOLEAN
    BY Zenon
  <2> QED
    BY <2>1, <2>2 DEF TypeOK, Phases
<1>4. FreshIds' /\ (torn \intersect ManifestIds = {})'
  BY <1>1, <1>2 DEF FreshIds
<1>5. ReturnedIsCurrent' /\ Running'
  BY <1>1 DEF ReturnedIsCurrent, Running
<1>6. QED
  BY <1>2, <1>3, <1>4, <1>5 DEF AtMostOneCurrent, LineageIsOlder

LEMMA RollbackStep ==
    ASSUME IInv, Clear \/ Restore \/ \E r \in rows : BeginRollback(r)
    PROVE  IInv'
<1> USE DEF IInv
<1>1. ASSUME NEW r \in rows, BeginRollback(r) PROVE IInv'
  BY <1>1 DEF BeginRollback, TypeOK, Phases, FreshIds, AtMostOneCurrent,
              LineageIsOlder, Written, ManifestIds, Running, ReturnedIsCurrent,
              RowIds
<1>2. CASE Clear
  BY <1>2 DEF Clear, GoTo, TypeOK, Phases, FreshIds, AtMostOneCurrent,
              LineageIsOlder, Written, ManifestIds, Running, ReturnedIsCurrent,
              RowIds
<1>3. CASE Restore
  <2>1. pending \in rows /\ isCurrent' = {pending.id}
    BY <1>3 DEF Restore, Running
  <2>2. pending.id \in RowIds /\ pending.id \in Ids
    BY <2>1 DEF RowIds, TypeOK, Row
  <2> QED
    BY <1>3, <2>1, <2>2
       DEF Restore, Return, TypeOK, Phases, FreshIds, AtMostOneCurrent,
           LineageIsOlder, Written, ManifestIds, Running, ReturnedIsCurrent, RowIds
<1>4. QED
  BY <1>1, <1>2, <1>3

LEMMA InterruptStep ==
    ASSUME IInv, Interrupt
    PROVE  IInv'
<1> USE DEF IInv, Interrupt
<1>1. TypeOK'
  <2>1. returned' \in BOOLEAN
    BY Zenon
  <2>2. interruptions' \in Nat
    BY DEF TypeOK
  <2>3. phase' \in Phases
    BY DEF Phases
  <2> QED
    BY <2>1, <2>2, <2>3 DEF TypeOK
<1>2. /\ FreshIds' /\ AtMostOneCurrent' /\ LineageIsOlder'
      /\ (torn \intersect ManifestIds = {})'
  BY DEF FreshIds, AtMostOneCurrent, LineageIsOlder, Written, ManifestIds, RowIds
<1>3. Running' /\ ReturnedIsCurrent'
  BY DEF Running, ReturnedIsCurrent
<1>4. QED
  BY <1>1, <1>2, <1>3 DEF IInv

LEMMA ForgetStep ==
    ASSUME IInv, Forget
    PROVE  IInv'
<1> USE DEF IInv, Forget
<1>1. TypeOK'
  <2>1. returned' \in BOOLEAN
    BY Zenon
  <2> QED
    BY <2>1 DEF TypeOK, Phases
<1>2. UNCHANGED <<Written, ManifestIds>> /\ RowIds' = {}
  BY DEF Written, ManifestIds, RowIds
<1>3. FreshIds' /\ (torn \intersect ManifestIds = {})'
  BY <1>2 DEF FreshIds
<1>4. QED
  BY <1>1, <1>2, <1>3 DEF AtMostOneCurrent, LineageIsOlder, Running, ReturnedIsCurrent

LEMMA NextIInv == IInv /\ [Next]_vars => IInv'
<1> SUFFICES ASSUME IInv, [Next]_vars PROVE IInv'
  OBVIOUS
<1>1. CASE UNCHANGED vars
  BY <1>1 DEF vars, IInv, TypeOK, FreshIds, AtMostOneCurrent, LineageIsOlder,
              Written, ManifestIds, Running, ReturnedIsCurrent, RowIds, IsCurrentId
<1>2. CASE Next
  BY <1>2, BeginCommitStep, DeactivateStep, InsertStep, OpenManifestStep,
     WriteManifestStep, RollbackStep, InterruptStep, ForgetStep DEF Next
<1>3. QED
  BY <1>1, <1>2

(* The inductive invariant holds in every reachable state.                 *)
THEOREM Invariance == Spec => []IInv
BY InitIInv, NextIInv, PTL DEF Spec

(* Two snapshots are never current, wherever calls are interrupted.        *)
THEOREM OneCurrentAtMost == Spec => []AtMostOneCurrent
<1>1. IInv => AtMostOneCurrent
  BY DEF IInv
<1>2. QED
  BY <1>1, Invariance, PTL

(* A call that returned made exactly its snapshot current.                 *)
THEOREM ReturnedCallsTakeEffect == Spec => []ReturnedIsCurrent
<1>1. IInv => ReturnedIsCurrent
  BY DEF IInv
<1>2. QED
  BY <1>1, Invariance, PTL

(* Parents are older rows of the table: the lineage has no cycle and no    *)
(* dangling end.                                                           *)
THEOREM LineageIsAForest == Spec => []LineageIsOlder
<1>1. IInv => LineageIsOlder
  BY DEF IInv
<1>2. QED
  BY <1>1, Invariance, PTL

(* Every variable keeps its type.                                          *)
THEOREM TypeCorrectness == Spec => []TypeOK
<1>1. IInv => TypeOK
  BY DEF IInv
<1>2. QED
  BY <1>1, Invariance, PTL

-----------------------------------------------------------------------------
(* What interruptions can leave behind, counted. *)

Roots == {r \in rows : r.parent = None}
Unwritten == rows \ Written

(* A missing current snapshot, and a row without a manifest, are paid for  *)
(* by an interruption as soon as no call is about to repair them.          *)
Paid ==
    /\ IsFiniteSet(rows)
    /\ Cardinality(Roots) <= 1 + interruptions
    /\ phase \in {"idle", "deactivate"} /\ isCurrent = {} =>
          Cardinality(Roots) <= interruptions
    /\ phase = "insert" /\ pending.parent = None =>
          Cardinality(Roots) <= interruptions
    /\ Cardinality(Unwritten) <=
          IF phase \in {"open", "write"} THEN 1 + interruptions ELSE interruptions

LEMMA FiniteCounts ==
    ASSUME IsFiniteSet(rows)
    PROVE  /\ IsFiniteSet(Roots) /\ Cardinality(Roots) \in Nat
           /\ IsFiniteSet(Unwritten) /\ Cardinality(Unwritten) \in Nat
<1>1. Roots \in SUBSET rows /\ Unwritten \in SUBSET rows
  BY DEF Roots, Unwritten
<1> QED
  BY <1>1, FS_Subset, FS_CardinalityType

LEMMA InitPaid == Init => Paid
<1> SUFFICES ASSUME Init PROVE Paid
  OBVIOUS
<1>1. rows = {} /\ Roots = {} /\ Unwritten = {} /\ phase = "idle" /\ interruptions = 0
  BY DEF Init, Roots, Unwritten
<1> QED
  BY <1>1, FS_EmptySet DEF Paid

LEMMA InsertPaid ==
    ASSUME IInv, Paid, Insert
    PROVE  Paid'
<1>1. /\ phase = "insert" /\ phase' = "open" /\ rows' = rows \union {pending}
      /\ pending \in Row /\ pending.id \notin RowIds
      /\ pending.id \notin ManifestIds
      /\ UNCHANGED <<Written, interruptions>> /\ interruptions \in Nat
  BY DEF Insert, GoTo, IInv, Running, TypeOK, Written
<1>2. pending \notin rows /\ pending \notin Written
  BY <1>1 DEF RowIds, ManifestIds
<1>3. /\ IsFiniteSet(Roots) /\ Cardinality(Roots) \in Nat
      /\ IsFiniteSet(Unwritten) /\ Cardinality(Unwritten) \in Nat /\ IsFiniteSet(rows)
  BY FiniteCounts DEF Paid
<1>4. IsFiniteSet(rows')
  BY <1>1, <1>3, FS_AddElement
<1>5. Cardinality(Roots') <= 1 + interruptions'
  <2>1. CASE pending.parent = None
    <3>1. Roots' = Roots \union {pending}
      BY <1>1, <2>1 DEF Roots
    <3>2. Cardinality(Roots') = Cardinality(Roots) + 1
      BY <1>2, <1>3, <3>1, FS_AddElement DEF Roots
    <3>3. Cardinality(Roots) <= interruptions
      BY <1>1, <2>1 DEF Paid
    <3> QED
      BY <1>1, <1>3, <3>2, <3>3
  <2>2. CASE pending.parent # None
    <3>1. Roots' = Roots
      BY <1>1, <2>2 DEF Roots
    <3> QED
      BY <1>1, <3>1 DEF Paid
  <2> QED
    BY <2>1, <2>2
<1>6. Cardinality(Unwritten') <= 1 + interruptions'
  <2>1. Unwritten' = Unwritten \union {pending}
    BY <1>1, <1>2 DEF Unwritten
  <2>2. Cardinality(Unwritten') = Cardinality(Unwritten) + 1
    BY <1>2, <1>3, <2>1, FS_AddElement DEF Unwritten
  <2>3. Cardinality(Unwritten) <= interruptions
    BY <1>1 DEF Paid
  <2> QED
    BY <1>1, <1>3, <2>2, <2>3
<1> QED
  BY <1>1, <1>4, <1>5, <1>6 DEF Paid

LEMMA WriteManifestPaid ==
    ASSUME IInv, Paid, WriteManifest
    PROVE  Paid'
<1>1. /\ phase = "write" /\ phase' = "idle" /\ pending \in rows /\ pending \notin Written
      /\ isCurrent' = {pending.id} /\ Written' = Written \union {pending}
      /\ UNCHANGED <<rows, interruptions>> /\ interruptions \in Nat
  BY WrittenGrows DEF WriteManifest, Return, IInv, Running, TypeOK, ManifestIds
<1>2. /\ IsFiniteSet(Unwritten) /\ Cardinality(Unwritten) \in Nat
  BY FiniteCounts DEF Paid
<1>3. Roots' = Roots /\ Unwritten' = Unwritten \ {pending} /\ pending \in Unwritten
  BY <1>1 DEF Roots, Unwritten
<1>4. Cardinality(Unwritten') = Cardinality(Unwritten) - 1
  BY <1>2, <1>3, FS_RemoveElement
<1>5. Cardinality(Unwritten) <= 1 + interruptions
  BY <1>1 DEF Paid
<1>6. Cardinality(Unwritten') <= interruptions'
  BY <1>1, <1>2, <1>4, <1>5
<1> QED
  BY <1>1, <1>3, <1>6 DEF Paid

LEMMA NextPaid == IInv /\ Paid /\ [Next]_vars => Paid'
<1> SUFFICES ASSUME IInv, Paid, [Next]_vars PROVE Paid'
  OBVIOUS
<1>1. interruptions \in Nat
  BY DEF IInv, TypeOK
<1>2. ASSUME UNCHANGED <<rows, manifests>> PROVE Roots' = Roots /\ Unwritten' = Unwritten
  BY <1>2 DEF Roots, Unwritten, Written
<1>3. CASE UNCHANGED vars
  BY <1>2, <1>3 DEF vars, Paid
<1>4. ASSUME NEW x \in Contents, BeginCommit(x) PROVE Paid'
  BY <1>2, <1>4 DEF BeginCommit, Paid
<1>5. ASSUME NEW r \in rows, BeginRollback(r) PROVE Paid'
  BY <1>2, <1>5 DEF BeginRollback, Paid
<1>6. CASE Deactivate
  <2>1. /\ phase = "deactivate" /\ phase' = "insert" /\ pending' = pending
        /\ UNCHANGED <<rows, manifests, interruptions>>
    BY <1>6 DEF Deactivate, GoTo
  <2>2. pending.parent = None => isCurrent = {}
    BY <2>1 DEF IInv, Running, IsCurrentId, TypeOK, Ids, None
  <2> QED
    BY <1>2, <2>1, <2>2 DEF Paid
<1>7. CASE OpenManifest
  BY <1>2, <1>7 DEF OpenManifest, GoTo, Paid
<1>8. CASE Clear
  BY <1>2, <1>8 DEF Clear, GoTo, Paid
<1>9. CASE Restore
  <2>1. /\ phase = "restore" /\ phase' = "idle" /\ isCurrent' # {}
        /\ UNCHANGED <<rows, manifests, interruptions>>
    BY <1>9 DEF Restore, Return
  <2> QED
    BY <1>2, <2>1 DEF Paid
<1>10. CASE Interrupt
  <2>1. /\ phase' = "idle" /\ interruptions' = interruptions + 1
        /\ UNCHANGED <<rows, manifests>>
    BY <1>10 DEF Interrupt
  <2>2. Cardinality(Roots) \in Nat /\ Cardinality(Unwritten) \in Nat
    BY FiniteCounts DEF Paid
  <2> QED
    BY <1>1, <1>2, <2>1, <2>2 DEF Paid
<1>11. CASE Forget
  <2>1. rows' = {} /\ phase' = "idle" /\ Roots' = {} /\ Unwritten' = {}
        /\ interruptions' = interruptions
    BY <1>11 DEF Forget, Roots, Unwritten
  <2> QED
    BY <1>1, <2>1, FS_EmptySet DEF Paid
<1> QED
  BY <1>3, <1>4, <1>5, <1>6, <1>7, <1>8, <1>9, <1>10, <1>11, InsertPaid, WriteManifestPaid
     DEF Next

LEMMA AlwaysPaid == Spec => []Paid
BY InitPaid, NextPaid, Invariance, PTL DEF Spec

(* Every lineage but the first starts with an interrupted call.            *)
THEOREM InterruptionsStartLineages == Spec => []RootsComeFromInterruptions
<1>1. Paid => RootsComeFromInterruptions
  BY DEF Paid, Roots, RootsComeFromInterruptions
<1>2. QED
  BY <1>1, AlwaysPaid, PTL

(* A manifest and a row of one id agree on the snapshot and its parent,    *)
(* also where the table was lost and begun anew under old manifests, and   *)
(* every row without one was left by an interrupted commit.  The is_current*)
(* flag is not part of this: a manifest keeps the one it was written with. *)
THEOREM ManifestsAgree == Spec => []ManifestsMatchRows
<1>1. IInv /\ Paid => ManifestsMatchRows
  BY DEF IInv, FreshIds, Paid, Unwritten, ManifestsMatchRows
<1>2. QED
  BY <1>1, Invariance, AlwaysPaid, PTL

(* While no call has been interrupted, a current snapshot has its          *)
(* manifest, as the docstring of commit has it                             *)
(* (feature_versioner.py:113): only an interruption can break that.        *)
THEOREM UninterruptedCommitsHaveManifests ==
    Spec => [](interruptions = 0 => CurrentHasManifest)
<1>1. ASSUME IInv, Paid, interruptions = 0
      PROVE  CurrentHasManifest
  <2> SUFFICES ASSUME phase = "idle", NEW i \in isCurrent
               PROVE  i \in ManifestIds
    BY DEF CurrentHasManifest
  <2>1. PICK r \in rows : r.id = i
    BY <1>1 DEF IInv, AtMostOneCurrent, RowIds
  <2>2. IsFiniteSet(Unwritten) /\ Cardinality(Unwritten) = 0
    BY <1>1, FiniteCounts, FS_CardinalityType DEF Paid
  <2>3. Unwritten = {}
    BY <2>2, FS_EmptySet
  <2> QED
    BY <2>1, <2>3 DEF Unwritten, ManifestIds
<1> QED
  BY <1>1, Invariance, AlwaysPaid, PTL

-----------------------------------------------------------------------------
(* Commit and rollback implement the atomic operations of SnapshotHistory. *)
THEOREM Refinement == Spec => ImplementsHistory
<1>1. Init => History!Init
  BY DEF Init, History!Init, Current
<1>2. ASSUME IInv, [Next]_vars
      PROVE  [History!Next]_<<rows, Current>>
  <2> USE <1>2 DEF IInv
  <2> DEFINE Shown == IF isCurrent = {} THEN None ELSE CHOOSE i \in isCurrent : TRUE
  <2>0. \A i : isCurrent = {i} => Shown = i
    OBVIOUS
  <2>1. ASSUME UNCHANGED vars PROVE UNCHANGED <<rows, Current>>
    BY <2>1 DEF vars, Current
  <2>2. ASSUME NEW x \in Contents, BeginCommit(x) PROVE UNCHANGED <<rows, Current>>
    BY <2>2 DEF BeginCommit, Current
  <2>3. ASSUME NEW r \in rows, BeginRollback(r) PROVE UNCHANGED <<rows, Current>>
    BY <2>3 DEF BeginRollback, Current
  <2>4. ASSUME Deactivate PROVE UNCHANGED <<rows, Current>>
    <3>1. pending.parent = Shown
      BY <2>4, <2>0 DEF Deactivate, Running, IsCurrentId, AtMostOneCurrent
    <3> QED
      BY <2>4, <3>1 DEF Deactivate, GoTo, Current
  <2>5. ASSUME Insert PROVE History!Next
    <3>1. /\ pending \in Row /\ pending.id \notin RowIds
          /\ isCurrent' = {pending.id} /\ rows' = rows \union {pending}
      BY <2>5 DEF Insert, Running
    <3>2. Current = pending.parent /\ Current' = pending.id
      BY <2>5, <3>1 DEF Insert, GoTo, Current
    <3>3. /\ pending.id \in Ids /\ pending.content \in Contents
          /\ pending = [id |-> pending.id, content |-> pending.content,
                        parent |-> pending.parent]
      BY <3>1 DEF Row
    <3>4. History!Commit(pending.id, pending.content)
      BY <3>1, <3>2, <3>3 DEF History!Commit, History!Taken, RowIds
    <3> QED
      BY <3>3, <3>4 DEF History!Next
  <2>6. ASSUME OpenManifest \/ WriteManifest PROVE UNCHANGED <<rows, Current>>
    <3>1. UNCHANGED <<rows, isCurrent>> /\ phase \in {"open", "write"}
          /\ phase' \in {"write", "idle"}
      BY <2>6 DEF OpenManifest, WriteManifest, GoTo, Return
    <3>2. Current = Shown /\ Current' = Shown'
      BY <3>1 DEF Current
    <3>3. Shown' = Shown
      BY <3>1
    <3> QED
      BY <3>1, <3>2, <3>3
  <2>7. ASSUME Clear PROVE History!Next
    <3>1. pending \in rows /\ pending.id \in Ids
      BY <2>7 DEF Clear, Running, TypeOK, Row
    <3>2. Current' = pending.id /\ UNCHANGED rows
      BY <2>7 DEF Clear, GoTo, Current
    <3>3. History!Rollback(pending.id)
      BY <3>1, <3>2 DEF History!Rollback, History!Taken
    <3> QED
      BY <3>1, <3>3 DEF History!Next
  <2>8. ASSUME Restore PROVE UNCHANGED <<rows, Current>>
    BY <2>8 DEF Restore, Return, Running, Current
  <2>9. ASSUME Interrupt PROVE History!Next \/ UNCHANGED <<rows, Current>>
    <3>1. CASE phase \in {"insert", "restore"}
      BY <2>9, <3>1 DEF Interrupt, Running, Current, History!Next, History!Lose
    <3>2. CASE phase \notin {"insert", "restore"}
      BY <2>9, <3>2 DEF Interrupt, Current
    <3> QED
      BY <3>1, <3>2
  <2>10. ASSUME Forget PROVE History!Next
    <3>1. ~Durable /\ rows' = {} /\ Current' = None
      BY <2>10 DEF Forget, Current
    <3> QED
      BY <3>1 DEF History!Next, History!Forget
  <2> QED
    BY <2>1, <2>2, <2>3, <2>4, <2>5, <2>6, <2>7, <2>8, <2>9, <2>10 DEF Next
<1>3. QED
  BY <1>1, <1>2, Invariance, PTL DEF Spec, ImplementsHistory, History!Spec
=============================================================================
