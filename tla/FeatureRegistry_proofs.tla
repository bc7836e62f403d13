----------------------- MODULE FeatureRegistry_proofs -----------------------
(***************************************************************************)
(* Proofs about FeatureRegistry, for any number of clients and calls.      *)
(*                                                                         *)
(* A call keeps what it needs of the table in its session, and others      *)
(* commit meanwhile.  The inductive invariant says what a session's copy   *)
(* still tells: the fields the call names are in the row as it loaded      *)
(* them, but for those that others have committed since (contested).       *)
(***************************************************************************)
EXTENDS FeatureRegistry, TLAPS

(* The arguments of a call are fields with their values, and those of a    *)
(* create or an upsert make a whole row.                                   *)
ArgsOK ==
    /\ args = [c \in Clients |-> args[c]]
    /\ \A c \in Clients :
       /\ \A f \in DOMAIN args[c] : args[c][f] \in Values[f]
       /\ pc[c] = "create" => args[c] \in Row
       /\ op[c] = "upsert" => args[c] \in Row

(* A call that loaded the row finds it in the table, uncontested fields    *)
(* unchanged.                                                              *)
LoadedStands ==
    \A c \in Clients : pc[c] = "commit" =>
       /\ row # NoRow
       /\ \A f \in DOMAIN args[c] \ contested[c] : row[f] = loaded[c][f]

(* An upsert goes on to create only after it found no active row.          *)
NotFoundStands ==
    \A c \in Clients :
       op[c] = "upsert" /\ pc[c] = "create" /\ "active" \notin contested[c] =>
          row = NoRow \/ ~row.active

IInv ==
    /\ TypeOK
    /\ ArgsOK
    /\ LoadedStands
    /\ NotFoundStands
    /\ UncontestedFieldsStick
    /\ UpsertFailsOnDeleted

-----------------------------------------------------------------------------
LEMMA RowIsFunction ==
    /\ Row = {r \in [Fields -> Int \union Owners \union BOOLEAN] :
                 r.sla \in Int /\ r.owner \in Owners /\ r.active \in BOOLEAN}
    /\ \A r \in Row : DOMAIN r = Fields
BY DEF Row, Fields

LEMMA UpdatedIsRow ==
    ASSUME TypeOK, ArgsOK, NEW c \in Clients, row # NoRow
    PROVE  /\ Updated(c) \in Row
           /\ \A f \in Fields : Updated(c)[f] =
                 IF f \in DOMAIN args[c] /\ args[c][f] # loaded[c][f]
                 THEN args[c][f] ELSE row[f]
<1>1. row \in Row
  BY DEF TypeOK
<1>2. \A f \in DOMAIN args[c] : args[c][f] \in Values[f]
  BY DEF ArgsOK
<1> QED
  BY <1>1, <1>2 DEF Updated, Fields, Row, Values

-----------------------------------------------------------------------------
(* Each group of steps preserves the invariant: those that begin a call,   *)
(* those that commit, and those that leave the table alone.                *)

LEMMA InitIInv == Init => IInv
<1> SUFFICES ASSUME Init PROVE IInv
  OBVIOUS
<1> USE NoRowAssumption, BoundAssumption
<1>1. TypeOK
  BY DEF Init, TypeOK, PCs, Ops, Results
<1>2. ArgsOK /\ LoadedStands /\ NotFoundStands
  BY DEF Init, ArgsOK, LoadedStands, NotFoundStands
<1>3. UncontestedFieldsStick /\ UpsertFailsOnDeleted
  BY DEF Init, UncontestedFieldsStick, Committed, UpsertFailsOnDeleted
<1> QED
  BY <1>1, <1>2, <1>3 DEF IInv

LEMMA BeginIInv ==
    ASSUME IInv, NEW c \in Clients, NEW o \in Ops, NEW a,
           Begin(c, o, a),
           \A f \in DOMAIN a : f \in Fields /\ a[f] \in Values[f],
           o = "upsert" => a \in Row,
           \/ Proceed(c, "create") /\ a \in Row /\ (o = "upsert" => ~Found)
           \/ Proceed(c, "select")
           \/ End(c, "rejected")
    PROVE  IInv'
<1> USE BoundAssumption DEF IInv
<1>1. /\ row' = row /\ loaded' = loaded
      /\ op' = [op EXCEPT ![c] = o]
      /\ args' = [args EXCEPT ![c] = a]
      /\ contested' = [contested EXCEPT ![c] = {}] /\ raced' = [raced EXCEPT ![c] = {}]
      /\ calls' = [calls EXCEPT ![c] = @ + 1]
      /\ calls[c] < MaxCalls
  BY DEF Begin
<1>2. PICK l \in {"create", "select", "idle"}, r \in {"running", "rejected"} :
         /\ pc' = [pc EXCEPT ![c] = l]
         /\ result' = [result EXCEPT ![c] = r]
         /\ l = "create" => a \in Row /\ (o = "upsert" => ~Found)
  BY DEF Proceed, End, GoTo
<1>3. TypeOK'
  BY <1>1, <1>2 DEF TypeOK, ArgsOK, PCs, Results
<1>4. ArgsOK'
  BY <1>1, <1>2 DEF TypeOK, ArgsOK
<1>5. LoadedStands'
  BY <1>1, <1>2 DEF TypeOK, ArgsOK, LoadedStands
<1>6. NotFoundStands'
  BY <1>1, <1>2 DEF TypeOK, ArgsOK, NotFoundStands, Found
<1>7. UncontestedFieldsStick'
  <2>1. \A d \in Clients \ {c} : Committed(d)' <=> Committed(d)
    BY <1>2 DEF TypeOK, Committed
  <2>2. ~Committed(c)'
    BY <1>2 DEF TypeOK, Committed
  <2> QED
    BY <1>1, <2>1, <2>2 DEF TypeOK, ArgsOK, UncontestedFieldsStick
<1>8. UpsertFailsOnDeleted'
  BY <1>1, <1>2 DEF TypeOK, ArgsOK, UpsertFailsOnDeleted
<1> QED
  BY <1>3, <1>4, <1>5, <1>6, <1>7, <1>8

(* A commit, of an insert or an update, changes only fields the call names *)
(* and contests them for every other client.                               *)
LEMMA WriteIInv ==
    ASSUME IInv, NEW c \in Clients, NEW r \in SUBSET Fields,
           row' \in Row,
           row # NoRow => \A f \in Fields \ DOMAIN args[c] : row'[f] = row[f],
           row = NoRow => DOMAIN args[c] = Fields,
           \A f \in DOMAIN args[c] :
              row'[f] = args[c][f] \/ (f \in r /\ loaded[c][f] = args[c][f]),
           Contest(c, r),
           Proceed(c, "refresh") \/ End(c, "ok"),
           UNCHANGED <<op, args, loaded, calls>>
    PROVE  IInv'
<1> USE NoRowAssumption DEF IInv
<1>1. /\ op' = op /\ args' = args /\ loaded' = loaded /\ calls' = calls
      /\ contested' = [d \in Clients |-> IF d = c THEN {}
                                         ELSE contested[d] \union DOMAIN args[c]]
      /\ raced' = [raced EXCEPT ![c] = r]
      /\ row' # NoRow
  BY DEF Contest
<1>2. PICK l \in {"refresh", "idle"}, x \in {"running", "ok"} :
         /\ pc' = [pc EXCEPT ![c] = l]
         /\ result' = [result EXCEPT ![c] = x]
  BY DEF Proceed, End, GoTo
<1>3. TypeOK'
  BY <1>1, <1>2 DEF TypeOK, ArgsOK, PCs, Results
<1>4. ArgsOK'
  BY <1>1, <1>2 DEF TypeOK, ArgsOK
<1>5. \A d \in Clients \ {c} : \A f \in DOMAIN args[d] \ contested'[d] :
         f \in Fields \ DOMAIN args[c] /\ f \in DOMAIN args[d] \ contested[d]
  BY <1>1 DEF TypeOK
<1>6. LoadedStands'
  BY <1>1, <1>2, <1>5 DEF TypeOK, LoadedStands
<1>7. NotFoundStands'
  <2> SUFFICES ASSUME NEW d \in Clients, op[d] = "upsert", pc'[d] = "create",
                      "active" \notin contested'[d]
               PROVE  ~row'.active
    BY <1>1 DEF NotFoundStands
  <2>1. d # c /\ pc[d] = "create" /\ "active" \notin contested[d]
        /\ "active" \notin DOMAIN args[c]
    BY <1>1, <1>2 DEF TypeOK
  <2>2. row # NoRow /\ row'["active"] = row["active"]
    BY <2>1 DEF Fields
  <2> QED
    BY <2>1, <2>2 DEF NotFoundStands
<1>8. UncontestedFieldsStick'
  <2>1. \A d \in Clients \ {c} : Committed(d)' <=> Committed(d)
    BY <1>2 DEF TypeOK, Committed
  <2>2. ASSUME NEW d \in Clients \ {c}, Committed(d), op[d] # "none",
               NEW f \in DOMAIN args[d] \ contested'[d]
        PROVE  row'[f] = args[d][f] \/ (f \in raced'[d] /\ loaded[d][f] = args[d][f])
      <3>1. f \in Fields \ DOMAIN args[c] /\ f \in DOMAIN args[d] \ contested[d]
        BY <1>5, <2>2
      <3>2. /\ row # NoRow
            /\ row[f] = args[d][f] \/ (f \in raced[d] /\ loaded[d][f] = args[d][f])
        BY <2>2, <3>1 DEF UncontestedFieldsStick
      <3>3. row'[f] = row[f] /\ raced'[d] = raced[d]
        BY <1>1, <3>1, <3>2 DEF TypeOK
      <3> QED
        BY <3>2, <3>3
  <2>3. ASSUME NEW f \in DOMAIN args[c]
        PROVE  row'[f] = args[c][f] \/ (f \in raced'[c] /\ loaded[c][f] = args[c][f])
    BY <1>1, <2>3 DEF TypeOK
  <2> QED
    BY <1>1, <2>1, <2>2, <2>3 DEF UncontestedFieldsStick
<1>9. UpsertFailsOnDeleted'
  <2> SUFFICES ASSUME NEW d \in Clients, op[d] = "upsert", result'[d] = "exists",
                      "active" \notin contested'[d]
               PROVE  ~row'.active
    BY <1>1 DEF UpsertFailsOnDeleted
  <2>1. d # c /\ result[d] = "exists" /\ "active" \notin contested[d]
        /\ "active" \notin DOMAIN args[c]
    BY <1>1, <1>2 DEF TypeOK
  <2>2. row # NoRow /\ row'["active"] = row["active"]
    BY <2>1 DEF Fields
  <2> QED
    BY <2>1, <2>2 DEF UpsertFailsOnDeleted
<1> QED
  BY <1>3, <1>4, <1>6, <1>7, <1>8, <1>9

LEMMA EndIInv ==
    ASSUME IInv, NEW c \in Clients, NEW r \in Results, End(c, r),
           r \in {"ok", "invalid"} => pc[c] = "refresh",
           r = "exists" => pc[c] = "create" /\ row # NoRow,
           UNCHANGED <<row, op, args, loaded, calls, raced>>,
           UNCHANGED contested
    PROVE  IInv'
<1> USE DEF IInv
<1>1. /\ pc' = [pc EXCEPT ![c] = "idle"]
      /\ result' = [result EXCEPT ![c] = r]
  BY DEF End, GoTo
<1>2. TypeOK' /\ ArgsOK'
  BY <1>1 DEF TypeOK, ArgsOK, PCs
<1>3. LoadedStands' /\ NotFoundStands'
  BY <1>1 DEF TypeOK, LoadedStands, NotFoundStands
<1>4. UncontestedFieldsStick'
  <2>1. \A d \in Clients : Committed(d)' => Committed(d)
    BY <1>1 DEF TypeOK, Committed
  <2> QED
    BY <2>1 DEF UncontestedFieldsStick
<1>5. UpsertFailsOnDeleted'
  BY <1>1 DEF TypeOK, NotFoundStands, UpsertFailsOnDeleted
<1> QED
  BY <1>2, <1>3, <1>4, <1>5

LEMMA SelectIInv ==
    ASSUME IInv, NEW c \in Clients, Select(c), row # NoRow
    PROVE  IInv'
<1> USE DEF IInv
<1>1. /\ pc' = [pc EXCEPT ![c] = "commit"]
      /\ result' = [result EXCEPT ![c] = "running"]
      /\ loaded' = [loaded EXCEPT ![c] = row]
      /\ contested' = [contested EXCEPT ![c] = {}]
      /\ UNCHANGED <<row, op, args, calls, raced>>
  BY DEF Select, Proceed, GoTo
<1>2. TypeOK' /\ ArgsOK'
  BY <1>1 DEF TypeOK, ArgsOK, PCs, Results
<1>3. LoadedStands' /\ NotFoundStands'
  BY <1>1 DEF TypeOK, LoadedStands, NotFoundStands
<1>4. UncontestedFieldsStick'
  <2>1. \A d \in Clients : Committed(d)' => d # c /\ Committed(d)
    BY <1>1 DEF Select, TypeOK, Committed
  <2>2. \A d \in Clients \ {c} : contested'[d] = contested[d] /\ loaded'[d] = loaded[d]
    BY <1>1 DEF TypeOK
  <2> QED
    BY <1>1, <2>1, <2>2 DEF UncontestedFieldsStick
<1>5. UpsertFailsOnDeleted'
  BY <1>1 DEF TypeOK, UpsertFailsOnDeleted
<1> QED
  BY <1>2, <1>3, <1>4, <1>5

LEMMA NextIInv == IInv /\ [Next]_vars => IInv'
<1> SUFFICES ASSUME IInv, [Next]_vars PROVE IInv'
  OBVIOUS
<1> USE DEF IInv
<1>1. ASSUME NEW c \in Clients, NEW d \in Definitions,
             BeginCreate(c, d) \/ BeginUpsert(c, d)
      PROVE  IInv'
  <2>1. d \in Row /\ \A f \in DOMAIN d : f \in Fields /\ d[f] \in Values[f]
    BY DefinitionsAssumption DEF Row, Values, Fields
  <2>2. CASE BeginCreate(c, d)
    BY <2>1, <2>2, BeginIInv DEF BeginCreate, Ops
  <2>3. CASE BeginUpsert(c, d)
    BY <2>1, <2>3, BeginIInv DEF BeginUpsert, Ops
  <2> QED
    BY <1>1, <2>2, <2>3
<1>2. ASSUME NEW c \in Clients, NEW u \in Updates, BeginUpdate(c, u)
      PROVE  IInv'
  <2>1. \A f \in DOMAIN u : f \in Fields /\ u[f] \in Values[f]
    BY UpdatesAssumption
  <2> QED
    BY <1>2, <2>1, BeginIInv DEF BeginUpdate, Ops
<1>3. ASSUME NEW c \in Clients, BeginDelete(c)
      PROVE  IInv'
  <2> DEFINE a == [active |-> FALSE]
  <2>1. \A f \in DOMAIN a : f \in Fields /\ a[f] \in Values[f]
    <3>1. DOMAIN a = {"active"} /\ a["active"] = FALSE
      OBVIOUS
    <3>2. Values["active"] = BOOLEAN /\ "active" \in Fields
      BY DEF Values, Fields
    <3> HIDE DEF a
    <3> QED
      BY <3>1, <3>2, Zenon
  <2>2. Begin(c, "delete", a) /\ Proceed(c, "select")
    BY <1>3 DEF BeginDelete
  <2> HIDE DEF a
  <2> QED
    BY <2>1, <2>2, BeginIInv DEF Ops
<1>4. ASSUME NEW c \in Clients, Insert(c)
      PROVE  IInv'
  <2>1. CASE row = NoRow
    <3>1. args[c] \in Row /\ row' = args[c]
      BY <1>4, <2>1 DEF Insert, ArgsOK
    <3>2. DOMAIN args[c] = Fields
      BY <3>1, RowIsFunction
    <3> QED
      BY <1>4, <2>1, <3>1, <3>2, WriteIInv DEF Insert
  <2>2. CASE row # NoRow
    BY <1>4, <2>2, EndIInv DEF Insert, Results, history
  <2> QED
    BY <2>1, <2>2
<1>5. ASSUME NEW c \in Clients, Select(c)
      PROVE  IInv'
  <2>1. CASE row = NoRow
    BY <1>5, <2>1, EndIInv DEF Select, Results, history
  <2> QED
    BY <1>5, <2>1, SelectIInv
<1>6. ASSUME NEW c \in Clients, Commit(c)
      PROVE  IInv'
  <2>1. /\ row # NoRow
        /\ \A f \in DOMAIN args[c] \ contested[c] : row[f] = loaded[c][f]
    BY <1>6 DEF Commit, LoadedStands
  <2>2. /\ row' \in Row
        /\ \A f \in Fields : row'[f] =
              IF f \in DOMAIN args[c] /\ args[c][f] # loaded[c][f]
              THEN args[c][f] ELSE row[f]
    BY <1>6, <2>1, UpdatedIsRow DEF Commit
  <2>3. DOMAIN args[c] \subseteq Fields
    BY DEF TypeOK
  <2>4. \A f \in Fields \ DOMAIN args[c] : row'[f] = row[f]
    BY <2>2
  <2>5. \A f \in DOMAIN args[c] :
           row'[f] = args[c][f] \/ (f \in contested[c] /\ loaded[c][f] = args[c][f])
    BY <2>1, <2>2, <2>3
  <2>6. contested[c] \in SUBSET Fields
    BY DEF TypeOK
  <2>7. /\ Contest(c, contested[c]) /\ UNCHANGED <<op, args, loaded, calls>>
        /\ Proceed(c, "refresh") \/ End(c, "ok")
    BY <1>6 DEF Commit
  <2> QED
    BY <2>1, <2>2, <2>4, <2>5, <2>6, <2>7, WriteIInv
<1>7. ASSUME NEW c \in Clients, Refresh(c)
      PROVE  IInv'
  BY <1>7, EndIInv DEF Refresh, Results, history
<1>8. ASSUME NEW c \in Clients, Fail(c)
      PROVE  IInv'
  BY <1>8, EndIInv DEF Fail, Results, history
<1>9. CASE UNCHANGED vars
  <2>1. TypeOK' /\ ArgsOK' /\ LoadedStands' /\ NotFoundStands'
    BY <1>9 DEF vars, history, TypeOK, ArgsOK, LoadedStands, NotFoundStands
  <2>2. UncontestedFieldsStick' /\ UpsertFailsOnDeleted'
    BY <1>9 DEF vars, history, UncontestedFieldsStick, Committed, UpsertFailsOnDeleted
  <2> QED
    BY <2>1, <2>2
<1> QED
  BY <1>1, <1>2, <1>3, <1>4, <1>5, <1>6, <1>7, <1>8, <1>9 DEF Next

-----------------------------------------------------------------------------
LEMMA Invariance == Spec => []IInv
<1> QED
  BY InitIInv, NextIInv, PTL DEF Spec

(* The row is a row and every call is in a state of its own code.          *)
THEOREM TypeCorrectness == Spec => []TypeOK
<1>1. IInv => TypeOK
  BY DEF IInv
<1> QED
  BY Invariance, <1>1, PTL

(* What update (setattr, then UPDATE of the changed columns), delete,      *)
(* create and upsert committed stays until another call commits the field; *)
(* only a value the row had when it was loaded, and another call changed   *)
(* before the commit, is not written.                                      *)
THEOREM NoLostUpdate == Spec => []UncontestedFieldsStick
<1>1. IInv => UncontestedFieldsStick
  BY DEF IInv
<1> QED
  BY Invariance, <1>1, PTL

(* An upsert fails only on a soft-deleted row, or because another call     *)
(* wrote is_active between its two transactions, lookup and create.        *)
THEOREM UpsertFailure == Spec => []UpsertFailsOnDeleted
<1>1. IInv => UpsertFailsOnDeleted
  BY DEF IInv
<1> QED
  BY Invariance, <1>1, PTL

(* A deleted feature is revived only by an update that names is_active:    *)
(* the INSERT of create is refused, and an update of other fields does not *)
(* write the column back.                                                  *)
THEOREM NoAccidentalRevival == Spec => RevivalNeedsIntent
<1> DEFINE
     Revival == row # NoRow /\ ~row.active /\ row' # NoRow /\ row'.active
     Intent  == \E c \in Clients : /\ pc[c] = "commit" /\ pc'[c] # "commit"
                                   /\ "active" \in DOMAIN args[c] /\ args[c].active
<1>1. IInv /\ [Next]_vars => [Revival => Intent]_vars
  <2> SUFFICES ASSUME IInv, Next, Revival PROVE Intent
    OBVIOUS
  <2>1. row' # row /\ row # NoRow
    OBVIOUS
  <2>2. PICK c \in Clients : Commit(c)
    BY <2>1 DEF Next, BeginCreate, BeginUpsert, BeginUpdate, BeginDelete, Begin,
                Insert, Select, Refresh, Fail
  <2>3. row' = Updated(c)
    BY <2>2 DEF Commit
  <2>4. "active" \in DOMAIN args[c] /\ args[c].active
    BY <2>1, <2>3 DEF Updated, Fields
  <2>5. pc[c] = "commit" /\ pc'[c] # "commit"
    BY <2>2 DEF Commit, End, Proceed, GoTo, IInv, TypeOK
  <2> QED
    BY <2>4, <2>5
<1> QED
  BY Invariance, <1>1, PTL DEF Spec, RevivalNeedsIntent
=============================================================================
