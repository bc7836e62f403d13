-------------------------- MODULE FeatureRegistry --------------------------
(***************************************************************************)
(* feature_store/registry.py: clients that create, update, delete and      *)
(* upsert the row of one feature name in feature_definitions, each call in *)
(* a session of its own (upsert in two).  A call reads, and writes when it *)
(* commits: SQLAlchemy then updates the columns whose value differs from   *)
(* what the session loaded, and the database runs at READ COMMITTED.       *)
(*                                                                         *)
(* The clients are whoever holds a FeatureRegistry: the API's POST         *)
(* /registry, its seeding of the defaults at every start, and scripts.     *)
(* The columns description, owner and value_type behave alike; "owner"     *)
(* stands for them.                                                        *)
(***************************************************************************)
EXTENDS Integers

CONSTANTS
    Clients,
    Owners,
    Definitions,    \* the FeatureDefinitions clients create and upsert
    Updates,        \* the keyword arguments of update: some of the fields
    NoRow,          \* the feature is not in the table
    MaxCalls        \* bound: calls per client

Fields == {"sla", "owner", "active"}
Values == [sla |-> Int, owner |-> Owners, active |-> BOOLEAN]
Row == [sla : Int, owner : Owners, active : BOOLEAN]

(* FeatureDefinition's gt=0, which _to_pydantic checks again on reading.   *)
Valid(r) == r.sla > 0

ASSUME NoRowAssumption == NoRow \notin Row
ASSUME DefinitionsAssumption == Definitions \subseteq {r \in Row : Valid(r)}
ASSUME UpdatesAssumption ==
    \A u \in Updates : DOMAIN u \subseteq Fields /\ \A f \in DOMAIN u : u[f] \in Values[f]
ASSUME BoundAssumption == MaxCalls \in Nat

Ops == {"none", "create", "update", "delete", "upsert"}
PCs == {"idle", "select", "create", "commit", "refresh"}
Results == {"none", "running", "ok", "exists", "missing", "invalid", "rejected", "error"}

VARIABLES
    row,        \* the row of the feature, or NoRow
    pc,         \* what a client's call does next
    op,         \* its latest call
    args,       \* the fields that call names, with their values
    loaded,     \* the row its session loaded
    result,     \* how it ended
    calls,      \* how many calls it has made
    contested,  \* the fields others have committed since it last began, loaded
                \* the row or committed (history)
    raced       \* those they had, since it loaded the row, when it committed
                \* (history)

history == <<contested, raced>>
vars == <<row, pc, op, args, loaded, result, calls, history>>

Init ==
    /\ row = NoRow
    /\ pc = [c \in Clients |-> "idle"]
    /\ op = [c \in Clients |-> "none"]
    /\ args = [c \in Clients |-> << >>]
    /\ loaded = [c \in Clients |-> NoRow]
    /\ result = [c \in Clients |-> "none"]
    /\ calls = [c \in Clients |-> 0]
    /\ contested = [c \in Clients |-> {}]
    /\ raced = [c \in Clients |-> {}]

GoTo(c, l) == pc' = [pc EXCEPT ![c] = l]
Proceed(c, l) == GoTo(c, l) /\ result' = [result EXCEPT ![c] = "running"]
End(c, r) == GoTo(c, "idle") /\ result' = [result EXCEPT ![c] = r]

(* c commits the fields its call names, where others had committed those   *)
(* of r since it loaded the row.                                           *)
Contest(c, r) ==
    /\ contested' = [d \in Clients |-> IF d = c THEN {}
                                       ELSE contested[d] \union DOMAIN args[c]]
    /\ raced' = [raced EXCEPT ![c] = r]

-----------------------------------------------------------------------------
(* Faulty variants of the definitions below. *)

WholeRow(c) ==                                   \* UPDATE with every column
    [f \in Fields |-> IF f \in DOMAIN args[c] THEN args[c][f] ELSE loaded[c][f]]

InsertOrReplace(c) ==                            \* ON CONFLICT DO UPDATE
    /\ pc[c] = "create"
    /\ row' = args[c] /\ Contest(c, {}) /\ Proceed(c, "refresh")
    /\ UNCHANGED <<op, args, loaded, calls>>

SelectOrCreate(c) ==                             \* a missing row is created
    /\ pc[c] = "select" /\ row = NoRow
    /\ Proceed(c, "create")
    /\ UNCHANGED <<row, op, args, loaded, calls, history>>

NeverFound == FALSE                              \* upsert always inserts

-----------------------------------------------------------------------------
Begin(c, o, a) ==
    /\ pc[c] = "idle" /\ calls[c] < MaxCalls
    /\ calls' = [calls EXCEPT ![c] = @ + 1]
    /\ op' = [op EXCEPT ![c] = o]
    /\ args' = [args EXCEPT ![c] = a]
    /\ contested' = [contested EXCEPT ![c] = {}]
    /\ raced' = [raced EXCEPT ![c] = {}]
    /\ UNCHANGED <<row, loaded>>

BeginCreate(c, d) == Begin(c, "create", d) /\ Proceed(c, "create")
BeginUpdate(c, u) == Begin(c, "update", u) /\ Proceed(c, "select")
BeginDelete(c) == Begin(c, "delete", [active |-> FALSE]) /\ Proceed(c, "select")

(* get: the active row of the name, which _to_pydantic may reject.         *)
Found == row # NoRow /\ row.active

BeginUpsert(c, d) ==
    /\ Begin(c, "upsert", d)
    /\ IF ~Found THEN Proceed(c, "create")
       ELSE IF Valid(row) THEN Proceed(c, "select")
       ELSE End(c, "rejected")

(* INSERT, or IntegrityError and so ValueError: the name is unique,        *)
(* whether its row is active or not.                                       *)
Insert(c) ==
    /\ pc[c] = "create"
    /\ IF row = NoRow
         THEN row' = args[c] /\ Contest(c, {}) /\ Proceed(c, "refresh")
         ELSE End(c, "exists") /\ UNCHANGED <<row, history>>
    /\ UNCHANGED <<op, args, loaded, calls>>

(* The SELECT of update (KeyError) and delete (False).                     *)
Select(c) ==
    /\ pc[c] = "select"
    /\ IF row = NoRow THEN End(c, "missing") /\ UNCHANGED <<loaded, contested>>
       ELSE /\ loaded' = [loaded EXCEPT ![c] = row]
            /\ contested' = [contested EXCEPT ![c] = {}]
            /\ Proceed(c, "commit")
    /\ UNCHANGED <<row, op, args, calls, raced>>

Updated(c) ==
    [f \in Fields |-> IF f \in DOMAIN args[c] /\ args[c][f] # loaded[c][f]
                      THEN args[c][f] ELSE row[f]]

Commit(c) ==
    /\ pc[c] = "commit"
    /\ row' = Updated(c)
    /\ Contest(c, contested[c])
    /\ IF op[c] = "delete" THEN End(c, "ok") ELSE Proceed(c, "refresh")
    /\ UNCHANGED <<op, args, loaded, calls>>

(* session.refresh and _to_pydantic read the row again: what is committed  *)
(* stays when the definition is rejected.                                  *)
Refresh(c) ==
    /\ pc[c] = "refresh"
    /\ End(c, IF Valid(row) THEN "ok" ELSE "invalid")
    /\ UNCHANGED <<row, op, args, loaded, calls, history>>

(* The database fails; the session is closed and rolls back.  At           *)
(* "refresh" the commit has taken effect.                                  *)
Fail(c) ==
    /\ pc[c] # "idle"
    /\ End(c, "error")
    /\ UNCHANGED <<row, op, args, loaded, calls, history>>

Next == \E c \in Clients :
    \/ \E d \in Definitions : BeginCreate(c, d) \/ BeginUpsert(c, d)
    \/ \E u \in Updates : BeginUpdate(c, u)
    \/ BeginDelete(c)
    \/ Insert(c) \/ Select(c) \/ Commit(c) \/ Refresh(c) \/ Fail(c)

Spec == Init /\ [][Next]_vars

-----------------------------------------------------------------------------
(* Properties. *)

TypeOK ==
    /\ row \in Row \union {NoRow}
    /\ pc \in [Clients -> PCs]
    /\ op \in [Clients -> Ops]
    /\ \A c \in Clients : DOMAIN args[c] \subseteq Fields
    /\ loaded \in [Clients -> Row \union {NoRow}]
    /\ result \in [Clients -> Results]
    /\ calls \in [Clients -> 0 .. MaxCalls]
    /\ contested \in [Clients -> SUBSET Fields]
    /\ raced \in [Clients -> SUBSET Fields]

(* A call that has committed is lost to no other call: each field it named *)
(* has the value it gave until another call that names the field commits,  *)
(* although both work on copies of the row they loaded earlier.  There is  *)
(* one exception: a value the row already had when the call loaded it is   *)
(* not written at all, so that what another committed in between stays.    *)
Committed(c) == pc[c] = "refresh" \/ result[c] \in {"ok", "invalid"}
UncontestedFieldsStick ==
    \A c \in Clients : Committed(c) /\ op[c] # "none" =>
       \A f \in DOMAIN args[c] \ contested[c] :
          /\ row # NoRow
          /\ \/ row[f] = args[c][f]
             \/ f \in raced[c] /\ loaded[c][f] = args[c][f]

(* An upsert raises "already exists" only where the name is taken by a     *)
(* soft-deleted row, which its lookup does not see, or another call wrote  *)
(* is_active, by creating the row or otherwise, since that lookup.         *)
UpsertFailsOnDeleted ==
    \A c \in Clients :
       op[c] = "upsert" /\ result[c] = "exists" /\ "active" \notin contested[c] =>
          row # NoRow /\ ~row.active

(* A soft-deleted feature becomes active only by a call that found a row   *)
(* and names is_active: never by create, and so never when the API seeds   *)
(* its defaults again, nor by an update of other fields that loaded the    *)
(* row before the delete.                                                  *)
RevivalNeedsIntent == [][
    row # NoRow /\ ~row.active /\ row' # NoRow /\ row'.active =>
       \E c \in Clients : /\ pc[c] = "commit" /\ pc'[c] # "commit"
                          /\ "active" \in DOMAIN args[c] /\ args[c].active
    ]_vars
=============================================================================
