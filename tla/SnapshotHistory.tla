-------------------------- MODULE SnapshotHistory --------------------------
(***************************************************************************)
(* What the feature versioner promises its callers: a growing history of   *)
(* snapshots, each with the snapshot that was current when it was taken as *)
(* its parent, and one of them current.  Commit and rollback look atomic;  *)
(* an interrupted one may leave no snapshot current, and a history that is *)
(* not durable may end and begin anew.                                     *)
(***************************************************************************)
CONSTANTS Ids, Contents, None, Durable

VARIABLES
    history,    \* each snapshot taken, with its content and its parent
    current     \* the current snapshot, or None

Init == history = {} /\ current = None

Taken == {s.id : s \in history}

Commit(i, x) ==
    /\ i \notin Taken
    /\ history' = history \union {[id |-> i, content |-> x, parent |-> current]}
    /\ current' = i

Rollback(i) ==
    /\ i \in Taken
    /\ current' = i
    /\ UNCHANGED history

Lose == current' = None /\ UNCHANGED history

Forget == ~Durable /\ history' = {} /\ current' = None

Next ==
    \/ \E i \in Ids, x \in Contents : Commit(i, x)
    \/ \E i \in Ids : Rollback(i)
    \/ Lose \/ Forget

Spec == Init /\ [][Next]_<<history, current>>
=============================================================================
