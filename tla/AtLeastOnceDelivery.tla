------------------------ MODULE AtLeastOnceDelivery ------------------------
(***************************************************************************)
(* What the consumer group promises whoever appends to the topic: messages *)
(* of a partition are handled in offset order, a message may be handled    *)
(* again, but an offset is committed only once its message was handled,    *)
(* and no message further ahead than the first uncommitted one is ever     *)
(* touched.                                                                *)
(***************************************************************************)
EXTENDS Naturals, Sequences

CONSTANTS Partitions, Message

VARIABLES
    log,        \* the messages of each partition
    committed,  \* how many of them are committed
    handled     \* the events handled at least once

Init ==
    /\ log       = [p \in Partitions |-> << >>]
    /\ committed = [p \in Partitions |-> 0]
    /\ handled   = {}

Appended(p, m) ==
    /\ log' = [log EXCEPT ![p] = Append(@, m)]
    /\ UNCHANGED <<committed, handled>>

Handle(p, o) ==
    /\ o < Len(log[p])
    /\ o <= committed[p]
    /\ handled' = handled \union {[part |-> p, off |-> o]}
    /\ UNCHANGED <<log, committed>>

Advance(p) ==
    /\ [part |-> p, off |-> committed[p]] \in handled
    /\ committed' = [committed EXCEPT ![p] = @ + 1]
    /\ UNCHANGED <<log, handled>>

Next ==
    \E p \in Partitions :
       \/ \E m \in Message : Appended(p, m)
       \/ \E o \in 0 .. committed[p] : Handle(p, o)
       \/ Advance(p)

Spec == Init /\ [][Next]_<<log, committed, handled>>
=============================================================================
