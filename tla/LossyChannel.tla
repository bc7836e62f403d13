---------------------------- MODULE LossyChannel ----------------------------
(***************************************************************************)
(* What FeatureProducer promises the topic, and no more: each partition    *)
(* receives messages in the order publish accepted them, each at most      *)
(* once, and one that is skipped (its delivery failed) is skipped for      *)
(* good.  What one thread publishes to a partition is sent in the order of *)
(* its calls, and of the attempts of a call.                               *)
(***************************************************************************)
EXTENDS Naturals, Sequences

CONSTANTS
    Partitions,
    Message     \* records of a thread, its call's number, a partition, an attempt

VARIABLES
    sent,   \* per partition, the messages accepted so far
    done,   \* per partition, how many of them are appended or given up
    topic   \* per partition, the log

vars == <<sent, done, topic>>

Init ==
    /\ sent = [p \in Partitions |-> << >>]
    /\ done = [p \in Partitions |-> 0]
    /\ topic = [p \in Partitions |-> << >>]

Before(a, b) == a.n < b.n \/ (a.n = b.n /\ a.attempt < b.attempt)

Send(m) ==
    /\ \A i \in 1 .. Len(sent[m.part]) :
          sent[m.part][i].by = m.by => Before(sent[m.part][i], m)
    /\ sent' = [sent EXCEPT ![m.part] = Append(@, m)]
    /\ UNCHANGED <<done, topic>>

Advance(p) ==
    /\ done[p] < Len(sent[p])
    /\ done' = [done EXCEPT ![p] = @ + 1]
    /\ UNCHANGED sent

Deliver(p) ==
    /\ Advance(p)
    /\ topic' = [topic EXCEPT ![p] = Append(@, sent[p][done[p] + 1])]

Lose(p) == Advance(p) /\ UNCHANGED topic

Next ==
    \/ \E m \in Message : Send(m)
    \/ \E p \in Partitions : Deliver(p) \/ Lose(p)

Spec == Init /\ [][Next]_vars
=============================================================================
