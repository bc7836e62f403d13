---------------------- MODULE FeatureConsumerInvariant ----------------------
(***************************************************************************)
(* The inductive invariant of the consumer group, from which               *)
(* FeatureConsumer_proofs derives its properties.                          *)
(***************************************************************************)
EXTENDS FeatureConsumer

Busy(c) == pc[c] \in {"processing", "committing"}

(* A process holds a message exactly between poll and commit, and in the   *)
(* commit it has handled it.                                               *)
HoldsMessage ==
    \A c \in Consumers :
       /\ Busy(c) <=> inflight[c] # NoEvent
       /\ pc[c] = "committing" => inflight[c] \in Handled

(* Nothing handled or held is past the first uncommitted offset, or past   *)
(* the end of the log.                                                     *)
WithinLog ==
    /\ \A e \in Handled : e.off <= committed[e.part] /\ e.off < Len(log[e.part])
    /\ \A c \in Consumers :
          inflight[c] # NoEvent =>
             /\ inflight[c].off <= committed[inflight[c].part]
             /\ inflight[c].off < Len(log[inflight[c].part])

(* A partition belongs to a live process, whose position is the committed  *)
(* offset, or one past it while the process holds the message there.       *)
OwnerPosition ==
    \A c \in Consumers, p \in Partitions :
       owner[p] = c =>
          /\ pc[c] \in {"polling", "processing", "committing"}
          /\ IF inflight[c] # NoEvent /\ inflight[c].part = p
             THEN /\ inflight[c].off = committed[p]
                  /\ position[p] = committed[p] + 1
             ELSE position[p] = committed[p]

(* The producer's key puts every event of a feature key in one partition.  *)
Placed ==
    \A p \in Partitions : \A i \in 1 .. Len(log[p]) :
       log[p][i] \in Keys => PartitionOf[log[p][i]] = p

(* A valid event fails only when the registry or Redis does.               *)
FailuresAreErrors ==
    /\ \A e \in written : Valid(e)
    /\ used["process"] = 0 => \A e \in failed : ~Valid(e)

(* Without an eviction, whoever holds a message owns its partition, and no *)
(* key is older than an event written for it.                              *)
NoZombie ==
    used["evict"] = 0 =>
       /\ \A c \in Consumers :
             inflight[c] # NoEvent => owner[inflight[c].part] = c
       /\ NewestWins

(* Without a disruption, the only handled message not yet committed is the *)
(* one its owner is committing.                                            *)
NoRepeat ==
    Disruptions = 0 =>
       \A e \in Handled :
          e.off < committed[e.part]
             \/ \E c \in Consumers : pc[c] = "committing" /\ inflight[c] = e

IInv ==
    /\ TypeOK
    /\ HoldsMessage
    /\ WithinLog
    /\ OwnerPosition
    /\ Placed
    /\ CommittedIsHandled
    /\ FailuresAreErrors
    /\ NoZombie
    /\ NoRepeat
=============================================================================
