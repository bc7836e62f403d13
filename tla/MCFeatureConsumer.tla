------------------------- MODULE MCFeatureConsumer -------------------------
(* Small instances of the consumer group for TLC. *)
EXTENDS FeatureConsumerInvariant, TLC

MCPartitions == {0, 1}
OnePartition == {0}
MCKeys       == {10, 11}

(* Kafka's partitioner hashes the message key. *)
HashedTwo == [k \in MCKeys |-> k % 2]
HashedOne == [k \in MCKeys |-> 0]

NoFaults == [f \in Faults |-> 0]

EachOnce   == [f \in Faults |-> 1]
Rebalances == [NoFaults EXCEPT !["evict"] = 1, !["revoke"] = 2]
RedisFails == [NoFaults EXCEPT !["process"] = 1]

ConsumerSymmetry == Permutations(Consumers)
=============================================================================
