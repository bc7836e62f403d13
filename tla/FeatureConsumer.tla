--------------------------- MODULE FeatureConsumer ---------------------------
(***************************************************************************)
(* The streaming write path: the consumer group of                         *)
(* feature_store/consumer.py, which moves feature events from the          *)
(* partitions of a Kafka topic into Redis.                                 *)
(*                                                                         *)
(* Each consumer is one process of the compose file, running               *)
(* FeatureConsumer._run: poll one message, process it, commit the offset,  *)
(* repeat until the stop event is set.  What Kafka, Redis and Docker do    *)
(* is modelled from how that loop uses them: partitions are assigned and   *)
(* revoked while a consumer polls, a slow consumer is evicted from the     *)
(* group without being told, a dead one is noticed after its session       *)
(* timeout, and a container that failed is started again.                  *)
(*                                                                         *)
(* An event is identified by its partition and its offset, and Redis holds *)
(* for each feature key the offset of the event stored there.              *)
(***************************************************************************)
EXTENDS Integers, Sequences, FiniteSets

CONSTANTS
    Consumers,      \* the processes of the consumer group
    Partitions,     \* the partitions of the topic
    Keys,           \* the feature keys, feature:{entity_id}:{feature_name}
    PartitionOf,    \* the partition Kafka's partitioner gives each key
    Malformed,      \* a message FeatureEvent.from_json rejects
    NoOwner,        \* owner of a partition that waits to be assigned
    Ghost,          \* owner of a partition whose process died unnoticed
    NoEvent,        \* a consumer between two messages
    MaxLog,         \* bound: messages per partition
    Budget          \* bound: how often each kind of fault may happen

Faults == {"crash", "evict", "revoke", "process", "commit", "signal"}

Event == [part : Partitions, off : Nat]

ASSUME PartitionAssumption == PartitionOf \in [Keys -> Partitions]
ASSUME MalformedAssumption == Malformed \notin Keys
ASSUME OwnerAssumption     == NoOwner \notin Consumers /\ Ghost \notin Consumers
                              /\ NoOwner # Ghost
ASSUME NoEventAssumption   == NoEvent \notin Event
ASSUME BoundAssumption     == MaxLog \in Nat /\ Budget \in [Faults -> Nat]

VARIABLES
    log,        \* the messages of each partition; offset n is element n+1
    committed,  \* the offset the group has committed on each partition
    owner,      \* the group member each partition is assigned to
    position,   \* the next offset the owner of the partition fetches
    pc,         \* where each process is in _run
    stop,       \* _stop_event of each process
    inflight,   \* the message each process holds between poll and commit
    redis,      \* the offset of the event stored under each key, or Absent
    written,    \* events counted in messages_processed
    failed,     \* events counted in messages_failed
    used        \* how much of Budget is spent

vars == <<log, committed, owner, position, pc, stop, inflight, redis,
          written, failed, used>>

Absent  == -1
Message == Keys \union {Malformed}
PCs     == {"down", "polling", "processing", "committing", "stopped"}

Content(e) == log[e.part][e.off + 1]
Valid(e)   == Content(e) # Malformed
Handled    == written \union failed
Owned(c)   == {p \in Partitions : owner[p] = c}

Init ==
    /\ log       = [p \in Partitions |-> << >>]
    /\ committed = [p \in Partitions |-> 0]
    /\ owner     = [p \in Partitions |-> NoOwner]
    /\ position  = [p \in Partitions |-> 0]
    /\ pc        = [c \in Consumers |-> "down"]
    /\ stop      = [c \in Consumers |-> FALSE]
    /\ inflight  = [c \in Consumers |-> NoEvent]
    /\ redis     = [k \in Keys |-> Absent]
    /\ written   = {}
    /\ failed    = {}
    /\ used      = [f \in Faults |-> 0]

Spend(f) == /\ used[f] < Budget[f]
            /\ used' = [used EXCEPT ![f] = @ + 1]

(* commit(): the positions of the partitions of c become their committed   *)
(* offsets.                                                                *)
CommitOffsets(c) ==
    committed' = [p \in Partitions |-> IF owner[p] = c THEN position[p]
                                                      ELSE committed[p]]

(* close() in the finally clause: the member leaves the group.             *)
Leave(c) ==
    owner' = [p \in Partitions |-> IF owner[p] = c THEN NoOwner ELSE owner[p]]

-----------------------------------------------------------------------------
(* Faulty variants of the actions below, none of them part of Next: each   *)
(* is a bug the properties must notice when it takes its action's place.   *)

AssignFromStart(c, p) ==           \* ignores the committed offset
    /\ pc[c] = "polling"
    /\ owner[p] = NoOwner
    /\ owner' = [owner EXCEPT ![p] = c]
    /\ position' = [position EXCEPT ![p] = 0]
    /\ UNCHANGED <<log, committed, pc, stop, inflight, redis, written,
                   failed, used>>

AssignOneBefore(c, p) ==           \* takes it for the last one processed
    /\ pc[c] = "polling"
    /\ owner[p] = NoOwner
    /\ owner' = [owner EXCEPT ![p] = c]
    /\ position' = [position EXCEPT ![p] = committed[p] - 1]
    /\ UNCHANGED <<log, committed, pc, stop, inflight, redis, written,
                   failed, used>>

AssignFromPosition(c, p) ==        \* goes on where the last owner was
    /\ pc[c] = "polling"
    /\ owner[p] = NoOwner
    /\ owner' = [owner EXCEPT ![p] = c]
    /\ UNCHANGED <<log, committed, position, pc, stop, inflight, redis,
                   written, failed, used>>

RevokeAnytime(c, p) ==             \* a rebalance does not wait for the poll
    /\ owner[p] = c
    /\ Spend("revoke")
    /\ owner' = [owner EXCEPT ![p] = NoOwner]
    /\ UNCHANGED <<log, committed, position, pc, stop, inflight, redis,
                   written, failed>>

PollAutoCommit(c, p) ==            \* enable.auto.commit
    /\ pc[c] = "polling"
    /\ ~stop[c]
    /\ owner[p] = c
    /\ position[p] < Len(log[p])
    /\ inflight' = [inflight EXCEPT ![c] = [part |-> p, off |-> position[p]]]
    /\ position' = [position EXCEPT ![p] = @ + 1]
    /\ committed' = [committed EXCEPT ![p] = position[p] + 1]
    /\ pc' = [pc EXCEPT ![c] = "processing"]
    /\ UNCHANGED <<log, owner, stop, redis, written, failed, used>>

ProcessMalformedRaises(c) ==       \* no except clause: the process dies
    /\ pc[c] = "processing"
    /\ ~Valid(inflight[c])
    /\ pc' = [pc EXCEPT ![c] = "down"]
    /\ inflight' = [inflight EXCEPT ![c] = NoEvent]
    /\ Leave(c)
    /\ UNCHANGED <<log, committed, position, stop, redis, written, failed, used>>

CommitNothing(c) ==                \* commits are left for later
    /\ pc[c] = "committing"
    /\ owner[inflight[c].part] = c
    /\ pc' = [pc EXCEPT ![c] = "polling"]
    /\ inflight' = [inflight EXCEPT ![c] = NoEvent]
    /\ UNCHANGED <<log, committed, owner, position, stop, redis, written,
                   failed, used>>

CommitUnfenced(c) ==               \* the group takes an evicted member's commit
    /\ pc[c] = "committing"
    /\ owner[inflight[c].part] # c
    /\ committed' = [committed EXCEPT ![inflight[c].part] = inflight[c].off + 1]
    /\ pc' = [pc EXCEPT ![c] = "polling"]
    /\ inflight' = [inflight EXCEPT ![c] = NoEvent]
    /\ UNCHANGED <<log, owner, position, stop, redis, written, failed, used>>

ExitWhenIdle(c) ==                 \* looks at the stop event only when idle
    /\ pc[c] = "polling"
    /\ stop[c]
    /\ \A p \in Owned(c) : position[p] = Len(log[p])
    /\ pc' = [pc EXCEPT ![c] = "stopped"]
    /\ Leave(c)
    /\ UNCHANGED <<log, committed, position, stop, inflight, redis, written,
                   failed, used>>

-----------------------------------------------------------------------------
(* The environment: producers, Redis expiry, the group coordinator, Docker. *)

Produce(p, m) ==
    /\ Len(log[p]) < MaxLog
    /\ m \in Keys => PartitionOf[m] = p
    /\ log' = [log EXCEPT ![p] = Append(@, m)]
    /\ UNCHANGED <<committed, owner, position, pc, stop, inflight, redis,
                   written, failed, used>>

Expire(k) ==
    /\ redis[k] # Absent
    /\ redis' = [redis EXCEPT ![k] = Absent]
    /\ UNCHANGED <<log, committed, owner, position, pc, stop, inflight,
                   written, failed, used>>

(* The new owner starts at the committed offset; auto.offset.reset is      *)
(* "earliest", so a partition without a commit starts at 0.                *)
Assign(c, p) ==
    /\ pc[c] = "polling"
    /\ owner[p] = NoOwner
    /\ owner' = [owner EXCEPT ![p] = c]
    /\ position' = [position EXCEPT ![p] = committed[p]]
    /\ UNCHANGED <<log, committed, pc, stop, inflight, redis, written,
                   failed, used>>

(* A rebalance takes a partition away: the member gives it up in its poll. *)
Revoke(c, p) ==
    /\ pc[c] = "polling"
    /\ owner[p] = c
    /\ Spend("revoke")
    /\ owner' = [owner EXCEPT ![p] = NoOwner]
    /\ UNCHANGED <<log, committed, position, pc, stop, inflight, redis,
                   written, failed>>

(* max.poll.interval.ms or session.timeout.ms passes while the process is  *)
(* busy or cut off: the group reassigns its partitions, it does not know.  *)
Evict(c) ==
    /\ pc[c] \in {"polling", "processing", "committing"}
    /\ Owned(c) # {}
    /\ Spend("evict")
    /\ owner' = [p \in Partitions |-> IF owner[p] = c THEN NoOwner ELSE owner[p]]
    /\ UNCHANGED <<log, committed, position, pc, stop, inflight, redis,
                   written, failed>>

(* The process is killed: its partitions stay with it until the session    *)
(* times out.                                                              *)
Crash(c) ==
    /\ pc[c] \in {"polling", "processing", "committing"}
    /\ Spend("crash")
    /\ pc' = [pc EXCEPT ![c] = "down"]
    /\ inflight' = [inflight EXCEPT ![c] = NoEvent]
    /\ owner' = [p \in Partitions |-> IF owner[p] = c THEN Ghost ELSE owner[p]]
    /\ UNCHANGED <<log, committed, position, stop, redis, written, failed>>

SessionTimeout(p) ==
    /\ owner[p] = Ghost
    /\ owner' = [owner EXCEPT ![p] = NoOwner]
    /\ UNCHANGED <<log, committed, position, pc, stop, inflight, redis,
                   written, failed, used>>

(* restart: on-failure, which does not apply to a container that was told  *)
(* to stop.                                                                *)
Restart(c) ==
    /\ pc[c] = "down"
    /\ ~stop[c]
    /\ pc' = [pc EXCEPT ![c] = "polling"]
    /\ UNCHANGED <<log, committed, owner, position, stop, inflight, redis,
                   written, failed, used>>

(* An operator starts a stopped container again: a new process, and a new  *)
(* stop event.                                                             *)
Redeploy(c) ==
    /\ pc[c] \in {"down", "stopped"}
    /\ stop[c]
    /\ pc' = [pc EXCEPT ![c] = "polling"]
    /\ stop' = [stop EXCEPT ![c] = FALSE]
    /\ UNCHANGED <<log, committed, owner, position, inflight, redis, written,
                   failed, used>>

-----------------------------------------------------------------------------
(* The consumer. *)

(* SIGTERM or SIGINT: the handler sets the stop event, in any statement.   *)
Signal(c) ==
    /\ pc[c] \in {"polling", "processing", "committing"}
    /\ ~stop[c]
    /\ Spend("signal")
    /\ stop' = [stop EXCEPT ![c] = TRUE]
    /\ UNCHANGED <<log, committed, owner, position, pc, inflight, redis,
                   written, failed>>

(* poll() returns None or an error: the loop goes round and nothing        *)
(* changes.                                                                *)
PollNothing(c) ==
    /\ pc[c] = "polling"
    /\ ~stop[c]
    /\ UNCHANGED vars

(* poll() returns the next message of a partition.                         *)
Poll(c, p) ==
    /\ pc[c] = "polling"
    /\ ~stop[c]
    /\ owner[p] = c
    /\ position[p] < Len(log[p])
    /\ inflight' = [inflight EXCEPT ![c] = [part |-> p, off |-> position[p]]]
    /\ position' = [position EXCEPT ![p] = @ + 1]
    /\ pc' = [pc EXCEPT ![c] = "processing"]
    /\ UNCHANGED <<log, committed, owner, stop, redis, written, failed, used>>

Store(e) == redis' = [redis EXCEPT ![Content(e)] = e.off]

(* from_json and _write_to_redis succeed.                                  *)
ProcessOk(c) ==
    /\ pc[c] = "processing"
    /\ Valid(inflight[c])
    /\ Store(inflight[c])
    /\ written' = written \union {inflight[c]}
    /\ pc' = [pc EXCEPT ![c] = "committing"]
    /\ UNCHANGED <<log, committed, owner, position, stop, inflight, failed, used>>

(* from_json raises: the message is counted and logged, and the loop goes  *)
(* on to commit it.                                                        *)
ProcessMalformed(c) ==
    /\ pc[c] = "processing"
    /\ ~Valid(inflight[c])
    /\ failed' = failed \union {inflight[c]}
    /\ pc' = [pc EXCEPT ![c] = "committing"]
    /\ UNCHANGED <<log, committed, owner, position, stop, inflight, redis,
                   written, used>>

(* The registry or Redis raises on a valid event: the same except clause   *)
(* swallows it.  A timeout may come after Redis has executed the pipeline. *)
ProcessError(c) ==
    /\ pc[c] = "processing"
    /\ Valid(inflight[c])
    /\ Spend("process")
    /\ Store(inflight[c]) \/ UNCHANGED redis
    /\ failed' = failed \union {inflight[c]}
    /\ pc' = [pc EXCEPT ![c] = "committing"]
    /\ UNCHANGED <<log, committed, owner, position, stop, inflight, written>>

CommitOk(c) ==
    /\ pc[c] = "committing"
    /\ owner[inflight[c].part] = c
    /\ CommitOffsets(c)
    /\ pc' = [pc EXCEPT ![c] = "polling"]
    /\ inflight' = [inflight EXCEPT ![c] = NoEvent]
    /\ UNCHANGED <<log, owner, position, stop, redis, written, failed, used>>

(* commit() raises KafkaException, which ends the process: the member was  *)
(* evicted, or the broker failed the request, perhaps after applying it.   *)
CommitFenced(c) ==
    /\ pc[c] = "committing"
    /\ owner[inflight[c].part] # c
    /\ pc' = [pc EXCEPT ![c] = "down"]
    /\ inflight' = [inflight EXCEPT ![c] = NoEvent]
    /\ Leave(c)
    /\ UNCHANGED <<log, committed, position, stop, redis, written, failed, used>>

CommitError(c) ==
    /\ pc[c] = "committing"
    /\ owner[inflight[c].part] = c
    /\ Spend("commit")
    /\ CommitOffsets(c) \/ UNCHANGED committed
    /\ pc' = [pc EXCEPT ![c] = "down"]
    /\ inflight' = [inflight EXCEPT ![c] = NoEvent]
    /\ Leave(c)
    /\ UNCHANGED <<log, position, stop, redis, written, failed>>

(* The loop finds the stop event set.                                      *)
Exit(c) ==
    /\ pc[c] = "polling"
    /\ stop[c]
    /\ pc' = [pc EXCEPT ![c] = "stopped"]
    /\ Leave(c)
    /\ UNCHANGED <<log, committed, position, stop, inflight, redis, written,
                   failed, used>>

Process(c) == ProcessOk(c) \/ ProcessMalformed(c) \/ ProcessError(c)
Commit(c)  == CommitOk(c) \/ CommitFenced(c) \/ CommitError(c)

Next ==
    \/ \E p \in Partitions, m \in Message : Produce(p, m)
    \/ \E k \in Keys : Expire(k)
    \/ \E p \in Partitions : SessionTimeout(p)
    \/ \E c \in Consumers, p \in Partitions :
          Assign(c, p) \/ Revoke(c, p) \/ Poll(c, p)
    \/ \E c \in Consumers :
          \/ Evict(c) \/ Crash(c) \/ Restart(c) \/ Redeploy(c) \/ Signal(c)
          \/ PollNothing(c) \/ Process(c) \/ Commit(c) \/ Exit(c)

Spec == Init /\ [][Next]_vars

(* Docker restarts what failed, the coordinator assigns what nobody owns,  *)
(* and a live process runs its loop.  Nothing promises a message, a fault, *)
(* a signal, an expiry or a redeployment.                                  *)
Fairness ==
    /\ \A p \in Partitions :
          /\ WF_vars(SessionTimeout(p))
          /\ WF_vars(\E c \in Consumers : Assign(c, p))
    /\ \A c \in Consumers :
          /\ WF_vars(Restart(c))
          /\ WF_vars(\E p \in Partitions : Poll(c, p))
          /\ WF_vars(Process(c))
          /\ WF_vars(Commit(c))
          /\ WF_vars(Exit(c))

FairSpec == Spec /\ Fairness

-----------------------------------------------------------------------------
(* Properties. *)

TypeOK ==
    /\ log \in [Partitions -> Seq(Message)]
    /\ committed \in [Partitions -> Nat]
    /\ owner \in [Partitions -> Consumers \union {NoOwner, Ghost}]
    /\ position \in [Partitions -> Nat]
    /\ pc \in [Consumers -> PCs]
    /\ stop \in [Consumers -> BOOLEAN]
    /\ inflight \in [Consumers -> Event \union {NoEvent}]
    /\ redis \in [Keys -> Nat \union {Absent}]
    /\ written \subseteq Event
    /\ failed \subseteq Event
    /\ used \in [Faults -> Nat]

(* Whatever crashes, evictions and failed commits happened, every message  *)
(* below a committed offset was processed to the end by some consumer: it  *)
(* was counted as processed or logged as failed (_run commits after        *)
(* _process_message).                                                      *)
CommittedIsHandled ==
    \A p \in Partitions : \A o \in 0 .. committed[p] - 1 :
       [part |-> p, off |-> o] \in Handled

(* "Kafka offset committed only after successful Redis write": every valid *)
(* message below a committed offset was written to Redis.                  *)
CommittedIsWritten ==
    \A p \in Partitions : \A o \in 0 .. committed[p] - 1 :
       log[p][o + 1] # Malformed => [part |-> p, off |-> o] \in written

(* Committing after every message leaves at most one handled message per   *)
(* partition to be delivered again, whoever handled it, and the owner of a *)
(* partition never works past the first uncommitted offset.                *)
OneUncommitted ==
    /\ \A e \in Handled : e.off <= committed[e.part]
    /\ \A c \in Consumers :
          inflight[c] # NoEvent =>
             /\ inflight[c].off <= committed[inflight[c].part]
             /\ owner[inflight[c].part] = c =>
                   inflight[c].off = committed[inflight[c].part]

Disruptions == used["crash"] + used["evict"] + used["commit"]

(* Rebalances and graceful stops redeliver nothing: a message handled      *)
(* before is polled again only after a crash, an eviction or a failed      *)
(* commit.                                                                 *)
RedeliveryNeedsDisruption ==
    [][\A c \in Consumers :
          inflight'[c] # inflight[c] /\ inflight'[c] \in Handled
             => Disruptions > 0]_vars

(* Last write wins: _write_to_redis compares no timestamps, so a key can   *)
(* go back to an older event than one already handled for it; only a       *)
(* consumer that lost the partition while it held the message does that.   *)
OnlyZombiesGoBack ==
    [][\A k \in Keys, e \in Handled :
          Content(e) = k /\ redis'[k] # redis[k] /\ redis'[k] # Absent
             /\ redis'[k] < e.off =>
                \E c \in Consumers :
                   /\ inflight[c] = [part |-> e.part, off |-> redis'[k]]
                   /\ owner[e.part] # c]_vars

(* Where no consumer is evicted, a key holds the newest event written for  *)
(* it, or nothing: redelivery after a crash or a failed commit repeats the *)
(* newest event and never an older one.                                    *)
NewestWins ==
    used["evict"] = 0 =>
       \A e \in written :
          redis[Content(e)] # Absent => e.off <= redis[Content(e)]

Delivery == INSTANCE AtLeastOnceDelivery WITH handled <- Handled

(* The group of processes implements at-least-once delivery in order.      *)
ImplementsDelivery == Delivery!Spec

Drained    == \A p \in Partitions : committed[p] = Len(log[p])
AllStopped == \A c \in Consumers : stop[c] /\ pc[c] \in {"down", "stopped"}

(* Poison messages, crashes, fenced commits and rebalances never wedge the *)
(* group: it commits every message there is, unless every consumer was     *)
(* told to stop.                                                           *)
EventuallyDrained == <>[](Drained \/ AllStopped)

(* A consumer that is told to stop does, one way or the other.             *)
StopTerminates ==
    \A c \in Consumers : stop[c] ~> pc[c] \in {"down", "stopped"}
=============================================================================
