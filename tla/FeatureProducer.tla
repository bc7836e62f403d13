-------------------------- MODULE FeatureProducer --------------------------
(***************************************************************************)
(* feature_store/producer.py: threads that share one FeatureProducer call  *)
(* publish, publish_batch, flush and close.  Beneath it are librdkafka's   *)
(* bounded buffer, which counts a message until its delivery report has    *)
(* been served, and the brokers, which with acks=all and idempotence       *)
(* append each partition's messages in order and once, or fail them.       *)
(***************************************************************************)
EXTENDS Naturals, Sequences, FiniteSets

CONSTANTS
    Threads,
    Partitions,     \* where the key of an event sends it
    Capacity,       \* queue.buffering.max.messages
    MaxRetries,     \* max_retries
    Calls,          \* bound: how many events each thread publishes
    MaxRaises       \* bound: exceptions out of a caller's on_delivery

ASSUME PartitionsAssumption == Partitions # {}
ASSUME CapacityAssumption == Capacity \in Nat \ {0}
ASSUME RetriesAssumption  == MaxRetries \in Nat
ASSUME BoundAssumption    == Calls \in [Threads -> Nat] /\ MaxRaises \in Nat

(* An event is named by the thread that publishes it and that thread's     *)
(* count of calls; a message is one attempt to produce it.                 *)
EventId == UNION {[by : {t}, n : 1 .. Calls[t]] : t \in Threads}
Message ==
    UNION {[by : {t}, n : 1 .. Calls[t], part : Partitions,
            attempt : 0 .. MaxRetries] : t \in Threads}
EventOf(m) == [by |-> m.by, n |-> m.n]
PCs == {"idle", "producing", "polling", "flushing", "closing"}

VARIABLES
    pc,         \* where a thread is in publish, flush or close
    called,     \* how many events it has tried to publish
    part,       \* the partition of the event in hand
    retries,    \* retry_count
    queue,      \* per partition, the messages not yet sent, oldest first
    acked,      \* delivery reports not served yet
    topic,      \* per partition, the log
    accepted,   \* per partition, what produce() took (history)
    returned,   \* events whose publish returned (history)
    raised,     \* events whose publish raised an exception (history)
    disturbed,  \* events in whose publish a callback raised (history)
    raises      \* how often on_delivery has raised

threadVars == <<pc, called, part, retries>>
brokerVars == <<queue, topic>>
outcomes == <<returned, raised, disturbed, raises>>
vars == <<threadVars, brokerVars, acked, accepted, outcomes>>

Elements(s) == {s[i] : i \in 1 .. Len(s)}
Accepted == UNION {Elements(accepted[p]) : p \in Partitions}

(* What the buffer holds: what flush returns the number of.                *)
Queued == UNION {Elements(queue[p]) : p \in Partitions}
Outstanding == Queued \union Elements(acked)

Event(t) == [by |-> t, n |-> called[t]]
Attempt(t) ==
    [by |-> t, n |-> called[t], part |-> part[t], attempt |-> retries[t]]

Init ==
    /\ pc = [t \in Threads |-> "idle"]
    /\ called = [t \in Threads |-> 0]
    /\ part = [t \in Threads |-> CHOOSE p \in Partitions : TRUE]
    /\ retries = [t \in Threads |-> 0]
    /\ queue = [p \in Partitions |-> << >>]
    /\ acked = << >>
    /\ topic = [p \in Partitions |-> << >>]
    /\ accepted = [p \in Partitions |-> << >>]
    /\ returned = {}
    /\ raised = {}
    /\ disturbed = {}
    /\ raises = 0

-----------------------------------------------------------------------------
GoTo(t, l) == pc' = [pc EXCEPT ![t] = l]

HasRoom == Cardinality(Outstanding) < Capacity

(* The delivery reports at the front of the queue of callbacks are served, *)
(* to whichever thread polls or flushes.                                   *)
Serve(k) == acked' = SubSeq(acked, k + 1, Len(acked))

(* One of the callbacks served raises: those behind it wait.               *)
ServeRaising ==
    /\ raises < MaxRaises
    /\ raises' = raises + 1
    /\ \E k \in 1 .. Len(acked) : Serve(k)

(* Faulty variants of the definitions below. *)

AgainOnceMore(t) == retries[t] <= MaxRetries + 1

ProduceFullUncounted(t) ==                       \* the retry is not counted
    /\ pc[t] = "producing" /\ ~HasRoom
    /\ GoTo(t, "flushing")
    /\ UNCHANGED <<called, part, retries, brokerVars, acked, accepted, outcomes>>

PollNoReturn(t) ==                               \* the loop goes on
    /\ pc[t] = "polling"
    /\ Serve(Len(acked))
    /\ GoTo(t, "producing")
    /\ returned' = returned \union {Event(t)}
    /\ UNCHANGED <<called, part, retries, brokerVars, accepted, raised, disturbed,
                   raises>>

FlushEndSilent(t) ==                             \* no raise after the loop
    /\ pc[t] = "flushing"
    /\ IF retries[t] <= MaxRetries
         THEN GoTo(t, "producing") /\ UNCHANGED returned
         ELSE GoTo(t, "idle") /\ returned' = returned \union {Event(t)}
    /\ UNCHANGED <<called, part, retries, brokerVars, acked, accepted, raised,
                   disturbed, raises>>

CallbackRetriesUncounted(t) ==                   \* the retry is not counted
    /\ pc[t] = "polling"
    /\ ServeRaising
    /\ disturbed' = disturbed \union {Event(t)}
    /\ GoTo(t, "flushing")
    /\ UNCHANGED <<called, part, retries, brokerVars, accepted, returned, raised>>

-----------------------------------------------------------------------------
(* Threads. *)

(* publish, by itself or as the next element of a batch, from entry to the *)
(* while loop.                                                             *)
Call(t, p) ==
    /\ pc[t] = "idle" /\ called[t] < Calls[t]
    /\ GoTo(t, "producing")
    /\ called' = [called EXCEPT ![t] = @ + 1]
    /\ part' = [part EXCEPT ![t] = p]
    /\ retries' = [retries EXCEPT ![t] = 0]
    /\ UNCHANGED <<brokerVars, acked, accepted, outcomes>>

Produce(t) ==
    /\ pc[t] = "producing" /\ HasRoom
    /\ GoTo(t, "polling")
    /\ queue' = [queue EXCEPT ![part[t]] = Append(@, Attempt(t))]
    /\ accepted' = [accepted EXCEPT ![part[t]] = Append(@, Attempt(t))]
    /\ UNCHANGED <<called, part, retries, acked, topic, outcomes>>

(* Any other error of produce(), such as a message that is too large,      *)
(* leaves publish at once; publish_batch goes on with its next event.      *)
ProduceFails(t) ==
    /\ pc[t] = "producing"
    /\ GoTo(t, "idle")
    /\ raised' = raised \union {Event(t)}
    /\ UNCHANGED <<called, part, retries, brokerVars, acked, accepted, returned,
                   disturbed, raises>>

(* BufferError: retry_count += 1 and flush(timeout=5).                     *)
Retry(t) ==
    /\ GoTo(t, "flushing")
    /\ retries' = [retries EXCEPT ![t] = @ + 1]
    /\ UNCHANGED <<called, part, brokerVars, accepted, returned, raised>>

ProduceFull(t) ==
    /\ pc[t] = "producing" /\ ~HasRoom
    /\ Retry(t)
    /\ UNCHANGED <<acked, disturbed, raises>>

(* poll(0) serves what is there and publish returns.                       *)
Poll(t) ==
    /\ pc[t] = "polling"
    /\ Serve(Len(acked))
    /\ GoTo(t, "idle")
    /\ returned' = returned \union {Event(t)}
    /\ UNCHANGED <<called, part, retries, brokerVars, accepted, raised, disturbed,
                   raises>>

(* poll(0) is in the same try as produce(): a BufferError of a caller's    *)
(* on_delivery is taken for a full buffer, and the event, which is in the  *)
(* buffer, is produced again.                                              *)
CallbackRetries(t) ==
    /\ pc[t] = "polling"
    /\ ServeRaising
    /\ disturbed' = disturbed \union {Event(t)}
    /\ Retry(t)

(* Any other exception of a callback in poll, and any at all in the flush  *)
(* of a retry, which is in the except clause, comes out of publish.        *)
CallbackEscapes(t) ==
    /\ pc[t] \in {"polling", "flushing"}
    /\ ServeRaising
    /\ disturbed' = disturbed \union {Event(t)}
    /\ raised' = raised \union {Event(t)}
    /\ GoTo(t, "idle")
    /\ UNCHANGED <<called, part, retries, brokerVars, accepted, returned>>

FlushSome(t) ==
    /\ pc[t] \in {"flushing", "closing"} /\ acked # << >>
    /\ Serve(Len(acked))
    /\ UNCHANGED <<threadVars, brokerVars, accepted, outcomes>>

Again(t) == retries[t] <= MaxRetries

(* The flush of a retry ends, with the buffer empty or after its five      *)
(* seconds; after the sleep the loop goes on, or publish gives up.         *)
FlushEnd(t) ==
    /\ pc[t] = "flushing"
    /\ IF Again(t)
         THEN GoTo(t, "producing") /\ UNCHANGED raised
         ELSE GoTo(t, "idle") /\ raised' = raised \union {Event(t)}
    /\ UNCHANGED <<called, part, retries, brokerVars, acked, accepted, returned,
                   disturbed, raises>>

(* flush() of the caller's, or the one in close().                         *)
Close(t) ==
    /\ pc[t] = "idle"
    /\ GoTo(t, "closing")
    /\ UNCHANGED <<called, part, retries, brokerVars, acked, accepted, outcomes>>

(* It returns, or the exception of a callback comes out of it.             *)
CloseEnd(t) ==
    /\ pc[t] = "closing"
    /\ GoTo(t, "idle")
    /\ \/ UNCHANGED <<acked, raises>>
       \/ ServeRaising
    /\ UNCHANGED <<called, part, retries, brokerVars, accepted, returned, raised,
                   disturbed>>

-----------------------------------------------------------------------------
(* librdkafka and the brokers.  The process may end at any point: its      *)
(* threads then take no more steps, and a request on the wire may still be *)
(* appended.                                                               *)

Settle(p) ==
    /\ queue[p] # << >>
    /\ queue' = [queue EXCEPT ![p] = Tail(@)]
    /\ acked' = Append(acked, Head(queue[p]))
    /\ UNCHANGED <<threadVars, accepted, outcomes>>

Deliver(p) ==
    /\ Settle(p)
    /\ topic' = [topic EXCEPT ![p] = Append(@, Head(queue[p]))]

(* The retries are exhausted.                                              *)
DeliveryFails(p) == Settle(p) /\ UNCHANGED topic

-----------------------------------------------------------------------------
Publish(t) ==
    \/ Produce(t) \/ ProduceFails(t) \/ ProduceFull(t)
    \/ Poll(t) \/ CallbackRetries(t) \/ CallbackEscapes(t) \/ FlushEnd(t)

Next ==
    \/ \E t \in Threads :
          \/ \E p \in Partitions : Call(t, p)
          \/ Publish(t) \/ FlushSome(t)
          \/ Close(t) \/ CloseEnd(t)
    \/ \E p \in Partitions : Deliver(p) \/ DeliveryFails(p)

Spec == Init /\ [][Next]_vars

(* Every call in publish returns: produce and poll(0) do not block, flush  *)
(* has a timeout and the sleep is short.  Nothing is assumed of brokers.   *)
FairSpec == Spec /\ \A t \in Threads : WF_vars(Publish(t))

-----------------------------------------------------------------------------
(* Properties. *)

TypeOK ==
    /\ pc \in [Threads -> PCs]
    /\ called \in [Threads -> Nat] /\ \A t \in Threads : called[t] <= Calls[t]
    /\ part \in [Threads -> Partitions]
    /\ retries \in [Threads -> 0 .. MaxRetries + 1]
    /\ queue \in [Partitions -> Seq(Message)]
    /\ acked \in Seq(Message)
    /\ topic \in [Partitions -> Seq(Message)]
    /\ accepted \in [Partitions -> Seq(Message)]
    /\ returned \subseteq EventId
    /\ raised \subseteq EventId
    /\ disturbed \subseteq EventId
    /\ raises \in 0 .. MaxRaises

(* "Raises KafkaException if the internal Kafka queue is full": an event   *)
(* whose publish raised was not sent and never is, so that the caller may  *)
(* publish it again, unless the exception, or one publish swallowed before *)
(* it, was a callback's; an event whose publish returned was accepted.     *)
RaiseMeansNotSent ==
    /\ \A m \in Accepted : EventOf(m) \in raised => EventOf(m) \in disturbed
    /\ \A e \in returned : \E m \in Accepted : EventOf(m) = e

(* publish hands the same event to the buffer twice only if a callback     *)
(* raised in between, each time at a later attempt (hence MaxRetries + 1   *)
(* times at most) and for the same partition: its retries against a full   *)
(* buffer, of which it has as many, repeat nothing.                        *)
RepeatsNeedCallbacks ==
    \A p, q \in Partitions :
       \A i \in 1 .. Len(accepted[p]), j \in 1 .. Len(accepted[q]) :
          LET a == accepted[p][i]
              b == accepted[q][j]
          IN  EventOf(a) = EventOf(b) /\ <<p, i>> # <<q, j>> =>
                 p = q /\ a.attempt # b.attempt /\ EventOf(a) \in disturbed

(* An attempt is in the topic at most once and behind every earlier one of *)
(* its thread there, whatever retries and timeouts publish went through.   *)
Channel == INSTANCE LossyChannel WITH
    sent <- accepted,
    done <- [p \in Partitions |-> Len(accepted[p]) - Len(queue[p])]

ImplementsChannel == Channel!Spec

(* publish always comes back, returning or raising, however full the       *)
(* buffer stays and however long the brokers are away.                     *)
PublishReturns ==
    \A t \in Threads : pc[t] \in {"producing", "polling", "flushing"} ~> pc[t] = "idle"

(* "prevents duplicate messages on retry": no event is in the topic twice. *)
EachEventOnce ==
    \A p \in Partitions : \A i, j \in 1 .. Len(topic[p]) :
       EventOf(topic[p][i]) = EventOf(topic[p][j]) => i = j
=============================================================================
