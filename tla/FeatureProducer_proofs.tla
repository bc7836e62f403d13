----------------------- MODULE FeatureProducer_proofs -----------------------
(***************************************************************************)
(* Proofs about FeatureProducer, for any threads, partitions, buffer size  *)
(* and number of retries: what an exception of publish says of its event,  *)
(* when an event is sent twice, and that the topic receives every attempt  *)
(* at most once and in order (LossyChannel).                               *)
(***************************************************************************)
EXTENDS FeatureProducer, SequenceTheorems, TLAPS

(* What a thread knows of the event in its hand: of its messages in the    *)
(* buffer, all are of earlier attempts, which callbacks have disturbed,    *)
(* but for the one it polls after.                                         *)
Publishing(t) == pc[t] \in {"producing", "polling", "flushing"}
Held(t) ==
    Publishing(t) =>
       /\ called[t] >= 1
       /\ Event(t) \notin raised
       /\ pc[t] # "flushing" => retries[t] <= MaxRetries
       /\ pc[t] = "polling" => Attempt(t) \in Accepted
       /\ \A m \in Accepted : EventOf(m) = Event(t) =>
             /\ m.part = part[t]
             /\ \/ m.attempt < retries[t] /\ Event(t) \in disturbed
                \/ pc[t] = "polling" /\ m = Attempt(t)
InHand == \A t \in Threads : Held(t)

Numbered ==
    /\ \A m \in Accepted : m.n <= called[m.by]
    /\ \A e \in raised : e.n <= called[e.by]

Placed == \A p \in Partitions : \A m \in Elements(accepted[p]) : m.part = p

(* What is not sent is the end of what was accepted.                       *)
QueueIsSuffix ==
    \A p \in Partitions :
       /\ Len(queue[p]) <= Len(accepted[p])
       /\ \A i \in 1 .. Len(queue[p]) :
             queue[p][i] = accepted[p][Len(accepted[p]) - Len(queue[p]) + i]

(* RepeatsNeedCallbacks of any log, and the order of a thread's messages.  *)
Repeats(log) ==
    \A p, q \in Partitions : \A i \in 1 .. Len(log[p]), j \in 1 .. Len(log[q]) :
       EventOf(log[p][i]) = EventOf(log[q][j]) /\ <<p, i>> # <<q, j>> =>
          /\ p = q
          /\ log[p][i].attempt # log[q][j].attempt
          /\ EventOf(log[p][i]) \in disturbed
InOrder(log) ==
    \A p \in Partitions : \A i, j \in 1 .. Len(log[p]) :
       i < j /\ log[p][i].by = log[p][j].by => Channel!Before(log[p][i], log[p][j])

IInv ==
    /\ TypeOK
    /\ InHand
    /\ Numbered
    /\ Placed
    /\ QueueIsSuffix
    /\ RaiseMeansNotSent
    /\ Repeats(accepted)
    /\ InOrder(accepted)

-----------------------------------------------------------------------------
(* The elements of a sequence. *)

LEMMA ElementsOfAppend ==
    ASSUME NEW S, NEW s \in Seq(S), NEW e \in S
    PROVE  Elements(Append(s, e)) = Elements(s) \union {e}
<1>1. /\ Len(s) \in Nat /\ Len(Append(s, e)) = Len(s) + 1
      /\ \A i \in 1 .. Len(s) : Append(s, e)[i] = s[i]
      /\ Append(s, e)[Len(s) + 1] = e
  OBVIOUS
<1>2. 1 .. Len(s) + 1 = (1 .. Len(s)) \union {Len(s) + 1}
  BY <1>1
<1> QED
  BY <1>1, <1>2 DEF Elements

LEMMA ElementsOfTail ==
    ASSUME NEW S, NEW s \in Seq(S), s # << >>
    PROVE  /\ Tail(s) \in Seq(S) /\ Head(s) \in S
           /\ Elements(s) = {Head(s)} \union Elements(Tail(s))
<1>1. /\ Len(s) \in Nat \ {0} /\ Head(s) = s[1] /\ Head(s) \in S
      /\ Tail(s) \in Seq(S) /\ Len(Tail(s)) = Len(s) - 1
      /\ \A i \in 1 .. Len(s) - 1 : Tail(s)[i] = s[i + 1]
  OBVIOUS
<1>2. \A i \in 1 .. Len(s) : i = 1 \/ (i - 1 \in 1 .. Len(s) - 1 /\ (i - 1) + 1 = i)
  BY <1>1
<1>3. \A i \in 1 .. Len(s) - 1 : i + 1 \in 1 .. Len(s)
  BY <1>1
<1>4. Elements(s) \subseteq {Head(s)} \union Elements(Tail(s))
  <2> SUFFICES ASSUME NEW i \in 1 .. Len(s)
               PROVE  s[i] \in {Head(s)} \union Elements(Tail(s))
    BY DEF Elements
  <2>1. CASE i = 1
    BY <1>1, <2>1
  <2>2. CASE i - 1 \in 1 .. Len(s) - 1 /\ (i - 1) + 1 = i
    <3>1. Tail(s)[i - 1] = s[i]
      BY <1>1, <2>2
    <3> QED
      BY <1>1, <2>2, <3>1 DEF Elements
  <2> QED
    BY <1>2, <2>1, <2>2
<1>5. {Head(s)} \union Elements(Tail(s)) \subseteq Elements(s)
  BY <1>1, <1>3 DEF Elements
<1> QED
  BY <1>1, <1>4, <1>5

LEMMA TailOfReports ==
    ASSUME NEW S, NEW s \in Seq(S), NEW k \in 0 .. Len(s)
    PROVE  SubSeq(s, k + 1, Len(s)) \in Seq(S)
<1>1. \A i \in k + 1 .. Len(s) : s[i] \in S
  OBVIOUS
<1> QED
  BY <1>1, SubSeqProperties

-----------------------------------------------------------------------------
(* What the invariant says of messages. *)

LEMMA MessageFields ==
    ASSUME NEW m \in Message
    PROVE  /\ m.by \in Threads /\ m.n \in Nat /\ m.part \in Partitions
           /\ m.attempt \in Nat /\ EventOf(m) \in EventId
<1>1. PICK t \in Threads :
         m \in [by : {t}, n : 1 .. Calls[t], part : Partitions, attempt : 0 .. MaxRetries]
  BY DEF Message
<1>2. Calls[t] \in Nat /\ MaxRetries \in Nat
  BY BoundAssumption, RetriesAssumption
<1>3. m.by = t /\ m.n \in 1 .. Calls[t] /\ m.part \in Partitions /\ m.attempt \in 0 .. MaxRetries
  BY <1>1
<1>4. EventOf(m) \in [by : {t}, n : 1 .. Calls[t]]
  BY <1>3 DEF EventOf
<1> QED
  BY <1>2, <1>3, <1>4 DEF EventId

LEMMA SameEvent ==
    ASSUME NEW m, NEW t \in Threads
    PROVE  /\ EventOf(m) = Event(t) <=> m.by = t /\ m.n = called[t]
           /\ EventOf(Attempt(t)) = Event(t)
           /\ Attempt(t).by = t /\ Attempt(t).n = called[t]
           /\ Attempt(t).part = part[t] /\ Attempt(t).attempt = retries[t]
<1>1. EventOf(m) = Event(t) => m.by = t /\ m.n = called[t]
  <2>1. EventOf(m).by = m.by /\ EventOf(m).n = m.n
        /\ Event(t).by = t /\ Event(t).n = called[t]
    BY DEF EventOf, Event
  <2> QED
    BY <2>1
<1>2. m.by = t /\ m.n = called[t] => EventOf(m) = Event(t)
  BY DEF EventOf, Event
<1>3. /\ Attempt(t).by = t /\ Attempt(t).n = called[t]
      /\ Attempt(t).part = part[t] /\ Attempt(t).attempt = retries[t]
  BY DEF Attempt
<1>4. EventOf(Attempt(t)) = Event(t)
  BY <1>3 DEF EventOf, Event
<1> QED
  BY <1>1, <1>2, <1>3, <1>4

LEMMA AcceptedAreMessages ==
    ASSUME TypeOK
    PROVE  Accepted \subseteq Message
<1>1. \A s \in Seq(Message) : Elements(s) \subseteq Message
  BY DEF Elements
<1>2. \A p \in Partitions : Elements(accepted[p]) \subseteq Message
  BY <1>1 DEF TypeOK
<1> QED
  BY <1>2 DEF Accepted

LEMMA EventTypes ==
    ASSUME TypeOK, NEW t \in Threads, Publishing(t), Held(t)
    PROVE  /\ Event(t) \in EventId
           /\ pc[t] # "flushing" => Attempt(t) \in Message
<1>1. called[t] \in 1 .. Calls[t]
  BY BoundAssumption DEF TypeOK, Held
<1>2. Event(t) \in [by : {t}, n : 1 .. Calls[t]]
  BY <1>1 DEF Event
<1>3. ASSUME pc[t] # "flushing"
      PROVE  Attempt(t) \in [by : {t}, n : 1 .. Calls[t], part : Partitions,
                              attempt : 0 .. MaxRetries]
  <2>1. retries[t] \in 0 .. MaxRetries /\ part[t] \in Partitions
    BY <1>3, RetriesAssumption DEF TypeOK, Held
  <2> QED
    BY <1>1, <2>1 DEF Attempt
<1> QED
  BY <1>2, <1>3 DEF EventId, Message

LEMMA InitIInv == Init => IInv
<1> SUFFICES ASSUME Init PROVE IInv
  OBVIOUS
<1>1. (CHOOSE p \in Partitions : TRUE) \in Partitions
  BY PartitionsAssumption
<1>2. Elements(<< >>) = {} /\ << >> \in Seq(Message) /\ Len(<< >>) = 0
  BY DEF Elements
<1>3. Accepted = {} /\ \A p \in Partitions : \A i \in 1 .. Len(accepted[p]) : FALSE
  BY <1>2 DEF Init, Accepted
<1>4. TypeOK
  <2>1. /\ pc \in [Threads -> PCs]
        /\ called \in [Threads -> Nat] /\ \A t \in Threads : called[t] <= Calls[t]
        /\ retries \in [Threads -> 0 .. MaxRetries + 1]
        /\ raises \in 0 .. MaxRaises
    BY BoundAssumption, RetriesAssumption DEF Init, PCs
  <2>2. /\ part \in [Threads -> Partitions]
        /\ queue \in [Partitions -> Seq(Message)]
        /\ topic \in [Partitions -> Seq(Message)]
        /\ accepted \in [Partitions -> Seq(Message)]
        /\ acked \in Seq(Message)
    BY <1>1, <1>2 DEF Init
  <2>3. returned \subseteq EventId /\ raised \subseteq EventId /\ disturbed \subseteq EventId
    BY DEF Init
  <2> QED
    BY <2>1, <2>2, <2>3, Zenon DEF TypeOK
<1>5. InHand
  BY DEF Init, InHand, Held, Publishing
<1>6. QueueIsSuffix /\ Placed
  BY <1>2 DEF Init, QueueIsSuffix, Placed
<1>7. Numbered /\ RaiseMeansNotSent
  BY <1>3 DEF Init, Numbered, RaiseMeansNotSent
<1>8. Repeats(accepted) /\ InOrder(accepted)
  BY <1>3 DEF Repeats, InOrder
<1> QED
  BY <1>4, <1>5, <1>6, <1>7, <1>8 DEF IInv

-----------------------------------------------------------------------------
(* Steps of a thread that accept no message. *)

(* The parts of the invariant that speak of the messages only.             *)
LEMMA NothingAccepted ==
    ASSUME IInv, UNCHANGED <<queue, accepted>>, disturbed \subseteq disturbed'
    PROVE  /\ Accepted' = Accepted
           /\ Placed' /\ QueueIsSuffix' /\ Repeats(accepted)' /\ InOrder(accepted)'
<1>1. Accepted' = Accepted /\ Placed' /\ QueueIsSuffix'
  BY DEF IInv, Accepted, Placed, QueueIsSuffix
<1>2. Repeats(accepted)'
  BY DEF IInv, Repeats
<1>3. InOrder(accepted)'
  BY DEF IInv, InOrder, Channel!Before
<1> QED
  BY <1>1, <1>2, <1>3

(* Another thread's event is none of this one's concern.                   *)
LEMMA HeldByAnother ==
    ASSUME NEW u \in Threads, Held(u),
           NEW t \in Threads, u # t,
           pc'[u] = pc[u], called'[u] = called[u], part'[u] = part[u],
           retries'[u] = retries[u],
           \A e \in raised' : e \in raised \/ e.by = t,
           disturbed \subseteq disturbed',
           Accepted \subseteq Accepted',
           \A m \in Accepted' : m \in Accepted \/ m.by = t
    PROVE  Held(u)'
<1>1. Event(u)' = Event(u) /\ Attempt(u)' = Attempt(u) /\ Event(u).by = u
  BY DEF Event, Attempt
<1>2. \A m \in Accepted' : EventOf(m) = Event(u) => m \in Accepted
  BY SameEvent
<1>3. Event(u) \in raised' => Event(u) \in raised
  BY <1>1
<1> QED
  BY <1>1, <1>2, <1>3 DEF Held, Publishing, EventOf

LEMMA CallStep ==
    ASSUME IInv, NEW t \in Threads, NEW p \in Partitions, Call(t, p)
    PROVE  IInv'
<1>1. UNCHANGED <<queue, topic, acked, accepted, returned, raised, disturbed, raises>>
  BY DEF Call, brokerVars, outcomes
<1>2. /\ Accepted' = Accepted
      /\ Placed' /\ QueueIsSuffix' /\ Repeats(accepted)' /\ InOrder(accepted)'
  BY <1>1, NothingAccepted
<1>3. /\ called' = [called EXCEPT ![t] = @ + 1]
      /\ called[t] \in Nat /\ called[t] < Calls[t]
  BY DEF Call, IInv, TypeOK
<1>4. TypeOK'
  <2>1. /\ (pc \in [Threads -> PCs])'
        /\ (part \in [Threads -> Partitions])'
        /\ (retries \in [Threads -> 0 .. MaxRetries + 1])'
    BY RetriesAssumption DEF Call, GoTo, IInv, TypeOK, PCs
  <2>2. (called \in [Threads -> Nat] /\ \A u \in Threads : called[u] <= Calls[u])'
    <3>1. called \in [Threads -> Nat] /\ \A u \in Threads : called[u] <= Calls[u]
      BY DEF IInv, TypeOK
    <3>2. Calls \in [Threads -> Nat]
      BY BoundAssumption
    <3> QED
      BY <1>3, <3>1, <3>2
  <2> QED
    BY <1>1, <2>1, <2>2, Zenon DEF IInv, TypeOK
<1>5. \A m \in Accepted : m.by \in Threads /\ m.n \in Nat /\ m.n <= called[m.by]
  BY AcceptedAreMessages, MessageFields DEF IInv, Numbered
<1>6. \A e \in raised : e.by \in Threads /\ e.n \in Nat /\ e.n <= called[e.by]
  <2>1. ASSUME NEW e \in raised PROVE e.by \in Threads /\ e.n \in Nat
    <3>1. PICK u \in Threads : e \in [by : {u}, n : 1 .. Calls[u]]
      BY <2>1 DEF IInv, TypeOK, EventId
    <3>2. Calls[u] \in Nat
      BY BoundAssumption
    <3> QED
      BY <3>1, <3>2
  <2> QED
    BY <2>1 DEF IInv, Numbered
<1>7. Numbered'
  <2>1. \A u \in Threads : called[u] \in Nat /\ called[u] <= called'[u]
    BY <1>3 DEF IInv, TypeOK
  <2>2. \A m \in Accepted : m.n <= called'[m.by]
    <3> SUFFICES ASSUME NEW m \in Accepted PROVE m.n <= called'[m.by]
      OBVIOUS
    <3>1. m.n \in Nat /\ m.n <= called[m.by] /\ called[m.by] \in Nat
          /\ called[m.by] <= called'[m.by] /\ called'[m.by] \in Nat
      BY <1>4, <1>5, <2>1 DEF TypeOK
    <3> QED
      BY <3>1
  <2>3. \A e \in raised : e.n <= called'[e.by]
    <3> SUFFICES ASSUME NEW e \in raised PROVE e.n <= called'[e.by]
      OBVIOUS
    <3>1. e.n \in Nat /\ e.n <= called[e.by] /\ called[e.by] \in Nat
          /\ called[e.by] <= called'[e.by] /\ called'[e.by] \in Nat
      BY <1>4, <1>6, <2>1 DEF TypeOK
    <3> QED
      BY <3>1
  <2> QED
    BY <1>1, <1>2, <2>2, <2>3 DEF Numbered
<1>8. InHand'
  <2> SUFFICES ASSUME NEW u \in Threads PROVE Held(u)'
    BY DEF InHand
  <2>1. CASE u = t
    <3>1. /\ pc'[t] = "producing" /\ retries'[t] = 0
          /\ called'[t] = called[t] + 1 /\ called[t] \in Nat
      BY <1>3 DEF Call, GoTo, IInv, TypeOK
    <3>2. Event(t)'.by = t /\ Event(t)'.n = called[t] + 1
      BY <3>1 DEF Event
    <3>3. \A m \in Accepted : EventOf(m) # Event(t)'
      <4> SUFFICES ASSUME NEW m \in Accepted, EventOf(m) = Event(t)' PROVE FALSE
        OBVIOUS
      <4>1. m.by = t /\ m.n = called[t] + 1
        BY <3>2 DEF EventOf
      <4> QED
        BY <1>5, <3>1, <4>1
    <3>4. Event(t)' \notin raised
      BY <1>6, <3>1, <3>2
    <3> QED
      BY <1>1, <1>2, <2>1, <3>1, <3>3, <3>4, RetriesAssumption DEF Held, Publishing, EventOf
  <2>2. CASE u # t
    <3>1. /\ pc'[u] = pc[u] /\ retries'[u] = retries[u] /\ called'[u] = called[u]
          /\ part'[u] = part[u]
      BY <2>2 DEF Call, GoTo, IInv, TypeOK
    <3>2. Held(u)
      BY DEF IInv, InHand
    <3> QED
      BY <1>1, <1>2, <2>2, <3>1, <3>2, HeldByAnother
  <2> QED
    BY <2>1, <2>2
<1>9. RaiseMeansNotSent'
  BY <1>1, <1>2 DEF IInv, RaiseMeansNotSent, EventOf
<1> QED
  BY <1>2, <1>4, <1>7, <1>8, <1>9 DEF IInv

(* A thread comes out of publish, or goes into flush and out of it.  What  *)
(* it leaves behind is right if what it says of its event is.              *)
LEMMA Leaving ==
    ASSUME IInv, NEW t \in Threads, NEW l \in {"idle", "closing"}, GoTo(t, l),
           UNCHANGED <<called, part, retries, queue, topic, accepted>>,
           acked' \in Seq(Message), raises' \in 0 .. MaxRaises,
           \/ returned' = returned
           \/ Publishing(t) /\ Attempt(t) \in Accepted /\ returned' = returned \union {Event(t)},
           \/ disturbed' = disturbed
           \/ Publishing(t) /\ disturbed' = disturbed \union {Event(t)},
           \/ raised' = raised
           \/ /\ Publishing(t) /\ raised' = raised \union {Event(t)}
              /\ \A m \in Accepted : EventOf(m) = Event(t) => Event(t) \in disturbed'
    PROVE  IInv'
<1>1. /\ Accepted' = Accepted
      /\ Placed' /\ QueueIsSuffix' /\ Repeats(accepted)' /\ InOrder(accepted)'
  BY NothingAccepted
<1>2. Publishing(t) => Event(t) \in EventId
  BY EventTypes DEF IInv, InHand
<1>3. pc' \in [Threads -> PCs] /\ pc'[t] = l /\ \A u \in Threads : u # t => pc'[u] = pc[u]
  BY DEF GoTo, IInv, TypeOK, PCs
<1>4. TypeOK'
  <2>1. returned' \subseteq EventId /\ raised' \subseteq EventId /\ disturbed' \subseteq EventId
    BY <1>2 DEF IInv, TypeOK
  <2> QED
    BY <1>3, <2>1, Zenon DEF IInv, TypeOK
<1>5. InHand'
  <2> SUFFICES ASSUME NEW u \in Threads PROVE Held(u)'
    BY DEF InHand
  <2>1. CASE u = t
    BY <1>3, <2>1 DEF Held, Publishing
  <2>2. CASE u # t
    <3>1. Held(u) /\ Event(t).by = t
      BY DEF IInv, InHand, Event
    <3>2. \A e \in raised' : e \in raised \/ e.by = t
      BY <3>1
    <3>3. disturbed \subseteq disturbed'
      OBVIOUS
    <3> QED
      BY <1>1, <1>3, <2>2, <3>1, <3>2, <3>3, HeldByAnother
  <2> QED
    BY <2>1, <2>2
<1>6. Numbered'
  <2>1. Event(t).by = t /\ Event(t).n = called[t] /\ called[t] \in Nat
    BY DEF Event, IInv, TypeOK
  <2>2. \A e \in raised' : e \in raised \/ e = Event(t)
    OBVIOUS
  <2> QED
    BY <1>1, <2>1, <2>2 DEF IInv, Numbered
<1>7. RaiseMeansNotSent'
  <2>1. \A m \in Accepted : EventOf(m)' = EventOf(m)
    BY DEF EventOf
  <2>2. ASSUME NEW m \in Accepted, EventOf(m) \in raised' PROVE EventOf(m) \in disturbed'
    BY <2>2 DEF IInv, RaiseMeansNotSent
  <2>3. ASSUME NEW e \in returned' PROVE \E m \in Accepted : EventOf(m) = e
    BY <2>3, SameEvent DEF IInv, RaiseMeansNotSent
  <2> QED
    BY <1>1, <2>1, <2>2, <2>3 DEF RaiseMeansNotSent
<1> QED
  BY <1>1, <1>4, <1>5, <1>6, <1>7 DEF IInv

(* What callbacks that are served leave of the reports.                    *)
LEMMA Serving ==
    ASSUME TypeOK
    PROVE  /\ Serve(Len(acked)) => acked' \in Seq(Message)
           /\ ServeRaising => acked' \in Seq(Message) /\ raises' \in 0 .. MaxRaises
<1>1. acked \in Seq(Message) /\ Len(acked) \in Nat /\ raises \in 0 .. MaxRaises
      /\ Len(acked) \in 0 .. Len(acked) /\ 1 .. Len(acked) \subseteq 0 .. Len(acked)
  BY DEF TypeOK
<1>2. \A k \in 0 .. Len(acked) : Serve(k) => acked' \in Seq(Message)
  BY <1>1, TailOfReports DEF Serve
<1>3. ServeRaising => raises' \in 0 .. MaxRaises
  BY <1>1, BoundAssumption DEF ServeRaising
<1> QED
  BY <1>1, <1>2, <1>3 DEF ServeRaising

LEMMA LeaveStep ==
    ASSUME IInv, NEW t \in Threads,
           \/ ProduceFails(t) \/ Poll(t) \/ CallbackEscapes(t)
           \/ FlushEnd(t) /\ ~Again(t)
           \/ Close(t) \/ CloseEnd(t)
    PROVE  IInv'
<1>1. Held(t) /\ TypeOK
  BY DEF IInv, InHand
<1>2. acked \in Seq(Message) /\ raises \in 0 .. MaxRaises
  BY <1>1 DEF TypeOK
<1>3. CASE ProduceFails(t)
  <2>1. /\ GoTo(t, "idle") /\ Publishing(t) /\ raised' = raised \union {Event(t)}
        /\ UNCHANGED <<called, part, retries, queue, topic, accepted>>
        /\ UNCHANGED <<acked, returned, disturbed, raises>> /\ pc[t] = "producing"
    BY <1>3 DEF ProduceFails, brokerVars, Publishing
  <2>2. \A m \in Accepted : EventOf(m) = Event(t) => Event(t) \in disturbed
    BY <1>1, <2>1 DEF Held
  <2> QED
    BY <1>2, <2>1, <2>2, Leaving
<1>4. CASE Poll(t)
  <2>1. /\ GoTo(t, "idle") /\ Publishing(t) /\ returned' = returned \union {Event(t)}
        /\ UNCHANGED <<called, part, retries, queue, topic, accepted>>
        /\ UNCHANGED <<raised, disturbed, raises>> /\ pc[t] = "polling"
        /\ Serve(Len(acked))
    BY <1>4 DEF Poll, brokerVars, Publishing
  <2>2. Attempt(t) \in Accepted
    BY <1>1, <2>1 DEF Held
  <2>3. acked' \in Seq(Message)
    BY <1>1, <2>1, Serving
  <2> QED
    BY <1>2, <2>1, <2>2, <2>3, Leaving
<1>5. CASE CallbackEscapes(t)
  <2>1. /\ GoTo(t, "idle") /\ Publishing(t)
        /\ raised' = raised \union {Event(t)} /\ disturbed' = disturbed \union {Event(t)}
        /\ UNCHANGED <<called, part, retries, queue, topic, accepted>>
        /\ UNCHANGED returned /\ ServeRaising
    BY <1>5 DEF CallbackEscapes, brokerVars, Publishing
  <2>2. acked' \in Seq(Message) /\ raises' \in 0 .. MaxRaises
    BY <1>1, <2>1, Serving
  <2>3. Event(t) \in disturbed'
    BY <2>1
  <2> QED
    BY <2>1, <2>2, <2>3, Leaving
<1>6. CASE FlushEnd(t) /\ ~Again(t)
  <2>1. /\ GoTo(t, "idle") /\ Publishing(t) /\ raised' = raised \union {Event(t)}
        /\ UNCHANGED <<called, part, retries, queue, topic, accepted>>
        /\ UNCHANGED <<acked, returned, disturbed, raises>> /\ pc[t] = "flushing"
    BY <1>6 DEF FlushEnd, brokerVars, Publishing
  <2>2. \A m \in Accepted : EventOf(m) = Event(t) => Event(t) \in disturbed
    BY <1>1, <2>1 DEF Held
  <2> QED
    BY <1>2, <2>1, <2>2, Leaving
<1>7. CASE Close(t)
  <2>1. /\ GoTo(t, "closing")
        /\ UNCHANGED <<called, part, retries, queue, topic, accepted>>
        /\ UNCHANGED <<acked, returned, raised, disturbed, raises>>
    BY <1>7 DEF Close, brokerVars, outcomes
  <2> QED
    BY <1>2, <2>1, Leaving
<1>8. CASE CloseEnd(t)
  <2>1. /\ GoTo(t, "idle")
        /\ UNCHANGED <<called, part, retries, queue, topic, accepted>>
        /\ UNCHANGED <<returned, raised, disturbed>>
        /\ UNCHANGED <<acked, raises>> \/ ServeRaising
    BY <1>8 DEF CloseEnd, brokerVars
  <2>2. acked' \in Seq(Message) /\ raises' \in 0 .. MaxRaises
    BY <1>1, <1>2, <2>1, Serving
  <2> QED
    BY <2>1, <2>2, Leaving
<1> QED
  BY <1>3, <1>4, <1>5, <1>6, <1>7, <1>8

(* A thread goes on trying: what it has in the buffer is now of an earlier *)
(* attempt.                                                                *)
LEMMA RetryStep ==
    ASSUME IInv, NEW t \in Threads,
           \/ ProduceFull(t) \/ CallbackRetries(t)
           \/ FlushEnd(t) /\ Again(t)
           \/ FlushSome(t)
    PROVE  IInv'
<1>1. Held(t) /\ TypeOK /\ called[t] \in Nat /\ retries[t] \in Nat
  BY RetriesAssumption DEF IInv, InHand, TypeOK
<1>2. UNCHANGED <<called, part, queue, topic, accepted, returned, raised>>
  BY DEF ProduceFull, CallbackRetries, Retry, FlushEnd, FlushSome, threadVars, brokerVars,
     outcomes
<1>3. acked' \in Seq(Message) /\ raises' \in 0 .. MaxRaises
  <2>1. \/ UNCHANGED <<acked, raises>>
        \/ ServeRaising
        \/ Serve(Len(acked)) /\ UNCHANGED raises
    BY DEF ProduceFull, CallbackRetries, FlushEnd, FlushSome, outcomes
  <2> QED
    BY <1>1, <2>1, Serving DEF TypeOK
<1>4. \/ disturbed' = disturbed
      \/ pc[t] = "polling" /\ disturbed' = disturbed \union {Event(t)}
  BY DEF ProduceFull, CallbackRetries, FlushEnd, FlushSome, outcomes
<1>5. \/ /\ \/ pc[t] = "producing"
            \/ pc[t] = "polling" /\ Event(t) \in disturbed'
         /\ GoTo(t, "flushing") /\ retries' = [retries EXCEPT ![t] = @ + 1]
      \/ pc[t] = "flushing" /\ GoTo(t, "producing") /\ retries[t] <= MaxRetries
         /\ retries' = retries
      \/ pc' = pc /\ retries' = retries /\ pc[t] \in {"flushing", "closing"}
  <2>1. CASE ProduceFull(t)
    BY <2>1 DEF ProduceFull, Retry
  <2>2. CASE CallbackRetries(t)
    <3>1. Event(t) \in disturbed'
      BY <2>2 DEF CallbackRetries
    <3> QED
      BY <2>2, <3>1 DEF CallbackRetries, Retry
  <2>3. CASE FlushEnd(t) /\ Again(t)
    BY <2>3 DEF FlushEnd, Again
  <2>4. CASE FlushSome(t)
    BY <2>4 DEF FlushSome, threadVars
  <2> QED
    BY <2>1, <2>2, <2>3, <2>4
<1>6. /\ Accepted' = Accepted
      /\ Placed' /\ QueueIsSuffix' /\ Repeats(accepted)' /\ InOrder(accepted)'
  BY <1>2, <1>4, NothingAccepted
<1>7. /\ pc' \in [Threads -> PCs] /\ retries' \in [Threads -> 0 .. MaxRetries + 1]
      /\ \A u \in Threads : u # t => pc'[u] = pc[u] /\ retries'[u] = retries[u]
  <2>1. pc[t] \in {"producing", "polling"} => retries[t] + 1 \in 0 .. MaxRetries + 1
    BY <1>1, RetriesAssumption DEF Held, Publishing
  <2>2. pc \in [Threads -> PCs] /\ retries \in [Threads -> 0 .. MaxRetries + 1]
    BY <1>1 DEF TypeOK
  <2> QED
    BY <1>5, <2>1, <2>2 DEF GoTo, PCs
<1>8. TypeOK'
  <2>1. disturbed' \subseteq EventId
    BY <1>1, <1>4, EventTypes DEF TypeOK, Publishing
  <2> QED
    BY <1>1, <1>2, <1>3, <1>7, <2>1, Zenon DEF TypeOK
<1>9. Held(t)'
  <2>1. Event(t)' = Event(t) /\ \A m \in Accepted : EventOf(m)' = EventOf(m)
    BY <1>2 DEF Event, EventOf
  <2>2. CASE /\ \/ pc[t] = "producing"
                \/ pc[t] = "polling" /\ Event(t) \in disturbed'
             /\ GoTo(t, "flushing") /\ retries' = [retries EXCEPT ![t] = @ + 1]
    <3>1. pc'[t] = "flushing" /\ retries'[t] = retries[t] + 1
      BY <1>1, <2>2 DEF GoTo, TypeOK
    <3>2. ASSUME NEW m \in Accepted, EventOf(m) = Event(t)
          PROVE  m.part = part[t] /\ m.attempt < retries[t] + 1 /\ Event(t) \in disturbed'
      <4>1. /\ m.part = part[t]
            /\ \/ m.attempt < retries[t] /\ Event(t) \in disturbed
               \/ pc[t] = "polling" /\ m = Attempt(t)
        BY <1>1, <2>2, <3>2 DEF Held, Publishing
      <4>2. m.attempt \in Nat /\ Attempt(t).attempt = retries[t]
        BY <1>1, AcceptedAreMessages, MessageFields, SameEvent
      <4> QED
        BY <1>1, <1>4, <2>2, <4>1, <4>2
    <3> QED
      BY <1>1, <1>2, <1>6, <2>1, <2>2, <3>1, <3>2 DEF Held, Publishing
  <2>3. CASE /\ pc[t] = "flushing" /\ GoTo(t, "producing") /\ retries[t] <= MaxRetries
             /\ retries' = retries
    <3>1. pc'[t] = "producing"
      BY <1>1, <2>3 DEF GoTo, TypeOK
    <3> QED
      BY <1>1, <1>2, <1>4, <1>6, <2>1, <2>3, <3>1 DEF Held, Publishing
  <2>4. CASE pc' = pc /\ retries' = retries /\ pc[t] \in {"flushing", "closing"}
    BY <1>1, <1>2, <1>4, <1>6, <2>1, <2>4 DEF Held, Publishing
  <2> QED
    BY <1>5, <2>2, <2>3, <2>4
<1>10. InHand'
  <2> SUFFICES ASSUME NEW u \in Threads, u # t PROVE Held(u)'
    BY <1>9 DEF InHand
  <2>1. Held(u)
    BY DEF IInv, InHand
  <2>2. disturbed \subseteq disturbed'
    BY <1>4
  <2> QED
    BY <1>2, <1>6, <1>7, <2>1, <2>2, HeldByAnother
<1>11. Numbered' /\ RaiseMeansNotSent'
  BY <1>2, <1>4, <1>6 DEF IInv, Numbered, RaiseMeansNotSent, EventOf
<1> QED
  BY <1>6, <1>8, <1>10, <1>11 DEF IInv

-----------------------------------------------------------------------------
(* Messages move. *)

(* A message that repeats no event but as a later attempt of a disturbed   *)
(* one, behind its thread's, keeps a log right.                            *)
LEMMA AppendToLog ==
    ASSUME NEW log \in [Partitions -> Seq(Message)], Repeats(log), InOrder(log),
           NEW p \in Partitions, NEW e \in Message,
           \A q \in Partitions : \A i \in 1 .. Len(log[q]) :
              EventOf(log[q][i]) = EventOf(e) =>
                 q = p /\ log[q][i].attempt # e.attempt /\ EventOf(e) \in disturbed,
           \A i \in 1 .. Len(log[p]) :
              log[p][i].by = e.by => Channel!Before(log[p][i], e),
           NEW next, next = [log EXCEPT ![p] = Append(log[p], e)]
    PROVE  Repeats(next) /\ InOrder(next)
<1> DEFINE l == Len(log[p])
<1>1. /\ next[p] = Append(log[p], e)
      /\ \A q \in Partitions \ {p} : next[q] = log[q]
  OBVIOUS
<1>2. log[p] \in Seq(Message) /\ l \in Nat
  OBVIOUS
<1>3. /\ Len(next[p]) = l + 1 /\ next[p][l + 1] = e
      /\ \A i \in 1 .. l : next[p][i] = log[p][i]
  BY <1>1, <1>2
<1> HIDE DEF l
<1>4. \A i \in 1 .. l + 1 : i \in 1 .. l \/ i = l + 1
  BY <1>2
<1>5. ASSUME NEW q \in Partitions, NEW i \in 1 .. Len(next[q])
      PROVE  \/ q = p /\ i = l + 1 /\ next[q][i] = e
             \/ i \in 1 .. Len(log[q]) /\ next[q][i] = log[q][i]
  BY <1>1, <1>3, <1>4 DEF l
<1>6. Repeats(next)
  <2> SUFFICES ASSUME NEW q \in Partitions, NEW r \in Partitions,
                      NEW i \in 1 .. Len(next[q]), NEW j \in 1 .. Len(next[r]),
                      EventOf(next[q][i]) = EventOf(next[r][j]), ~(q = r /\ i = j)
               PROVE  /\ q = r
                      /\ next[q][i].attempt # next[r][j].attempt
                      /\ EventOf(next[q][i]) \in disturbed
    BY DEF Repeats
  <2>1. CASE i \in 1 .. Len(log[q]) /\ j \in 1 .. Len(log[r])
    <3>1. next[q][i] = log[q][i] /\ next[r][j] = log[r][j]
      BY <1>2, <1>5, <2>1 DEF l
    <3> QED
      BY <2>1, <3>1 DEF Repeats
  <2>2. CASE i \notin 1 .. Len(log[q]) /\ j \notin 1 .. Len(log[r])
    BY <1>5, <2>2
  <2>3. CASE i \in 1 .. Len(log[q]) /\ j \notin 1 .. Len(log[r])
    <3>1. next[q][i] = log[q][i] /\ next[r][j] = e /\ r = p
      BY <1>2, <1>5, <2>3 DEF l
    <3> QED
      BY <2>3, <3>1
  <2>4. CASE i \notin 1 .. Len(log[q]) /\ j \in 1 .. Len(log[r])
    <3>1. next[q][i] = e /\ next[r][j] = log[r][j] /\ q = p
      BY <1>2, <1>5, <2>4 DEF l
    <3> QED
      BY <2>4, <3>1
  <2> QED
    BY <2>1, <2>2, <2>3, <2>4
<1>7. InOrder(next)
  <2> SUFFICES ASSUME NEW q \in Partitions, NEW i \in 1 .. Len(next[q]),
                      NEW j \in 1 .. Len(next[q]), i < j, next[q][i].by = next[q][j].by
               PROVE  Channel!Before(next[q][i], next[q][j])
    BY DEF InOrder
  <2>1. CASE q = p /\ j = l + 1
    <3>1. next[q][j] = e /\ i \in 1 .. l /\ next[q][i] = log[p][i]
      BY <1>2, <1>3, <2>1
    <3> QED
      BY <2>1, <3>1 DEF l
  <2>2. CASE ~(q = p /\ j = l + 1)
    <3>1. j \in 1 .. Len(log[q]) /\ next[q][j] = log[q][j]
      BY <1>5, <2>2
    <3>2. i \in 1 .. Len(log[q]) /\ next[q][i] = log[q][i]
      BY <1>2, <1>5, <3>1 DEF l
    <3> QED
      BY <3>1, <3>2 DEF InOrder
  <2> QED
    BY <2>1, <2>2
<1> QED
  BY <1>6, <1>7

(* produce() takes a message that is behind all its thread's.              *)
LEMMA AttemptIsNew ==
    ASSUME IInv, NEW t \in Threads, pc[t] = "producing"
    PROVE  /\ Attempt(t) \in Message /\ part[t] \in Partitions
           /\ \A q \in Partitions : \A i \in 1 .. Len(accepted[q]) :
                 EventOf(accepted[q][i]) = EventOf(Attempt(t)) =>
                    /\ q = part[t] /\ accepted[q][i].attempt # Attempt(t).attempt
                    /\ EventOf(Attempt(t)) \in disturbed
           /\ \A i \in 1 .. Len(accepted[part[t]]) :
                 accepted[part[t]][i].by = Attempt(t).by =>
                    Channel!Before(accepted[part[t]][i], Attempt(t))
<1>1. /\ Attempt(t) \in Message /\ part[t] \in Partitions /\ Held(t)
      /\ called[t] \in Nat /\ retries[t] \in Nat
  BY EventTypes, RetriesAssumption DEF IInv, InHand, Publishing, TypeOK
<1>2. ASSUME NEW q \in Partitions, NEW i \in 1 .. Len(accepted[q])
      PROVE  /\ accepted[q][i] \in Accepted /\ accepted[q][i].part = q
             /\ accepted[q][i].n \in Nat /\ accepted[q][i].attempt \in Nat
             /\ accepted[q][i].n <= called[accepted[q][i].by]
  <2>1. accepted[q][i] \in Accepted /\ accepted[q][i].part = q
    BY DEF Accepted, Elements, IInv, Placed
  <2> QED
    BY <2>1, AcceptedAreMessages, MessageFields DEF IInv, Numbered
<1>3. ASSUME NEW q \in Partitions, NEW i \in 1 .. Len(accepted[q]),
             EventOf(accepted[q][i]) = EventOf(Attempt(t))
      PROVE  /\ q = part[t] /\ accepted[q][i].attempt < retries[t]
             /\ EventOf(Attempt(t)) \in disturbed
  BY <1>1, <1>2, <1>3, SameEvent DEF Held, Publishing
<1>4. ASSUME NEW i \in 1 .. Len(accepted[part[t]]), accepted[part[t]][i].by = t
      PROVE  Channel!Before(accepted[part[t]][i], Attempt(t))
  <2> DEFINE m == accepted[part[t]][i]
  <2>1. m.n \in Nat /\ m.n <= called[t]
    BY <1>1, <1>2, <1>4
  <2>2. m.n = called[t] => m.attempt < retries[t]
    BY <1>1, <1>3, <1>4, SameEvent
  <2> HIDE DEF m
  <2>3. Channel!Before(m, Attempt(t))
    BY <1>1, <2>1, <2>2, SameEvent DEF Channel!Before
  <2> QED
    BY <2>3 DEF m
<1>5. ASSUME NEW q \in Partitions, NEW i \in 1 .. Len(accepted[q]),
             EventOf(accepted[q][i]) = EventOf(Attempt(t))
      PROVE  accepted[q][i].attempt # Attempt(t).attempt
  <2>1. accepted[q][i].attempt < retries[t] /\ accepted[q][i].attempt \in Nat
    BY <1>2, <1>3, <1>5
  <2> QED
    BY <1>1, <2>1, SameEvent
<1> QED
  BY <1>1, <1>3, <1>4, <1>5, SameEvent

LEMMA ProduceStep ==
    ASSUME IInv, NEW t \in Threads, Produce(t)
    PROVE  IInv'
<1> DEFINE e == Attempt(t)
           p == part[t]
<1>1. /\ p \in Partitions /\ e \in Message /\ e.part = p
      /\ e.by = t /\ e.n = called[t] /\ called[t] \in Nat /\ EventOf(e) = Event(t)
  BY AttemptIsNew, SameEvent DEF IInv, Produce, TypeOK
<1>2. /\ queue \in [Partitions -> Seq(Message)] /\ accepted \in [Partitions -> Seq(Message)]
      /\ queue' = [queue EXCEPT ![p] = Append(queue[p], e)]
      /\ accepted' = [accepted EXCEPT ![p] = Append(accepted[p], e)]
      /\ UNCHANGED <<called, part, retries, acked, topic, returned, raised, disturbed, raises>>
  BY DEF Produce, IInv, TypeOK, outcomes
<1>3. /\ pc \in [Threads -> PCs] /\ pc[t] = "producing"
      /\ pc' = [pc EXCEPT ![t] = "polling"]
  BY DEF Produce, GoTo, IInv, TypeOK
<1>4. Held(t)
  BY DEF IInv, InHand
<1>5. Repeats(accepted') /\ InOrder(accepted')
  BY <1>1, <1>2, <1>3, AttemptIsNew, AppendToLog DEF IInv
<1>6. disturbed' = disturbed
  BY <1>2
<1>7. Repeats(accepted)' /\ InOrder(accepted)'
  BY <1>5, <1>6 DEF Repeats, InOrder, EventOf, Channel!Before
<1> HIDE DEF e, p
<1>8. /\ Elements(accepted'[p]) = Elements(accepted[p]) \union {e}
      /\ \A q \in Partitions \ {p} : queue'[q] = queue[q] /\ accepted'[q] = accepted[q]
  BY <1>1, <1>2, ElementsOfAppend
<1>9. Accepted' = Accepted \union {e}
  BY <1>1, <1>8 DEF Accepted
<1>10. Placed'
  BY <1>1, <1>8 DEF IInv, Placed
<1>11. TypeOK'
  <2>1. Append(queue[p], e) \in Seq(Message) /\ Append(accepted[p], e) \in Seq(Message)
    BY <1>1, <1>2
  <2>2. queue' \in [Partitions -> Seq(Message)] /\ accepted' \in [Partitions -> Seq(Message)]
    BY <1>2, <2>1
  <2>3. pc' \in [Threads -> PCs]
    BY <1>3 DEF PCs
  <2> QED
    BY <1>2, <2>2, <2>3, Zenon DEF IInv, TypeOK
<1>12. InHand'
  <2> SUFFICES ASSUME NEW u \in Threads PROVE Held(u)'
    BY DEF InHand
  <2>1. CASE u = t
    <3>1. pc'[t] = "polling" /\ Attempt(t)' = e /\ Event(t)' = Event(t)
      BY <1>2, <1>3 DEF e, Attempt, Event
    <3>2. \A m \in Accepted' : EventOf(m) = Event(t) =>
             \/ m = e
             \/ m.part = part[t] /\ m.attempt < retries[t] /\ Event(t) \in disturbed
      BY <1>3, <1>4, <1>9 DEF Held, Publishing
    <3>3. e.part = part[t] /\ e \in Accepted'
      BY <1>1, <1>9 DEF p
    <3> QED
      BY <1>2, <1>3, <1>4, <2>1, <3>1, <3>2, <3>3 DEF Held, Publishing, EventOf
  <2>2. CASE u # t
    <3>1. pc'[u] = pc[u] /\ Held(u)
      BY <1>3, <2>2 DEF IInv, InHand
    <3>2. (\A m \in Accepted' : m \in Accepted \/ m.by = t) /\ Accepted \subseteq Accepted'
      BY <1>1, <1>9
    <3>3. (\A x \in raised' : x \in raised \/ x.by = t) /\ disturbed \subseteq disturbed'
      BY <1>2
    <3>4. called'[u] = called[u] /\ part'[u] = part[u] /\ retries'[u] = retries[u]
      BY <1>2
    <3> QED
      BY <2>2, <3>1, <3>2, <3>3, <3>4, HeldByAnother
  <2> QED
    BY <2>1, <2>2
<1>13. Numbered'
  BY <1>1, <1>2, <1>9 DEF IInv, Numbered
<1>14. QueueIsSuffix'
  <2> SUFFICES ASSUME NEW q \in Partitions
               PROVE  (/\ Len(queue[q]) <= Len(accepted[q])
                       /\ \A i \in 1 .. Len(queue[q]) :
                             queue[q][i] = accepted[q][Len(accepted[q]) - Len(queue[q]) + i])'
    BY DEF QueueIsSuffix
  <2>1. CASE q # p
    BY <1>8, <2>1 DEF IInv, QueueIsSuffix
  <2>2. CASE q = p
    <3> DEFINE k == Len(queue[p])
               a == Len(accepted[p])
    <3>1. k \in Nat /\ a \in Nat /\ k <= a
          /\ \A i \in 1 .. k : queue[p][i] = accepted[p][a - k + i]
      BY <1>1, <1>2 DEF IInv, QueueIsSuffix
    <3>2. /\ Len(queue'[p]) = k + 1 /\ Len(accepted'[p]) = a + 1
          /\ \A i \in 1 .. k : queue'[p][i] = queue[p][i]
          /\ \A i \in 1 .. a : accepted'[p][i] = accepted[p][i]
          /\ queue'[p][k + 1] = e /\ accepted'[p][a + 1] = e
      BY <1>1, <1>2
    <3> HIDE DEF k, a
    <3>3. (a + 1) - (k + 1) = a - k /\ a - k + (k + 1) = a + 1
      BY <3>1
    <3>4. \A i \in 1 .. k + 1 : i = k + 1 \/ (i \in 1 .. k /\ a - k + i \in 1 .. a)
      BY <3>1
    <3>5. k + 1 <= a + 1
      BY <3>1
    <3>6. \A i \in 1 .. k + 1 : queue'[p][i] = accepted'[p][a - k + i]
      BY <3>1, <3>2, <3>3, <3>4
    <3> QED
      BY <2>2, <3>2, <3>3, <3>5, <3>6
  <2> QED
    BY <2>1, <2>2
<1>15. RaiseMeansNotSent'
  <2>1. EventOf(e) \notin raised
    BY <1>1, <1>3, <1>4 DEF Held, Publishing
  <2> QED
    BY <1>2, <1>9, <2>1 DEF IInv, RaiseMeansNotSent, EventOf
<1> QED
  BY <1>7, <1>10, <1>11, <1>12, <1>13, <1>14, <1>15 DEF IInv

(* A message leaves it for the topic, or fails, and its report is queued.  *)
LEMMA SettleStep ==
    ASSUME IInv, NEW p \in Partitions, Deliver(p) \/ DeliveryFails(p)
    PROVE  IInv'
<1> DEFINE e == Head(queue[p])
<1>1. /\ queue \in [Partitions -> Seq(Message)] /\ queue[p] # << >>
      /\ acked \in Seq(Message) /\ topic \in [Partitions -> Seq(Message)]
      /\ queue' = [queue EXCEPT ![p] = Tail(queue[p])]
      /\ acked' = Append(acked, e)
      /\ topic' = topic \/ topic' = [topic EXCEPT ![p] = Append(topic[p], e)]
  BY DEF Deliver, DeliveryFails, Settle, IInv, TypeOK
<1>2. UNCHANGED <<pc, called, part, retries, accepted, returned, raised, disturbed, raises>>
  BY DEF Deliver, DeliveryFails, Settle, threadVars, outcomes
<1>3. Tail(queue[p]) \in Seq(Message) /\ e \in Message
  BY <1>1, ElementsOfTail
<1> HIDE DEF e
<1>4. acked' \in Seq(Message)
  BY <1>1, <1>3
<1>5. Accepted' = Accepted
  BY <1>2 DEF Accepted
<1>6. TypeOK'
  <2>1. Append(topic[p], e) \in Seq(Message)
    BY <1>1, <1>3
  <2>2. queue' \in [Partitions -> Seq(Message)] /\ topic' \in [Partitions -> Seq(Message)]
    BY <1>1, <1>3, <2>1
  <2> QED
    BY <1>2, <1>4, <2>2, Zenon DEF IInv, TypeOK
<1>7. InHand' /\ Numbered'
  BY <1>2, <1>5 DEF IInv, InHand, Held, Numbered, Publishing, Event, Attempt, EventOf
<1>8. QueueIsSuffix'
  <2> SUFFICES ASSUME NEW q \in Partitions
               PROVE  (/\ Len(queue[q]) <= Len(accepted[q])
                       /\ \A i \in 1 .. Len(queue[q]) :
                             queue[q][i] = accepted[q][Len(accepted[q]) - Len(queue[q]) + i])'
    BY DEF QueueIsSuffix
  <2>1. CASE q # p
    BY <1>1, <1>2, <2>1 DEF IInv, QueueIsSuffix
  <2>2. CASE q = p
    <3> DEFINE k == Len(queue[p])
               a == Len(accepted[p])
    <3>1. k \in Nat \ {0} /\ a \in Nat /\ k <= a
          /\ \A i \in 1 .. k : queue[p][i] = accepted[p][a - k + i]
      BY <1>1 DEF IInv, QueueIsSuffix, TypeOK
    <3>2. /\ Len(queue'[p]) = k - 1 /\ Len(accepted'[p]) = a /\ accepted'[p] = accepted[p]
          /\ \A i \in 1 .. k - 1 : queue'[p][i] = queue[p][i + 1]
      BY <1>1, <1>2
    <3> HIDE DEF k, a
    <3>3. \A i \in 1 .. k - 1 : i + 1 \in 1 .. k /\ a - k + (i + 1) = a - (k - 1) + i
      BY <3>1
    <3>4. k - 1 <= a
      BY <3>1
    <3>5. \A i \in 1 .. k - 1 : queue'[p][i] = accepted'[p][a - (k - 1) + i]
      BY <3>1, <3>2, <3>3
    <3> QED
      BY <2>2, <3>2, <3>4, <3>5
  <2> QED
    BY <2>1, <2>2
<1>9. RaiseMeansNotSent' /\ Placed'
  BY <1>2, <1>5 DEF IInv, RaiseMeansNotSent, EventOf, Placed
<1>10. Repeats(accepted)' /\ InOrder(accepted)'
  BY <1>2 DEF IInv, Repeats, InOrder, EventOf, Channel!Before
<1> QED
  BY <1>6, <1>7, <1>8, <1>9, <1>10 DEF IInv

LEMMA NextIInv == IInv /\ [Next]_vars => IInv'
<1> SUFFICES ASSUME IInv, [Next]_vars PROVE IInv'
  OBVIOUS
<1>1. CASE UNCHANGED vars
  <2>1. /\ UNCHANGED <<pc, called, part, retries, queue, topic, acked, accepted>>
        /\ UNCHANGED <<returned, raised, disturbed, raises>>
    BY <1>1 DEF vars, threadVars, brokerVars, outcomes
  <2>2. /\ Accepted' = Accepted
        /\ Placed' /\ QueueIsSuffix' /\ Repeats(accepted)' /\ InOrder(accepted)'
    BY <2>1, NothingAccepted
  <2>3. TypeOK'
    BY <2>1, Zenon DEF IInv, TypeOK
  <2>4. InHand' /\ Numbered' /\ RaiseMeansNotSent'
    BY <2>1, <2>2 DEF IInv, InHand, Held, Publishing, Event, Attempt, EventOf, Numbered,
       RaiseMeansNotSent
  <2> QED
    BY <2>2, <2>3, <2>4 DEF IInv
<1>2. CASE \E t \in Threads, p \in Partitions : Call(t, p)
  BY <1>2, CallStep
<1>3. CASE \E t \in Threads : Produce(t)
  BY <1>3, ProduceStep
<1>4. ASSUME NEW t \in Threads,
             \/ ProduceFails(t) \/ Poll(t) \/ CallbackEscapes(t)
             \/ Close(t) \/ CloseEnd(t)
      PROVE  IInv'
  BY <1>4, LeaveStep
<1>5. ASSUME NEW t \in Threads, ProduceFull(t) \/ CallbackRetries(t) \/ FlushSome(t)
      PROVE  IInv'
  BY <1>5, RetryStep
<1>6. ASSUME NEW t \in Threads, FlushEnd(t) PROVE IInv'
  BY <1>6, LeaveStep, RetryStep
<1>7. CASE \E p \in Partitions : Deliver(p) \/ DeliveryFails(p)
  BY <1>7, SettleStep
<1> QED
  BY <1>1, <1>2, <1>3, <1>4, <1>5, <1>6, <1>7 DEF Next, Publish

-----------------------------------------------------------------------------
(* The inductive invariant: what is in the buffer of each event, by where  *)
(* its thread is, and the queues as the tails of what was accepted.        *)
THEOREM Invariance == Spec => []IInv
BY InitIInv, NextIInv, PTL DEF Spec

(* Every variable keeps its type; in particular a publish counts at most   *)
(* one retry more than max_retries before it gives up (producer.py:101).   *)
THEOREM TypeCorrectness == Spec => []TypeOK
<1>1. IInv => TypeOK
  BY DEF IInv
<1> QED
  BY <1>1, Invariance, PTL

(* An event whose publish raised was not sent, unless a callback raised in *)
(* that publish; one whose publish returned was accepted, whatever the     *)
(* other threads did meanwhile.                                            *)
THEOREM RaisedEventsAreNotSent == Spec => []RaiseMeansNotSent
<1>1. IInv => RaiseMeansNotSent
  BY DEF IInv
<1> QED
  BY <1>1, Invariance, PTL

(* Without a BufferError out of a callback no event enters the buffer      *)
(* twice (producer.py:109, 119), and with one each copy is a later attempt *)
(* for the same partition.                                                 *)
THEOREM RepeatsAreAttempts == Spec => []RepeatsNeedCallbacks
<1>1. IInv => RepeatsNeedCallbacks
  BY DEF IInv, Repeats, RepeatsNeedCallbacks
<1> QED
  BY <1>1, Invariance, PTL

(* Nothing but produce() and the brokers moves a message.                  *)
LEMMA IdleSteps ==
    ASSUME NEW t \in Threads,
           \/ \E p \in Partitions : Call(t, p)
           \/ ProduceFails(t) \/ ProduceFull(t) \/ Poll(t) \/ CallbackRetries(t)
           \/ CallbackEscapes(t) \/ FlushSome(t) \/ FlushEnd(t) \/ Close(t) \/ CloseEnd(t)
    PROVE  UNCHANGED <<queue, topic, accepted>> /\ disturbed \subseteq disturbed'
BY DEF Call, ProduceFails, ProduceFull, Poll, CallbackRetries, CallbackEscapes, Retry,
   FlushSome, FlushEnd, Close, CloseEnd, brokerVars, outcomes

(* The topic receives what publish accepted, in order, each attempt at     *)
(* most once: produce() is a Send of LossyChannel, the end of a request a  *)
(* Deliver or a Lose, and everything else leaves the channel alone.        *)
THEOREM Refinement == Spec => ImplementsChannel
<1> DEFINE done == [p \in Partitions |-> Len(accepted[p]) - Len(queue[p])]
<1>1. Init => Channel!Init
  <2> SUFFICES ASSUME Init PROVE Channel!Init
    OBVIOUS
  <2>1. \A p \in Partitions : Len(accepted[p]) - Len(queue[p]) = 0
    <3>1. Len(<< >>) = 0 /\ 0 - 0 = 0
      OBVIOUS
    <3> QED
      BY <3>1 DEF Init
  <2> QED
    BY <2>1 DEF Init, Channel!Init
<1>2. ASSUME IInv, [Next]_vars
      PROVE  [Channel!Next]_(Channel!vars)
  <2>1. ASSUME UNCHANGED <<queue, topic, accepted>> PROVE UNCHANGED Channel!vars
    BY <2>1 DEF Channel!vars
  <2>2. CASE UNCHANGED vars
    BY <2>1, <2>2 DEF vars, brokerVars
  <2>3. ASSUME NEW t \in Threads,
               \/ \E p \in Partitions : Call(t, p)
               \/ ProduceFails(t) \/ ProduceFull(t) \/ Poll(t) \/ CallbackRetries(t)
               \/ CallbackEscapes(t) \/ FlushSome(t) \/ FlushEnd(t) \/ Close(t) \/ CloseEnd(t)
        PROVE  UNCHANGED Channel!vars
    BY <2>1, <2>3, IdleSteps
  <2>4. ASSUME NEW t \in Threads, Produce(t) PROVE Channel!Next
    <3> DEFINE e == Attempt(t)
    <3>1. e \in Message /\ e.part = part[t] /\ e.by = t /\ pc[t] = "producing"
      BY <1>2, <2>4, AttemptIsNew, SameEvent DEF IInv, Produce
    <3>2. /\ accepted' = [accepted EXCEPT ![e.part] = Append(accepted[e.part], e)]
          /\ queue' = [queue EXCEPT ![e.part] = Append(queue[e.part], e)]
          /\ topic' = topic
      BY <2>4, <3>1 DEF Produce
    <3>3. /\ accepted \in [Partitions -> Seq(Message)] /\ queue \in [Partitions -> Seq(Message)]
          /\ e.part \in Partitions
      BY <1>2, <3>1, AttemptIsNew DEF IInv, TypeOK
    <3>4. \A i \in 1 .. Len(accepted[e.part]) :
             accepted[e.part][i].by = e.by => Channel!Before(accepted[e.part][i], e)
      BY <1>2, <3>1, AttemptIsNew
    <3> HIDE DEF e
    <3>5. \A p \in Partitions :
             Len(accepted'[p]) - Len(queue'[p]) = Len(accepted[p]) - Len(queue[p])
      <4> SUFFICES ASSUME NEW p \in Partitions
                   PROVE  Len(accepted'[p]) - Len(queue'[p]) = Len(accepted[p]) - Len(queue[p])
        OBVIOUS
      <4>1. CASE p # e.part
        BY <3>2, <3>3, <4>1
      <4>2. CASE p = e.part
        <5>1. /\ Len(accepted[p]) \in Nat /\ Len(queue[p]) \in Nat
              /\ Len(accepted'[p]) = Len(accepted[p]) + 1 /\ Len(queue'[p]) = Len(queue[p]) + 1
          BY <3>1, <3>2, <3>3, <4>2
        <5> QED
          BY <5>1
      <4> QED
        BY <4>1, <4>2
    <3>6. done' = done
      BY <3>5
    <3>7. Channel!Send(e)
      BY <3>2, <3>4, <3>6 DEF Channel!Send
    <3> QED
      BY <3>1, <3>7 DEF Channel!Next
  <2>5. ASSUME NEW p \in Partitions, Deliver(p) \/ DeliveryFails(p) PROVE Channel!Next
    <3>1. /\ queue[p] # << >> /\ queue' = [queue EXCEPT ![p] = Tail(queue[p])]
          /\ accepted' = accepted
      BY <2>5 DEF Deliver, DeliveryFails, Settle
    <3>2. queue \in [Partitions -> Seq(Message)] /\ accepted \in [Partitions -> Seq(Message)]
      BY <1>2 DEF IInv, TypeOK
    <3>3. /\ Len(queue[p]) \in Nat \ {0} /\ Len(accepted[p]) \in Nat
          /\ Len(queue[p]) <= Len(accepted[p])
          /\ Head(queue[p]) = queue[p][1]
          /\ queue[p][1] = accepted[p][Len(accepted[p]) - Len(queue[p]) + 1]
      <4>1. Len(queue[p]) \in Nat \ {0} /\ Len(accepted[p]) \in Nat
            /\ Head(queue[p]) = queue[p][1]
        BY <3>1, <3>2
      <4>2. 1 \in 1 .. Len(queue[p])
        BY <4>1
      <4> QED
        BY <1>2, <4>1, <4>2 DEF IInv, QueueIsSuffix
    <3>4. /\ Len(queue'[p]) = Len(queue[p]) - 1
          /\ \A q \in Partitions \ {p} : queue'[q] = queue[q]
      BY <3>1, <3>2
    <3>5. /\ Len(accepted'[p]) - Len(queue'[p]) = Len(accepted[p]) - Len(queue[p]) + 1
          /\ Len(accepted[p]) - Len(queue[p]) < Len(accepted[p])
      <4> DEFINE k == Len(queue[p])
                 a == Len(accepted[p])
      <4>1. Len(queue'[p]) = k - 1 /\ Len(accepted'[p]) = a
        BY <3>1, <3>4
      <4>2. k \in Nat \ {0} /\ a \in Nat
        BY <3>3
      <4> HIDE DEF k, a
      <4>3. a - (k - 1) = a - k + 1 /\ a - k < a
        BY <4>2
      <4> QED
        BY <4>1, <4>3 DEF k, a
    <3>6. done' = [done EXCEPT ![p] = done[p] + 1]
      <4>1. \A q \in Partitions \ {p} : done'[q] = done[q]
        BY <3>1, <3>4
      <4>2. done'[p] = done[p] + 1
        BY <3>5
      <4>3. done' = [q \in Partitions |-> done'[q]] /\ done = [q \in Partitions |-> done[q]]
        OBVIOUS
      <4> HIDE DEF done
      <4> QED
        BY <4>1, <4>2, <4>3
    <3>7. Channel!Advance(p)
      BY <3>1, <3>5, <3>6 DEF Channel!Advance
    <3>8. Channel!Deliver(p) \/ Channel!Lose(p)
      BY <2>5, <3>3, <3>7 DEF Deliver, DeliveryFails, Channel!Deliver, Channel!Lose
    <3> QED
      BY <3>8 DEF Channel!Next
  <2> QED
    BY <1>2, <2>2, <2>3, <2>4, <2>5 DEF Next, Publish
<1> QED
  BY <1>1, <1>2, Invariance, PTL DEF Spec, ImplementsChannel, Channel!Spec

-----------------------------------------------------------------------------
(* The topic, over all partitions. *)

(* What the topic has is what was accepted and is not queued any more.     *)
Gone(p) == Len(accepted[p]) - Len(queue[p])
TopicIsSent ==
    \A p \in Partitions : \A i \in 1 .. Len(topic[p]) :
       \E j \in 1 .. Gone(p) : topic[p][i] = accepted[p][j]

LInv == TopicIsSent /\ Repeats(topic) /\ InOrder(topic)

(* What enters the buffer is behind what the topic has.                    *)
LEMMA ProduceLog ==
    ASSUME IInv, LInv, NEW t \in Threads, Produce(t)
    PROVE  LInv'
<1> DEFINE e == Attempt(t)
           p == part[t]
<1>1. p \in Partitions /\ e \in Message
  BY AttemptIsNew DEF Produce
<1>2. /\ queue \in [Partitions -> Seq(Message)] /\ accepted \in [Partitions -> Seq(Message)]
      /\ queue' = [queue EXCEPT ![p] = Append(queue[p], e)]
      /\ accepted' = [accepted EXCEPT ![p] = Append(accepted[p], e)]
      /\ topic' = topic /\ disturbed' = disturbed
  BY DEF IInv, Produce, TypeOK, outcomes
<1> HIDE DEF e, p
<1>3. ASSUME NEW q \in Partitions
      PROVE  Gone(q)' = Gone(q) /\ \A j \in 1 .. Gone(q) : accepted'[q][j] = accepted[q][j]
  <2>1. Len(accepted[q]) \in Nat /\ Len(queue[q]) \in Nat
    BY <1>2
  <2>2. CASE q # p
    BY <1>2, <2>2 DEF Gone
  <2>3. CASE q = p
    <3>1. /\ Len(accepted'[q]) = Len(accepted[q]) + 1 /\ Len(queue'[q]) = Len(queue[q]) + 1
          /\ \A j \in 1 .. Len(accepted[q]) : accepted'[q][j] = accepted[q][j]
      BY <1>1, <1>2, <2>3
    <3> QED
      BY <2>1, <3>1 DEF Gone
  <2> QED
    BY <2>2, <2>3
<1>4. TopicIsSent'
  <2> SUFFICES ASSUME NEW q \in Partitions, NEW i \in 1 .. Len(topic'[q])
               PROVE  \E j \in 1 .. Gone(q)' : topic'[q][i] = accepted'[q][j]
    BY DEF TopicIsSent
  <2>1. PICK j \in 1 .. Gone(q) : topic[q][i] = accepted[q][j]
    BY <1>2 DEF LInv, TopicIsSent
  <2>2. j \in 1 .. Gone(q)' /\ topic'[q][i] = accepted'[q][j]
    BY <1>2, <1>3, <2>1
  <2> QED
    BY <2>2
<1>5. Repeats(topic)' /\ InOrder(topic)'
  BY <1>2 DEF LInv, Repeats, InOrder, EventOf, Channel!Before
<1> QED
  BY <1>4, <1>5 DEF LInv

(* The next message of a partition is behind every one that left its queue.  *)
LEMMA SettleLog ==
    ASSUME IInv, LInv, NEW p \in Partitions, Deliver(p) \/ DeliveryFails(p)
    PROVE  LInv'
<1> DEFINE e == Head(queue[p])
           g == Gone(p)
<1>1. /\ queue \in [Partitions -> Seq(Message)] /\ accepted \in [Partitions -> Seq(Message)]
      /\ topic \in [Partitions -> Seq(Message)]
  BY DEF IInv, TypeOK
<1>2. /\ queue[p] # << >> /\ queue' = [queue EXCEPT ![p] = Tail(queue[p])]
      /\ accepted' = accepted /\ disturbed' = disturbed
      /\ topic' = topic \/ topic' = [topic EXCEPT ![p] = Append(topic[p], e)]
  BY DEF Deliver, DeliveryFails, Settle, outcomes
<1>3. /\ Len(queue[p]) \in Nat \ {0} /\ Len(accepted[p]) \in Nat
      /\ Len(queue[p]) <= Len(accepted[p])
      /\ e \in Message /\ e = accepted[p][g + 1]
  <2>1. /\ Len(queue[p]) \in Nat \ {0} /\ Len(accepted[p]) \in Nat
        /\ e = queue[p][1] /\ e \in Message /\ 1 \in 1 .. Len(queue[p])
    BY <1>1, <1>2
  <2> QED
    BY <2>1 DEF IInv, QueueIsSuffix, Gone
<1>4. /\ g \in Nat /\ g + 1 \in 1 .. Len(accepted[p]) /\ \A j \in 1 .. g : j < g + 1
      /\ Gone(p)' = g + 1
  <2> DEFINE k == Len(queue[p])
             a == Len(accepted[p])
  <2>1. Len(queue'[p]) = k - 1 /\ Len(accepted'[p]) = a
    BY <1>1, <1>2
  <2>2. k \in Nat \ {0} /\ a \in Nat /\ k <= a
    BY <1>3
  <2>3. g = a - k /\ Gone(p)' = a - (k - 1)
    BY <2>1 DEF Gone
  <2> HIDE DEF k, a, g
  <2>4. g \in Nat /\ g + 1 \in 1 .. a /\ (\A j \in 1 .. g : j < g + 1) /\ a - (k - 1) = g + 1
    BY <2>2, <2>3
  <2> QED
    BY <2>3, <2>4 DEF a
<1>5. 1 .. g \subseteq 1 .. g + 1 /\ g + 1 \in 1 .. Gone(p)'
  BY <1>4
<1>6. \A q \in Partitions \ {p} : Gone(q)' = Gone(q)
  BY <1>1, <1>2 DEF Gone
<1>7. \A q \in Partitions : 1 .. Gone(q) \subseteq 1 .. Gone(q)'
  BY <1>4, <1>5, <1>6 DEF g
<1> HIDE DEF e, g
<1>8. \A q \in Partitions : \A i \in 1 .. Len(topic[q]) :
         \E j \in 1 .. Gone(q)' : topic[q][i] = accepted'[q][j]
  BY <1>2, <1>7 DEF LInv, TopicIsSent
<1>9. CASE topic' = topic
  <2>1. Repeats(topic)' /\ InOrder(topic)'
    BY <1>2, <1>9 DEF LInv, Repeats, InOrder, EventOf, Channel!Before
  <2> QED
    BY <1>2, <1>8, <1>9, <2>1 DEF LInv, TopicIsSent
<1>10. CASE topic' = [topic EXCEPT ![p] = Append(topic[p], e)]
  <2>1. TopicIsSent'
    <3> SUFFICES ASSUME NEW q \in Partitions, NEW i \in 1 .. Len(topic'[q])
                 PROVE  \E j \in 1 .. Gone(q)' : topic'[q][i] = accepted'[q][j]
      BY DEF TopicIsSent
    <3>1. \/ i \in 1 .. Len(topic[q]) /\ topic'[q][i] = topic[q][i]
          \/ q = p /\ topic'[q][i] = e
      BY <1>1, <1>3, <1>10
    <3> QED
      BY <1>2, <1>3, <1>5, <1>8, <3>1
  <2>2. ASSUME NEW q \in Partitions, NEW i \in 1 .. Len(topic[q])
        PROVE  \E j \in 1 .. Len(accepted[q]) :
                  topic[q][i] = accepted[q][j] /\ (q = p => j < g + 1)
    <3>1. PICK j \in 1 .. Gone(q) : topic[q][i] = accepted[q][j]
      BY DEF LInv, TopicIsSent
    <3>2. j \in 1 .. Len(accepted[q])
      <4>1. Gone(q) <= Len(accepted[q])
        BY <1>1 DEF Gone
      <4>2. Len(accepted[q]) \in Nat /\ Gone(q) \in Int
        BY <1>1 DEF Gone
      <4> QED
        BY <4>1, <4>2
    <3> QED
      BY <1>4, <3>1, <3>2 DEF g
  <2>3. ASSUME NEW q \in Partitions, NEW i \in 1 .. Len(topic[q]),
               EventOf(topic[q][i]) = EventOf(e)
        PROVE  q = p /\ topic[q][i].attempt # e.attempt /\ EventOf(e) \in disturbed
    <3>1. PICK j \in 1 .. Len(accepted[q]) :
             topic[q][i] = accepted[q][j] /\ (q = p => j < g + 1)
      BY <2>2
    <3>2. ~(q = p /\ j = g + 1)
      BY <1>4, <3>1
    <3> QED
      BY <1>3, <1>4, <2>3, <3>1, <3>2 DEF IInv, Repeats
  <2>4. ASSUME NEW i \in 1 .. Len(topic[p]), topic[p][i].by = e.by
        PROVE  Channel!Before(topic[p][i], e)
    <3>1. PICK j \in 1 .. Len(accepted[p]) : topic[p][i] = accepted[p][j] /\ j < g + 1
      BY <2>2
    <3> QED
      BY <1>3, <1>4, <2>4, <3>1 DEF IInv, InOrder
  <2>5. Repeats(topic') /\ InOrder(topic')
    BY <1>1, <1>3, <1>10, <2>3, <2>4, AppendToLog DEF LInv
  <2>6. Repeats(topic)' /\ InOrder(topic)'
    BY <1>2, <2>5 DEF Repeats, InOrder, EventOf, Channel!Before
  <2> QED
    BY <2>1, <2>6 DEF LInv
<1> QED
  BY <1>2, <1>9, <1>10

LEMMA NextLog ==
    ASSUME IInv, LInv, [Next]_vars
    PROVE  LInv'
<1>1. ASSUME UNCHANGED <<queue, topic, accepted>>, disturbed \subseteq disturbed'
      PROVE  LInv'
  BY <1>1 DEF LInv, Repeats, InOrder, TopicIsSent, Gone, EventOf, Channel!Before
<1>2. CASE UNCHANGED vars
  BY <1>1, <1>2 DEF vars, brokerVars, outcomes
<1>3. ASSUME NEW t \in Threads,
             \/ \E p \in Partitions : Call(t, p)
             \/ ProduceFails(t) \/ ProduceFull(t) \/ Poll(t) \/ CallbackRetries(t)
             \/ CallbackEscapes(t) \/ FlushSome(t) \/ FlushEnd(t) \/ Close(t) \/ CloseEnd(t)
      PROVE  LInv'
  BY <1>1, <1>3, IdleSteps
<1> QED
  BY <1>2, <1>3, ProduceLog, SettleLog DEF Next, Publish

(* However often publish retries and whichever deliveries fail, what a     *)
(* thread has in a partition of the topic is in the order of its calls and *)
(* of their attempts, and an event is there twice, over all partitions,    *)
(* only if a callback raised in its publish, and never the same attempt.   *)
THEOREM EventsAreOnceAndInOrder == Spec => [](Repeats(topic) /\ InOrder(topic))
<1>1. Init => LInv
  <2>1. ASSUME Init PROVE \A p \in Partitions : \A i \in 1 .. Len(topic[p]) : FALSE
    BY <2>1 DEF Init
  <2> QED
    BY <2>1 DEF LInv, Repeats, InOrder, TopicIsSent
<1>2. LInv => Repeats(topic) /\ InOrder(topic)
  BY DEF LInv
<1> QED
  BY <1>1, <1>2, NextLog, Invariance, PTL DEF Spec
=============================================================================
