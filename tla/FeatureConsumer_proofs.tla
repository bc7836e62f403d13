----------------------- MODULE FeatureConsumer_proofs -----------------------
(***************************************************************************)
(* Proofs about the consumer group, for any consumers, partitions, keys    *)
(* and bounds.                                                             *)
(***************************************************************************)
EXTENDS FeatureConsumerInvariant, TLAPS

(* Appending a message keeps the ones already there at their offsets.      *)
LEMMA AppendKeeps ==
    ASSUME NEW S, NEW s \in Seq(S), NEW m \in S
    PROVE  /\ Append(s, m) \in Seq(S)
           /\ Len(Append(s, m)) = Len(s) + 1
           /\ \A i \in 1 .. Len(s) : Append(s, m)[i] = s[i]
           /\ Append(s, m)[Len(s) + 1] = m
OBVIOUS

(* Spending a fault keeps the counters counters, and none goes down.       *)
LEMMA SpendCounts ==
    ASSUME used \in [Faults -> Nat], NEW f \in Faults, Spend(f)
    PROVE  /\ used' \in [Faults -> Nat]
           /\ \A g \in Faults : used[g] <= used'[g]
           /\ used'[f] > 0
BY DEF Spend

(* No step lowers the count of a fault.                                    *)
LEMMA CountsGrow ==
    ASSUME used \in [Faults -> Nat], [Next]_vars
    PROVE  /\ used' \in [Faults -> Nat]
           /\ \A f \in Faults : used[f] <= used'[f]
<1>1. UNCHANGED used \/ \E f \in Faults : Spend(f)
  BY DEF Next, vars, Produce, Expire, SessionTimeout, Assign, Revoke, Poll,
         Evict, Crash, Restart, Redeploy, Signal, PollNothing, Process,
         ProcessOk, ProcessMalformed, ProcessError, Commit, CommitOk,
         CommitFenced, CommitError, Exit, Faults
<1>2. QED
  BY <1>1, SpendCounts

(* Every variable keeps its type in every step.                            *)
LEMMA TypeStep == TypeOK /\ HoldsMessage /\ [Next]_vars => TypeOK'
<1> SUFFICES ASSUME TypeOK, HoldsMessage, [Next]_vars PROVE TypeOK'
  OBVIOUS
<1>0. used' \in [Faults -> Nat]
  BY CountsGrow DEF TypeOK
<1> USE <1>0 DEF TypeOK
<1>1. CASE UNCHANGED vars
  BY <1>1 DEF vars
<1>2. ASSUME NEW p \in Partitions, NEW m \in Message, Produce(p, m) PROVE TypeOK'
  BY <1>2, AppendKeeps DEF Produce
<1>3. ASSUME NEW k \in Keys, Expire(k) PROVE TypeOK'
  BY <1>3 DEF Expire, Absent
<1>4. ASSUME NEW p \in Partitions, SessionTimeout(p) PROVE TypeOK'
  BY <1>4 DEF SessionTimeout
<1>5. ASSUME NEW c \in Consumers, NEW p \in Partitions, Assign(c, p) PROVE TypeOK'
  BY <1>5 DEF Assign
<1>6. ASSUME NEW c \in Consumers, NEW p \in Partitions, Revoke(c, p) PROVE TypeOK'
  BY <1>6 DEF Revoke
<1>7. ASSUME NEW c \in Consumers, NEW p \in Partitions, Poll(c, p) PROVE TypeOK'
  BY <1>7 DEF Poll, Event, PCs
<1>8. ASSUME NEW c \in Consumers, Evict(c) PROVE TypeOK'
  BY <1>8 DEF Evict
<1>9. ASSUME NEW c \in Consumers, Crash(c) PROVE TypeOK'
  BY <1>9 DEF Crash, PCs
<1>10. ASSUME NEW c \in Consumers, Restart(c) PROVE TypeOK'
  BY <1>10 DEF Restart, PCs
<1>11. ASSUME NEW c \in Consumers, Redeploy(c) PROVE TypeOK'
  BY <1>11 DEF Redeploy, PCs
<1>12. ASSUME NEW c \in Consumers, Signal(c) PROVE TypeOK'
  BY <1>12 DEF Signal
<1>13. ASSUME NEW c \in Consumers, PollNothing(c) PROVE TypeOK'
  BY <1>13 DEF PollNothing, vars
<1>14. ASSUME NEW c \in Consumers, Process(c) PROVE TypeOK'
  <2>1. inflight[c] \in Event
    BY <1>14 DEF HoldsMessage, Busy, Process, ProcessOk, ProcessMalformed,
                 ProcessError
  <2>2. redis' \in [Keys -> Nat \union {Absent}]
    <3>1. inflight[c].off \in Nat
      BY <2>1 DEF Event
    <3>2. UNCHANGED redis \/ Store(inflight[c])
      BY <1>14 DEF Process, ProcessOk, ProcessMalformed, ProcessError
    <3> QED
      BY <3>1, <3>2 DEF Store
  <2>3. written' \subseteq Event /\ failed' \subseteq Event
    BY <1>14, <2>1 DEF Process, ProcessOk, ProcessMalformed, ProcessError
  <2>4. pc' \in [Consumers -> PCs]
    BY <1>14 DEF Process, ProcessOk, ProcessMalformed, ProcessError, PCs
  <2>5. UNCHANGED <<log, committed, owner, position, stop, inflight>>
    BY <1>14 DEF Process, ProcessOk, ProcessMalformed, ProcessError
  <2> QED
    BY <2>2, <2>3, <2>4, <2>5
<1>15. ASSUME NEW c \in Consumers, Commit(c) PROVE TypeOK'
  <2>1. CASE CommitOk(c)
    BY <2>1 DEF CommitOk, CommitOffsets, PCs
  <2>2. CASE CommitFenced(c)
    BY <2>2 DEF CommitFenced, Leave, PCs
  <2>3. CASE CommitError(c)
    BY <2>3 DEF CommitError, CommitOffsets, Leave, PCs
  <2> QED
    BY <1>15, <2>1, <2>2, <2>3 DEF Commit
<1>16. ASSUME NEW c \in Consumers, Exit(c) PROVE TypeOK'
  BY <1>16 DEF Exit, Leave, PCs
<1>17. QED
  BY <1>1, <1>2, <1>3, <1>4, <1>5, <1>6, <1>7, <1>8, <1>9, <1>10, <1>11,
     <1>12, <1>13, <1>14, <1>15, <1>16 DEF Next

-----------------------------------------------------------------------------
(* The parts of the inductive invariant, one lemma for each.               *)

LEMMA HoldsMessageStep == IInv /\ [Next]_vars => HoldsMessage'
<1> SUFFICES ASSUME IInv, [Next]_vars PROVE HoldsMessage'
  OBVIOUS
<1> USE NoEventAssumption DEF IInv, TypeOK, HoldsMessage, Busy, Handled
<1>1. ASSUME UNCHANGED <<pc, inflight, written, failed>> PROVE HoldsMessage'
  BY <1>1
<1>2. ASSUME NEW c \in Consumers, NEW p \in Partitions, Poll(c, p)
      PROVE  HoldsMessage'
  BY <1>2 DEF Poll, Event
<1>3. ASSUME NEW c \in Consumers, Crash(c) \/ Restart(c) \/ Redeploy(c) \/ Exit(c)
      PROVE  HoldsMessage'
  BY <1>3 DEF Crash, Restart, Redeploy, Exit
<1>4. ASSUME NEW c \in Consumers, Process(c) PROVE HoldsMessage'
  BY <1>4 DEF Process, ProcessOk, ProcessMalformed, ProcessError
<1>5. ASSUME NEW c \in Consumers, Commit(c) PROVE HoldsMessage'
  BY <1>5 DEF Commit, CommitOk, CommitFenced, CommitError
<1>6. QED
  BY <1>1, <1>2, <1>3, <1>4, <1>5
     DEF Next, vars, Produce, Expire, SessionTimeout, Assign, Revoke, Evict,
         Signal, PollNothing

LEMMA WithinLogStep == IInv /\ [Next]_vars => WithinLog'
<1> SUFFICES ASSUME IInv, [Next]_vars PROVE WithinLog'
  OBVIOUS
<1> USE NoEventAssumption DEF IInv, TypeOK, HoldsMessage, Busy, Handled, WithinLog
<1>1. ASSUME UNCHANGED <<log, committed, inflight, written, failed>>
      PROVE  WithinLog'
  BY <1>1
<1>2. ASSUME NEW p \in Partitions, NEW m \in Message, Produce(p, m)
      PROVE  WithinLog'
  <2>1. \A q \in Partitions : Len(log[q]) \in Nat /\ Len(log[q]) <= Len(log'[q])
    BY <1>2, AppendKeeps DEF Produce
  <2>2. \A q \in Partitions : Len(log'[q]) \in Nat
    BY <1>2, AppendKeeps DEF Produce
  <2> QED
    BY <1>2, <2>1, <2>2 DEF Produce, Event
<1>3. ASSUME NEW c \in Consumers, NEW p \in Partitions, Poll(c, p)
      PROVE  WithinLog'
  <2>1. position[p] = committed[p] /\ position[p] < Len(log[p])
    BY <1>3 DEF Poll, OwnerPosition
  <2> QED
    BY <1>3, <2>1 DEF Poll, Event
<1>4. ASSUME NEW c \in Consumers, Crash(c) PROVE WithinLog'
  BY <1>4 DEF Crash
<1>5. ASSUME NEW c \in Consumers, Process(c) PROVE WithinLog'
  BY <1>5 DEF Process, ProcessOk, ProcessMalformed, ProcessError
<1>6. ASSUME NEW c \in Consumers, Commit(c) PROVE WithinLog'
  <2>1. \A p \in Partitions : committed'[p] \in Nat /\ committed[p] <= committed'[p]
    BY <1>6 DEF Commit, CommitOk, CommitFenced, CommitError, CommitOffsets,
                OwnerPosition
  <2>2. UNCHANGED <<log, written, failed>>
    BY <1>6 DEF Commit, CommitOk, CommitFenced, CommitError
  <2>3. inflight' = [inflight EXCEPT ![c] = NoEvent]
    BY <1>6 DEF Commit, CommitOk, CommitFenced, CommitError
  <2> QED
    BY <2>1, <2>2, <2>3 DEF Event
<1>7. QED
  BY <1>1, <1>2, <1>3, <1>4, <1>5, <1>6
     DEF Next, vars, Expire, SessionTimeout, Assign, Revoke, Evict, Restart,
         Redeploy, Signal, PollNothing, Exit

LEMMA OwnerPositionStep == IInv /\ [Next]_vars => OwnerPosition'
<1> SUFFICES ASSUME IInv, [Next]_vars PROVE OwnerPosition'
  OBVIOUS
<1> USE NoEventAssumption, OwnerAssumption
    DEF IInv, TypeOK, HoldsMessage, Busy, OwnerPosition
<1>1. ASSUME UNCHANGED <<committed, owner, position, pc, inflight>>
      PROVE  OwnerPosition'
  BY <1>1
<1>2. ASSUME NEW p \in Partitions, SessionTimeout(p) PROVE OwnerPosition'
  BY <1>2 DEF SessionTimeout
<1>3. ASSUME NEW c \in Consumers, NEW p \in Partitions, Assign(c, p)
      PROVE  OwnerPosition'
  BY <1>3 DEF Assign
<1>4. ASSUME NEW c \in Consumers, NEW p \in Partitions, Revoke(c, p)
      PROVE  OwnerPosition'
  BY <1>4 DEF Revoke
<1>5. ASSUME NEW c \in Consumers, NEW p \in Partitions, Poll(c, p)
      PROVE  OwnerPosition'
  BY <1>5 DEF Poll, Event
<1>6. ASSUME NEW c \in Consumers, Evict(c) \/ Crash(c) PROVE OwnerPosition'
  BY <1>6 DEF Evict, Crash
<1>7. ASSUME NEW c \in Consumers, Restart(c) \/ Redeploy(c) PROVE OwnerPosition'
  BY <1>7 DEF Restart, Redeploy
<1>8. ASSUME NEW c \in Consumers, Process(c) PROVE OwnerPosition'
  <2>1. /\ UNCHANGED <<committed, owner, position, inflight>>
        /\ pc' = [pc EXCEPT ![c] = "committing"]
    BY <1>8 DEF Process, ProcessOk, ProcessMalformed, ProcessError
  <2> QED
    BY <2>1
<1>9. ASSUME NEW c \in Consumers, Commit(c) PROVE OwnerPosition'
  <2>1. CASE CommitOk(c)
    BY <2>1 DEF CommitOk, CommitOffsets
  <2>2. CASE CommitFenced(c)
    BY <2>2 DEF CommitFenced, Leave
  <2>3. CASE CommitError(c)
    BY <2>3 DEF CommitError, CommitOffsets, Leave
  <2> QED
    BY <1>9, <2>1, <2>2, <2>3 DEF Commit
<1>10. ASSUME NEW c \in Consumers, Exit(c) PROVE OwnerPosition'
  BY <1>10 DEF Exit, Leave
<1>11. QED
  BY <1>1, <1>2, <1>3, <1>4, <1>5, <1>6, <1>7, <1>8, <1>9, <1>10
     DEF Next, vars, Produce, Expire, Signal, PollNothing

(* The log only grows: a message never moves or changes.                   *)
LEMMA LogGrows ==
    ASSUME TypeOK, [Next]_vars, NEW p \in Partitions
    PROVE  /\ Len(log[p]) \in Nat
           /\ Len(log[p]) <= Len(log'[p])
           /\ \A i \in 1 .. Len(log[p]) : log'[p][i] = log[p][i]
<1> USE DEF TypeOK
<1>1. ASSUME UNCHANGED log
      PROVE  /\ Len(log[p]) <= Len(log'[p])
             /\ \A i \in 1 .. Len(log[p]) : log'[p][i] = log[p][i]
  BY <1>1
<1>2. ASSUME NEW q \in Partitions, NEW m \in Message, Produce(q, m)
      PROVE  /\ Len(log[p]) <= Len(log'[p])
             /\ \A i \in 1 .. Len(log[p]) : log'[p][i] = log[p][i]
  BY <1>2, AppendKeeps DEF Produce
<1>3. UNCHANGED log \/ \E q \in Partitions, m \in Message : Produce(q, m)
  BY DEF Next, vars, Expire, SessionTimeout, Assign, Revoke, Poll, Evict,
         Crash, Restart, Redeploy, Signal, PollNothing, Process, ProcessOk,
         ProcessMalformed, ProcessError, Commit, CommitOk, CommitFenced,
         CommitError, Exit
<1>4. QED
  BY <1>1, <1>2, <1>3

LEMMA ContentStable ==
    ASSUME TypeOK, [Next]_vars, NEW e \in Event, e.off < Len(log[e.part])
    PROVE  Content(e)' = Content(e)
<1>1. e.part \in Partitions /\ e.off \in Nat
  BY DEF Event
<1>2. Len(log[e.part]) \in Nat
  BY <1>1, LogGrows
<1>3. e.off + 1 \in 1 .. Len(log[e.part])
  BY <1>1, <1>2
<1>4. QED
  BY <1>1, <1>3, LogGrows DEF Content

LEMMA PlacedStep == IInv /\ [Next]_vars => Placed'
<1> SUFFICES ASSUME IInv, [Next]_vars PROVE Placed'
  OBVIOUS
<1> USE DEF IInv, TypeOK, Placed
<1>1. ASSUME UNCHANGED log PROVE Placed'
  BY <1>1
<1>2. ASSUME NEW p \in Partitions, NEW m \in Message, Produce(p, m) PROVE Placed'
  BY <1>2, AppendKeeps DEF Produce
<1>3. UNCHANGED log \/ \E q \in Partitions, m \in Message : Produce(q, m)
  BY DEF Next, vars, Expire, SessionTimeout, Assign, Revoke, Poll, Evict,
         Crash, Restart, Redeploy, Signal, PollNothing, Process, ProcessOk,
         ProcessMalformed, ProcessError, Commit, CommitOk, CommitFenced,
         CommitError, Exit
<1>4. QED
  BY <1>1, <1>2, <1>3

(* The only commits are by an owner that has handled the message it holds: *)
(* they acknowledge that one message, or they fail.                        *)
LEMMA CommitAdvances ==
    ASSUME IInv, NEW c \in Consumers, CommitOk(c) \/ CommitError(c)
    PROVE  \/ UNCHANGED committed
           \/ /\ inflight[c] \in Handled
              /\ inflight[c].off = committed[inflight[c].part]
              /\ committed' = [committed EXCEPT ![inflight[c].part] = @ + 1]
<1> USE DEF IInv, TypeOK
<1> DEFINE q == inflight[c].part
<1>1. inflight[c] \in Event /\ q \in Partitions /\ inflight[c] # NoEvent
  BY NoEventAssumption DEF CommitOk, CommitError, HoldsMessage, Busy, Event
<1>2. inflight[c] \in Handled
  BY DEF CommitOk, CommitError, HoldsMessage
<1>3. inflight[c].off = committed[q] /\ position[q] = committed[q] + 1
  BY <1>1 DEF CommitOk, CommitError, OwnerPosition
<1>4. \A p \in Partitions : p # q /\ owner[p] = c => position[p] = committed[p]
  BY <1>1 DEF OwnerPosition
<1>5. ASSUME CommitOffsets(c)
      PROVE  committed' = [committed EXCEPT ![q] = @ + 1]
  BY <1>1, <1>3, <1>4, <1>5 DEF CommitOffsets, CommitOk, CommitError
<1>6. QED
  BY <1>2, <1>3, <1>5 DEF CommitOk, CommitError

LEMMA CommittedIsHandledStep == IInv /\ [Next]_vars => CommittedIsHandled'
<1> SUFFICES ASSUME IInv, [Next]_vars PROVE CommittedIsHandled'
  OBVIOUS
<1>1. Handled \subseteq Handled'
  BY DEF Handled, Next, vars, Produce, Expire, SessionTimeout, Assign, Revoke,
         Poll, Evict, Crash, Restart, Redeploy, Signal, PollNothing, Process,
         ProcessOk, ProcessMalformed, ProcessError, Commit, CommitOk,
         CommitFenced, CommitError, Exit
<1>2. ASSUME UNCHANGED committed PROVE CommittedIsHandled'
  BY <1>1, <1>2 DEF IInv, CommittedIsHandled
<1>3. ASSUME NEW c \in Consumers, CommitOk(c) \/ CommitError(c)
      PROVE  CommittedIsHandled'
  <2> DEFINE e == inflight[c]
  <2>1. CASE UNCHANGED committed
    BY <2>1, <1>2
  <2>2. CASE /\ e \in Handled
             /\ e.off = committed[e.part]
             /\ committed' = [committed EXCEPT ![e.part] = @ + 1]
    <3> SUFFICES ASSUME NEW p \in Partitions, NEW o \in 0 .. committed'[p] - 1
                 PROVE  [part |-> p, off |-> o] \in Handled
      BY <1>1 DEF CommittedIsHandled
    <3>1. e \in Event
      BY <2>2 DEF IInv, TypeOK, Handled
    <3>2. CASE p = e.part /\ o = committed[p]
      <4>1. e = [part |-> p, off |-> o]
        BY <3>1, <3>2, <2>2 DEF Event
      <4> QED
        BY <4>1, <2>2
    <3>3. CASE ~(p = e.part /\ o = committed[p])
      <4>1. o \in 0 .. committed[p] - 1
        BY <3>3, <2>2 DEF IInv, TypeOK
      <4> QED
        BY <4>1 DEF IInv, CommittedIsHandled
    <3> QED
      BY <3>2, <3>3
  <2> QED
    BY <1>3, <2>1, <2>2, CommitAdvances
<1>4. UNCHANGED committed \/ \E c \in Consumers : CommitOk(c) \/ CommitError(c)
  BY DEF Next, vars, Produce, Expire, SessionTimeout, Assign, Revoke, Poll,
         Evict, Crash, Restart, Redeploy, Signal, PollNothing, Process,
         ProcessOk, ProcessMalformed, ProcessError, Commit, CommitFenced, Exit
<1>5. QED
  BY <1>2, <1>3, <1>4

LEMMA HandledStable ==
    ASSUME IInv, [Next]_vars, NEW e \in Handled
    PROVE  e \in Event /\ Content(e)' = Content(e)
<1>1. e \in Event /\ e.off < Len(log[e.part])
  BY DEF IInv, TypeOK, Handled, WithinLog
<1>2. QED
  BY <1>1, ContentStable DEF IInv

LEMMA FailuresAreErrorsStep == IInv /\ [Next]_vars => FailuresAreErrors'
<1> SUFFICES ASSUME IInv, [Next]_vars PROVE FailuresAreErrors'
  OBVIOUS
<1>1. used'["process"] = 0 => used["process"] = 0
  BY CountsGrow DEF IInv, TypeOK, Faults
<1>2. \A e \in Handled : Valid(e)' <=> Valid(e)
  BY HandledStable DEF Valid
<1>3. ASSUME UNCHANGED <<written, failed>> PROVE FailuresAreErrors'
  BY <1>1, <1>2, <1>3 DEF IInv, FailuresAreErrors, Handled
<1>4. ASSUME NEW c \in Consumers, Process(c) PROVE FailuresAreErrors'
  <2>1. UNCHANGED log
    BY <1>4 DEF Process, ProcessOk, ProcessMalformed, ProcessError
  <2>2. \A e : Valid(e)' <=> Valid(e)
    BY <2>1 DEF Valid, Content
  <2>3. CASE ProcessOk(c)
    BY <2>2, <2>3, <1>1 DEF ProcessOk, IInv, FailuresAreErrors
  <2>4. CASE ProcessMalformed(c)
    BY <2>2, <2>4, <1>1 DEF ProcessMalformed, IInv, FailuresAreErrors
  <2>5. CASE ProcessError(c)
    <3>1. used'["process"] # 0
      BY <2>5, SpendCounts DEF ProcessError, IInv, TypeOK, Faults
    <3> QED
      BY <2>2, <2>5, <3>1 DEF ProcessError, IInv, FailuresAreErrors
  <2> QED
    BY <1>4, <2>3, <2>4, <2>5 DEF Process
<1>5. UNCHANGED <<written, failed>> \/ \E c \in Consumers : Process(c)
  BY DEF Next, vars, Produce, Expire, SessionTimeout, Assign, Revoke, Poll,
         Evict, Crash, Restart, Redeploy, Signal, PollNothing, Commit,
         CommitOk, CommitFenced, CommitError, Exit
<1>6. QED
  BY <1>3, <1>4, <1>5

HoldersOwn == \A c \in Consumers :
                 inflight[c] # NoEvent => owner[inflight[c].part] = c

(* Without an eviction a partition never changes hands under a message.    *)
LEMMA HoldersOwnStep ==
    ASSUME IInv, [Next]_vars, used'["evict"] = 0
    PROVE  HoldersOwn'
<1>1. used["evict"] = 0
  BY CountsGrow DEF IInv, TypeOK, Faults
<1>2. HoldersOwn
  BY <1>1 DEF IInv, NoZombie, HoldersOwn
<1> USE <1>2, NoEventAssumption, OwnerAssumption
    DEF HoldersOwn, IInv, TypeOK, HoldsMessage, Busy
<1>3. ASSUME UNCHANGED <<owner, inflight>> PROVE HoldersOwn'
  BY <1>3
<1>4. ASSUME NEW p \in Partitions, SessionTimeout(p) PROVE HoldersOwn'
  BY <1>4 DEF SessionTimeout
<1>5. ASSUME NEW c \in Consumers, NEW p \in Partitions, Assign(c, p)
      PROVE  HoldersOwn'
  BY <1>5 DEF Assign
<1>6. ASSUME NEW c \in Consumers, NEW p \in Partitions, Revoke(c, p)
      PROVE  HoldersOwn'
  <2>0. \A d \in Consumers : inflight[d] # NoEvent => inflight[d].part \in Partitions
    BY DEF Event
  <2>1. \A d \in Consumers : inflight[d] # NoEvent => inflight[d].part # p
    BY <1>6 DEF Revoke
  <2>2. UNCHANGED inflight /\ owner' = [owner EXCEPT ![p] = NoOwner]
    BY <1>6 DEF Revoke
  <2>3. \A q \in Partitions : q # p => owner'[q] = owner[q]
    BY <2>2
  <2> QED
    BY <2>0, <2>1, <2>2, <2>3
<1>7. ASSUME NEW c \in Consumers, NEW p \in Partitions, Poll(c, p)
      PROVE  HoldersOwn'
  BY <1>7 DEF Poll
<1>8. ASSUME NEW c \in Consumers, Evict(c) PROVE FALSE
  BY <1>8, SpendCounts DEF Evict, Faults
<1>9. ASSUME NEW c \in Consumers, Crash(c) PROVE HoldersOwn'
  <2>1. \A d \in Consumers : d # c /\ inflight[d] # NoEvent =>
           inflight[d].part \in Partitions /\ owner[inflight[d].part] # c
    BY DEF Event
  <2> QED
    BY <1>9, <2>1 DEF Crash
<1>10. ASSUME NEW c \in Consumers, Leave(c), inflight'[c] = NoEvent,
              \A d \in Consumers : d # c => inflight'[d] = inflight[d]
       PROVE  HoldersOwn'
  <2>1. \A d \in Consumers : d # c /\ inflight[d] # NoEvent =>
           inflight[d].part \in Partitions /\ owner[inflight[d].part] # c
    BY DEF Event
  <2> QED
    BY <1>10, <2>1 DEF Leave
<1>11. ASSUME NEW c \in Consumers, Commit(c) PROVE HoldersOwn'
  <2>1. CASE CommitOk(c)
    BY <2>1 DEF CommitOk
  <2>2. CASE CommitFenced(c) \/ CommitError(c)
    BY <2>2, <1>10 DEF CommitFenced, CommitError
  <2> QED
    BY <1>11, <2>1, <2>2 DEF Commit
<1>12. ASSUME NEW c \in Consumers, Exit(c) PROVE HoldersOwn'
  BY <1>12, <1>10 DEF Exit
<1>13. QED
  BY <1>3, <1>4, <1>5, <1>6, <1>7, <1>8, <1>9, <1>11, <1>12
     DEF Next, vars, Produce, Expire, Restart, Redeploy, Signal, PollNothing,
         Process, ProcessOk, ProcessMalformed, ProcessError

(* The owner of a partition stores an offset no event handled for the key  *)
(* exceeds.                                                                *)
LEMMA OwnerStoresNewest ==
    ASSUME IInv, NEW c \in Consumers, Busy(c),
           owner[inflight[c].part] = c, Valid(inflight[c]),
           NEW e \in Handled, Content(e) = Content(inflight[c])
    PROVE  e.part = inflight[c].part /\ e.off <= inflight[c].off
<1> USE DEF IInv, TypeOK
<1> DEFINE d == inflight[c]
<1>1. d \in Event /\ d # NoEvent /\ e \in Event
  BY NoEventAssumption DEF HoldsMessage, Handled
<1>2. /\ d.off < Len(log[d.part]) /\ d.off = committed[d.part]
      /\ e.off < Len(log[e.part]) /\ e.off <= committed[e.part]
  BY <1>1 DEF WithinLog, OwnerPosition, Event
<1>3. /\ d.part \in Partitions /\ d.off \in Nat
      /\ e.part \in Partitions /\ e.off \in Nat
  BY <1>1 DEF Event
<1>4. d.off + 1 \in 1 .. Len(log[d.part]) /\ e.off + 1 \in 1 .. Len(log[e.part])
  BY <1>2, <1>3
<1>5. Content(d) \in Keys
  BY <1>3, <1>4 DEF Content, Valid, Message
<1>6. PartitionOf[Content(d)] = d.part /\ PartitionOf[Content(e)] = e.part
  BY <1>3, <1>4, <1>5 DEF Content, Placed
<1>7. QED
  BY <1>2, <1>6

LEMMA NewestWinsStep ==
    ASSUME IInv, [Next]_vars, used'["evict"] = 0
    PROVE  NewestWins'
<1>1. used["evict"] = 0
  BY CountsGrow DEF IInv, TypeOK, Faults
<1>2. /\ HoldersOwn
      /\ \A e \in written : redis[Content(e)] # Absent => e.off <= redis[Content(e)]
  BY <1>1 DEF IInv, NoZombie, HoldersOwn, NewestWins
<1>3. \A e \in written : e \in Event /\ Content(e)' = Content(e) /\ Valid(e)
                         /\ Content(e) \in Keys
  <2> SUFFICES ASSUME NEW e \in written
               PROVE  e \in Event /\ Content(e)' = Content(e) /\ Valid(e)
                      /\ Content(e) \in Keys
    OBVIOUS
  <2>1. e \in Event /\ Content(e)' = Content(e) /\ Valid(e)
    BY HandledStable DEF Handled, IInv, FailuresAreErrors
  <2>2. e.part \in Partitions /\ e.off + 1 \in 1 .. Len(log[e.part])
    BY <2>1 DEF Event, IInv, WithinLog, Handled, TypeOK
  <2>3. Content(e) \in Message
    BY <2>2 DEF Content, IInv, TypeOK
  <2> QED
    BY <2>1, <2>3 DEF Valid, Message
<1>4. ASSUME UNCHANGED <<written, redis>> PROVE NewestWins'
  BY <1>2, <1>3, <1>4 DEF NewestWins
<1>5. ASSUME NEW k \in Keys, Expire(k) PROVE NewestWins'
  BY <1>2, <1>3, <1>5 DEF NewestWins, Expire, IInv, TypeOK
<1>6. ASSUME NEW c \in Consumers, ProcessMalformed(c) PROVE NewestWins'
  BY <1>4, <1>6 DEF ProcessMalformed
<1>7. ASSUME NEW c \in Consumers, ProcessOk(c) \/ ProcessError(c)
      PROVE  NewestWins'
  <2> DEFINE d == inflight[c]
  <2>1. /\ Busy(c) /\ d \in Event /\ Valid(d) /\ owner[d.part] = c
        /\ UNCHANGED log
    BY <1>2, <1>7, NoEventAssumption
       DEF ProcessOk, ProcessError, Busy, HoldersOwn, IInv, TypeOK, HoldsMessage
  <2>2. UNCHANGED redis \/ redis' = [redis EXCEPT ![Content(d)] = d.off]
    BY <1>7 DEF ProcessOk, ProcessError, Store
  <2>3. \/ UNCHANGED written
        \/ written' = written \union {d} /\ redis' = [redis EXCEPT ![Content(d)] = d.off]
    BY <1>7 DEF ProcessOk, ProcessError, Store
  <2>4. d.part \in Partitions /\ d.off + 1 \in 1 .. Len(log[d.part])
    <3>1. d.part \in Partitions /\ d.off \in Nat
      BY <2>1 DEF Event
    <3>2. d.off < Len(log[d.part])
      BY <2>1, NoEventAssumption DEF IInv, WithinLog
    <3>3. Len(log[d.part]) \in Nat
      BY <3>1, LogGrows DEF IInv
    <3> QED
      BY <3>1, <3>2, <3>3
  <2>5. Content(d) \in Keys
    BY <2>1, <2>4 DEF Content, IInv, TypeOK, Valid, Message
  <2>6. \A e \in written : Content(e) = Content(d) => e.off <= d.off
    BY <2>1, OwnerStoresNewest DEF Handled
  <2>7. d.off \in Nat /\ d.off <= d.off
    BY <2>1 DEF Event
  <2>8. redis \in [Keys -> Nat \union {Absent}]
    BY DEF IInv, TypeOK
  <2>9. ASSUME NEW e \in written'
        PROVE  redis'[Content(e)] # Absent => e.off <= redis'[Content(e)]
    <3>1. CASE e \in written
      <4>1. Content(e) \in Keys /\ (redis[Content(e)] # Absent => e.off <= redis[Content(e)])
        BY <1>2, <1>3, <3>1
      <4>2. CASE UNCHANGED redis
        BY <4>1, <4>2
      <4>3. CASE redis' = [redis EXCEPT ![Content(d)] = d.off] /\ Content(e) = Content(d)
        BY <2>6, <2>8, <3>1, <4>1, <4>3
      <4>4. CASE redis' = [redis EXCEPT ![Content(d)] = d.off] /\ Content(e) # Content(d)
        BY <2>8, <4>1, <4>4
      <4> QED
        BY <2>2, <4>2, <4>3, <4>4
    <3>2. CASE e = d /\ redis' = [redis EXCEPT ![Content(d)] = d.off]
      BY <2>5, <2>7, <2>8, <3>2
    <3> QED
      BY <2>3, <3>1, <3>2
  <2>10. \A e : Content(e)' = Content(e)
    BY <2>1 DEF Content
  <2> QED
    BY <2>9, <2>10 DEF NewestWins
<1>8. \/ UNCHANGED <<written, redis>>
      \/ \E k \in Keys : Expire(k)
      \/ \E c \in Consumers : ProcessOk(c) \/ ProcessMalformed(c) \/ ProcessError(c)
  BY DEF Next, vars, Produce, SessionTimeout, Assign, Revoke, Poll, Evict,
         Crash, Restart, Redeploy, Signal, PollNothing, Process, Commit,
         CommitOk, CommitFenced, CommitError, Exit
<1>9. QED
  BY <1>4, <1>5, <1>6, <1>7, <1>8

LEMMA NoZombieStep == IInv /\ [Next]_vars => NoZombie'
BY HoldersOwnStep, NewestWinsStep DEF NoZombie, HoldersOwn

LEMMA NoDisruption ==
    ASSUME used \in [Faults -> Nat]
    PROVE  Disruptions = 0 <=>
              used["crash"] = 0 /\ used["evict"] = 0 /\ used["commit"] = 0
BY DEF Faults, Disruptions

LEMMA NoRepeatStep == IInv /\ [Next]_vars => NoRepeat'
<1> SUFFICES ASSUME IInv, [Next]_vars, Disruptions' = 0 PROVE NoRepeat'
  BY DEF NoRepeat
<1>1. used \in [Faults -> Nat] /\ used' \in [Faults -> Nat]
  BY CountsGrow DEF IInv, TypeOK
<1>2. used'["crash"] = 0 /\ used'["evict"] = 0 /\ used'["commit"] = 0
  BY <1>1 DEF Faults, Disruptions
<1>3. Disruptions = 0 /\ used["evict"] = 0
  BY <1>1, <1>2, CountsGrow, NoDisruption DEF Faults
<1>4. \A e \in Handled :
         e.off < committed[e.part]
            \/ \E c \in Consumers : pc[c] = "committing" /\ inflight[c] = e
  BY <1>3 DEF IInv, NoRepeat
<1> DEFINE Settled(e) == \/ e.off < committed'[e.part]
                         \/ \E c \in Consumers :
                               pc'[c] = "committing" /\ inflight'[c] = e
<1>5. SUFFICES \A e \in Handled' : Settled(e)
  BY DEF NoRepeat
<1>6. ASSUME UNCHANGED <<written, failed, committed>>,
             \A c \in Consumers : pc[c] = "committing" =>
                pc'[c] = "committing" /\ inflight'[c] = inflight[c]
      PROVE  \A e \in Handled' : Settled(e)
  BY <1>4, <1>6 DEF Handled
<1>7. ASSUME NEW c \in Consumers, Process(c)
      PROVE  \A e \in Handled' : Settled(e)
  <2>1. /\ UNCHANGED <<committed, inflight>>
        /\ pc[c] = "processing" /\ pc' = [pc EXCEPT ![c] = "committing"]
        /\ Handled' = Handled \union {inflight[c]}
    BY <1>7 DEF Process, ProcessOk, ProcessMalformed, ProcessError, Handled
  <2> QED
    BY <1>4, <2>1 DEF IInv, TypeOK
<1>8. ASSUME NEW c \in Consumers, Crash(c) \/ Evict(c) \/ CommitError(c)
      PROVE  FALSE
  BY <1>1, <1>2, <1>8, SpendCounts DEF Crash, Evict, CommitError, Faults
<1>9. ASSUME NEW c \in Consumers, CommitFenced(c) PROVE FALSE
  BY <1>3, <1>9, NoEventAssumption
     DEF CommitFenced, IInv, NoZombie, HoldsMessage, Busy
<1>10. ASSUME NEW c \in Consumers, CommitOk(c)
       PROVE  \A e \in Handled' : Settled(e)
  <2> SUFFICES ASSUME NEW e \in Handled PROVE Settled(e)
    BY <1>10 DEF CommitOk, Handled
  <2> DEFINE d == inflight[c]
  <2>1. /\ d.off = committed[d.part]
        /\ committed' = [committed EXCEPT ![d.part] = @ + 1]
    <3>1. /\ d # NoEvent /\ d \in Event /\ owner[d.part] = c
          /\ CommitOffsets(c)
      BY <1>10, NoEventAssumption
         DEF CommitOk, IInv, TypeOK, HoldsMessage, Busy
    <3>2. d.part \in Partitions
      BY <3>1 DEF Event
    <3>3. d.off = committed[d.part] /\ position[d.part] = committed[d.part] + 1
      BY <3>1, <3>2 DEF IInv, OwnerPosition
    <3>4. \A p \in Partitions : p # d.part /\ owner[p] = c => position[p] = committed[p]
      BY <3>1 DEF IInv, OwnerPosition
    <3> QED
      BY <3>1, <3>2, <3>3, <3>4 DEF CommitOffsets, IInv, TypeOK
  <2>2. e.part \in Partitions /\ e.off \in Nat
    BY DEF IInv, TypeOK, Handled, Event
  <2>3. CASE e.off < committed[e.part]
    BY <2>1, <2>2, <2>3 DEF IInv, TypeOK
  <2>4. CASE e = d
    BY <2>1, <2>2, <2>4 DEF IInv, TypeOK
  <2>5. ASSUME NEW b \in Consumers, b # c, pc[b] = "committing", inflight[b] = e
        PROVE  Settled(e)
    BY <1>10, <2>5 DEF CommitOk, IInv, TypeOK
  <2> QED
    BY <1>4, <2>3, <2>4, <2>5
<1>11. ASSUME NEW c \in Consumers, NEW p \in Partitions, Poll(c, p)
       PROVE  \A e \in Handled' : Settled(e)
  BY <1>6, <1>11 DEF Poll, IInv, TypeOK
<1>12. ASSUME NEW c \in Consumers, Restart(c) \/ Redeploy(c) \/ Exit(c)
       PROVE  \A e \in Handled' : Settled(e)
  BY <1>6, <1>12 DEF Restart, Redeploy, Exit, IInv, TypeOK
<1>13. ASSUME UNCHANGED <<written, failed, committed, pc, inflight>>
       PROVE  \A e \in Handled' : Settled(e)
  BY <1>6, <1>13
<1>14. QED
  BY <1>7, <1>8, <1>9, <1>10, <1>11, <1>12, <1>13
     DEF Next, vars, Produce, Expire, SessionTimeout, Assign, Revoke, Signal,
         PollNothing, Commit

-----------------------------------------------------------------------------
(* The theorems.                                                           *)

LEMMA InitIInv == Init => IInv
BY NoEventAssumption, OwnerAssumption
   DEF Init, IInv, TypeOK, PCs, HoldsMessage, Busy, Handled, WithinLog,
       OwnerPosition, Placed, CommittedIsHandled, FailuresAreErrors, NoZombie,
       NewestWins, NoRepeat, Faults, Absent

LEMMA NextIInv == IInv /\ [Next]_vars => IInv'
BY TypeStep, HoldsMessageStep, WithinLogStep, OwnerPositionStep, PlacedStep,
   CommittedIsHandledStep, FailuresAreErrorsStep, NoZombieStep, NoRepeatStep
   DEF IInv

(* The inductive invariant holds in every reachable state.                 *)
THEOREM Invariance == Spec => []IInv
BY InitIInv, NextIInv, PTL DEF Spec

(* Every variable keeps its type.                                          *)
THEOREM TypeCorrectness == Spec => []TypeOK
<1>1. IInv => TypeOK
  BY DEF IInv
<1>2. QED
  BY <1>1, Invariance, PTL

(* A committed offset is never ahead of the handled messages, and at most  *)
(* one handled message per partition is uncommitted.                       *)
THEOREM CommitFollowsHandling == Spec => [](CommittedIsHandled /\ OneUncommitted)
<1>1. IInv => CommittedIsHandled /\ OneUncommitted
  <2> SUFFICES ASSUME IInv PROVE CommittedIsHandled /\ OneUncommitted
    OBVIOUS
  <2>1. \A c \in Consumers : inflight[c] # NoEvent => inflight[c].part \in Partitions
    BY DEF IInv, TypeOK, Event
  <2> QED
    BY <2>1 DEF IInv, WithinLog, OwnerPosition, OneUncommitted
<1>2. QED
  BY <1>1, Invariance, PTL

(* Without evictions a key never falls behind an event written for it.     *)
THEOREM NewestWinsWithoutEviction == Spec => []NewestWins
<1>1. IInv => NewestWins
  BY DEF IInv, NoZombie, NewestWins
<1>2. QED
  BY <1>1, Invariance, PTL

(* As long as neither the registry nor Redis fails, the documented promise *)
(* holds: a valid message below a committed offset was written to Redis.   *)
THEOREM CommittedIsWrittenWithoutErrors ==
    Spec => [](used["process"] = 0 => CommittedIsWritten)
<1>1. IInv => (used["process"] = 0 => CommittedIsWritten)
  <2> SUFFICES ASSUME IInv, used["process"] = 0,
                      NEW p \in Partitions, NEW o \in 0 .. committed[p] - 1,
                      log[p][o + 1] # Malformed
               PROVE  [part |-> p, off |-> o] \in written
    BY DEF CommittedIsWritten
  <2>1. [part |-> p, off |-> o] \in Handled
    BY DEF IInv, CommittedIsHandled
  <2>2. Valid([part |-> p, off |-> o])
    BY DEF Valid, Content
  <2> QED
    BY <2>1, <2>2 DEF Handled, IInv, FailuresAreErrors
<1>2. QED
  BY <1>1, Invariance, PTL

(* Rebalances and graceful stops never deliver a handled message again.    *)
THEOREM RedeliveryOnlyAfterDisruption == Spec => RedeliveryNeedsDisruption
<1>1. ASSUME IInv, [Next]_vars, NEW c \in Consumers,
             inflight'[c] # inflight[c], inflight'[c] \in Handled
      PROVE  Disruptions > 0
  <2> USE <1>1
  <2>1. Disruptions \in Nat
    BY DEF IInv, TypeOK, Faults, Disruptions
  <2>2. SUFFICES ASSUME Disruptions = 0 PROVE FALSE
    BY <2>1
  <2>3. used["evict"] = 0
    BY <2>2, NoDisruption DEF IInv, TypeOK
  <2>4. inflight'[c] # NoEvent
    BY NoEventAssumption DEF Handled, IInv, TypeOK
  <2>5. PICK p \in Partitions : Poll(c, p)
    <3>1. \/ UNCHANGED inflight
          \/ \E d \in Consumers : inflight' = [inflight EXCEPT ![d] = NoEvent]
          \/ \E d \in Consumers, p \in Partitions : Poll(d, p)
      BY DEF Next, vars, Produce, Expire, SessionTimeout, Assign, Revoke,
             Evict, Crash, Restart, Redeploy, Signal, PollNothing, Process,
             ProcessOk, ProcessMalformed, ProcessError, Commit, CommitOk,
             CommitFenced, CommitError, Exit
    <3>2. PICK d \in Consumers, p \in Partitions : Poll(d, p)
      BY <1>1, <2>4, <3>1 DEF IInv, TypeOK
    <3>3. d = c
      BY <1>1, <3>2 DEF Poll, IInv, TypeOK
    <3> QED
      BY <3>2, <3>3
  <2>6. /\ inflight'[c] = [part |-> p, off |-> committed[p]]
        /\ pc[c] = "polling" /\ owner[p] = c
    BY <2>5, NoEventAssumption
       DEF Poll, IInv, TypeOK, OwnerPosition, HoldsMessage, Busy
  <2>7. PICK d \in Consumers : pc[d] = "committing" /\ inflight[d] = inflight'[c]
    <3>1. inflight'[c].part = p /\ inflight'[c].off = committed[p]
      BY <2>6
    <3>2. ~(inflight'[c].off < committed[inflight'[c].part])
      BY <3>1 DEF IInv, TypeOK
    <3> QED
      BY <1>1, <2>2, <3>2 DEF IInv, NoRepeat
  <2>8. owner[p] = d
    BY <2>3, <2>4, <2>6, <2>7 DEF IInv, NoZombie
  <2> QED
    BY <2>6, <2>7, <2>8
<1>2. IInv /\ [Next]_vars =>
         [\A c \in Consumers :
             inflight'[c] # inflight[c] /\ inflight'[c] \in Handled
                => Disruptions > 0]_vars
  BY <1>1
<1>3. QED
  BY <1>2, Invariance, PTL DEF Spec, RedeliveryNeedsDisruption

(* A key goes back to an older event only at the hands of a consumer that  *)
(* lost the partition while it held the message.                           *)
THEOREM GoingBackNeedsAZombie == Spec => OnlyZombiesGoBack
<1>1. ASSUME IInv, [Next]_vars, NEW k \in Keys, NEW e \in Handled,
             Content(e) = k, redis'[k] # redis[k], redis'[k] # Absent,
             redis'[k] < e.off
      PROVE  \E c \in Consumers :
                /\ inflight[c] = [part |-> e.part, off |-> redis'[k]]
                /\ owner[e.part] # c
  <2> USE <1>1
  <2>1. PICK c \in Consumers : Process(c) /\ Valid(inflight[c]) /\ Store(inflight[c])
    <3>1. \/ UNCHANGED redis
          \/ \E j \in Keys : redis' = [redis EXCEPT ![j] = Absent]
          \/ \E c \in Consumers : Process(c) /\ Valid(inflight[c]) /\ Store(inflight[c])
      BY DEF Next, vars, Produce, Expire, SessionTimeout, Assign, Revoke,
             Poll, Evict, Crash, Restart, Redeploy, Signal, PollNothing,
             Process, ProcessOk, ProcessMalformed, ProcessError, Commit,
             CommitOk, CommitFenced, CommitError, Exit
    <3> QED
      BY <1>1, <3>1 DEF IInv, TypeOK
  <2> DEFINE d == inflight[c]
  <2>2. Busy(c) /\ d # NoEvent /\ d \in Event
    BY <2>1 DEF Process, ProcessOk, ProcessMalformed, ProcessError, Busy, IInv,
                TypeOK, HoldsMessage
  <2>3. Content(d) = k /\ redis'[k] = d.off
    BY <1>1, <2>1 DEF Store, IInv, TypeOK
  <2>4. e.part = d.part
    <3>1. /\ d.part \in Partitions /\ d.off + 1 \in 1 .. Len(log[d.part])
          /\ e.part \in Partitions /\ e.off + 1 \in 1 .. Len(log[e.part])
      <4>1. /\ d.part \in Partitions /\ d.off \in Nat
            /\ e.part \in Partitions /\ e.off \in Nat
        BY <2>2 DEF Event, Handled, IInv, TypeOK
      <4>2. d.off < Len(log[d.part]) /\ e.off < Len(log[e.part])
        BY <2>2 DEF IInv, WithinLog
      <4>3. Len(log[d.part]) \in Nat /\ Len(log[e.part]) \in Nat
        BY <4>1, LogGrows DEF IInv
      <4> QED
        BY <4>1, <4>2, <4>3
    <3> QED
      BY <1>1, <2>3, <3>1 DEF IInv, Placed, Content
  <2>5. d = [part |-> e.part, off |-> redis'[k]]
    BY <2>2, <2>3, <2>4 DEF Event
  <2>6. owner[e.part] # c
    <3> SUFFICES ASSUME owner[d.part] = c PROVE FALSE
      BY <2>4
    <3>1. e.off <= d.off
      BY <1>1, <2>1, <2>2, <2>3, OwnerStoresNewest
    <3>2. e.off \in Nat /\ d.off \in Nat
      BY <2>2 DEF Event, Handled, IInv, TypeOK
    <3> QED
      BY <1>1, <2>3, <3>1, <3>2
  <2> QED
    BY <2>5, <2>6
<1>2. IInv /\ [Next]_vars =>
         [\A k \in Keys, e \in Handled :
             Content(e) = k /\ redis'[k] # redis[k] /\ redis'[k] # Absent
                /\ redis'[k] < e.off =>
                   \E c \in Consumers :
                      /\ inflight[c] = [part |-> e.part, off |-> redis'[k]]
                      /\ owner[e.part] # c]_vars
  BY <1>1
<1>3. QED
  BY <1>2, Invariance, PTL DEF Spec, OnlyZombiesGoBack

(* The group implements at-least-once delivery in order: each step appends *)
(* a message, handles one no further than the first uncommitted offset,    *)
(* acknowledges one handled message, or changes none of these.             *)
THEOREM Refinement == Spec => ImplementsDelivery
<1>1. Init => Delivery!Init
  BY DEF Init, Delivery!Init, Handled
<1>2. ASSUME IInv, [Next]_vars
      PROVE  [Delivery!Next]_<<log, committed, Handled>>
  <2> USE <1>2
  <2>1. ASSUME UNCHANGED <<log, committed, written, failed>>
        PROVE  UNCHANGED <<log, committed, Handled>>
    BY <2>1 DEF Handled
  <2>2. ASSUME NEW p \in Partitions, NEW m \in Message, Produce(p, m)
        PROVE  Delivery!Next
    BY <2>2 DEF Produce, Delivery!Next, Delivery!Appended, Handled
  <2>3. ASSUME NEW c \in Consumers, Process(c)
        PROVE  Delivery!Next
    <3> DEFINE d == inflight[c]
    <3>1. UNCHANGED <<log, committed>> /\ Handled' = Handled \union {d}
      BY <2>3 DEF Process, ProcessOk, ProcessMalformed, ProcessError, Handled
    <3>2. d \in Event /\ d # NoEvent
      BY <2>3 DEF Process, ProcessOk, ProcessMalformed, ProcessError, IInv,
                  TypeOK, HoldsMessage, Busy
    <3>3. /\ d.part \in Partitions /\ d.off \in Nat
          /\ d = [part |-> d.part, off |-> d.off]
      BY <3>2 DEF Event
    <3>4. d.off < Len(log[d.part]) /\ d.off \in 0 .. committed[d.part]
      BY <3>2, <3>3 DEF IInv, TypeOK, WithinLog
    <3> QED
      BY <3>1, <3>3, <3>4 DEF Delivery!Next, Delivery!Handle
  <2>4. ASSUME NEW c \in Consumers, CommitOk(c) \/ CommitError(c)
        PROVE  Delivery!Next \/ UNCHANGED <<log, committed, Handled>>
    <3> DEFINE d == inflight[c]
    <3>1. UNCHANGED <<log, Handled>>
      BY <2>4 DEF CommitOk, CommitError, Handled
    <3>2. CASE UNCHANGED committed
      BY <3>1, <3>2
    <3>3. CASE /\ d \in Handled
               /\ d.off = committed[d.part]
               /\ committed' = [committed EXCEPT ![d.part] = @ + 1]
      <4>1. d.part \in Partitions /\ d = [part |-> d.part, off |-> d.off]
        BY <3>3 DEF IInv, TypeOK, Handled, Event
      <4> QED
        BY <3>1, <3>3, <4>1 DEF Delivery!Next, Delivery!Advance
    <3> QED
      BY <2>4, <3>2, <3>3, CommitAdvances
  <2>5. \/ UNCHANGED <<log, committed, written, failed>>
        \/ \E p \in Partitions, m \in Message : Produce(p, m)
        \/ \E c \in Consumers : Process(c) \/ CommitOk(c) \/ CommitError(c)
    BY DEF Next, vars, Expire, SessionTimeout, Assign, Revoke, Poll, Evict,
           Crash, Restart, Redeploy, Signal, PollNothing, Commit,
           CommitFenced, Exit
  <2> QED
    BY <2>1, <2>2, <2>3, <2>4, <2>5
<1>3. QED
  BY <1>1, <1>2, Invariance, PTL DEF Spec, ImplementsDelivery, Delivery!Spec
=============================================================================
