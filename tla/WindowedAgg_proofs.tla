------------------------- MODULE WindowedAgg_proofs -------------------------
(***************************************************************************)
(* Proofs about WindowedAgg, for all timestamps, sizes and buffer limits.  *)
(*                                                                         *)
(* The buckets are a function of what was ingested, which proves the       *)
(* tumbling windows exact.  For the sliding window the invariant says what *)
(* the deque still holds after pruning and capping (Kept), and what a      *)
(* sorted stream adds (Sorted).                                            *)
(***************************************************************************)
EXTENDS WindowedAgg, SequenceTheorems, TLAPS

Known ==
    /\ \A e \in ingested : e.n <= total /\ e.ts <= lastTs
    /\ ingested # {} => \E e \in ingested : e.ts = lastTs
    /\ ingested = {} => lastTs = 0

BucketsOfIngested ==
    buckets = {[size |-> s, start |-> Start(s, e.ts), event |-> e] :
                  s \in Sizes, e \in ingested}

Buffered ==
    /\ \A i \in 1 .. Len(buffer) : buffer[i] \in ingested
    /\ \A i, j \in 1 .. Len(buffer) : i < j => buffer[i].n < buffer[j].n
    /\ Len(buffer) <= MaxBuffer

Kept ==
    ~capped =>
       /\ \A e \in ingested : e.ts >= Cutoff(lastTs) =>
             \E i \in 1 .. Len(buffer) : buffer[i] = e
       /\ buffer # << >> => buffer[1].ts >= Cutoff(lastTs)

Sorted ==
    InOrder =>
       /\ \A i \in 1 .. Len(buffer) : buffer[i].ts >= Cutoff(lastTs)
       /\ ingested # {} => buffer # << >> /\ buffer[Len(buffer)].ts = lastTs

IInv ==
    /\ TypeOK
    /\ Known
    /\ BucketsOfIngested
    /\ Buffered
    /\ Kept
    /\ Sorted

-----------------------------------------------------------------------------
(* Multiples of a size, and the bucket a timestamp belongs to. *)

LEMMA Division ==
    ASSUME NEW s \in Nat \ {0}, NEW t \in Nat
    PROVE  t \div s \in Nat /\ (t \div s) * s <= t /\ t < (t \div s) * s + s
BY SMTT(30)

LEMMA MultipleOrder ==
    ASSUME NEW s \in Nat \ {0}, NEW i \in Int, NEW k \in Int
    PROVE  /\ i * s < k * s => i + 1 <= k
           /\ i + 1 <= k => i * s + s <= k * s
BY Z3T(30)

LEMMA Product ==
    ASSUME NEW i \in Nat, NEW s \in Nat
    PROVE  i * s \in Nat
BY Z3T(30)

LEMMA StartBounds ==
    ASSUME NEW s \in Nat \ {0}, NEW t \in Nat
    PROVE  Start(s, t) \in Nat /\ Start(s, t) <= t /\ t < Start(s, t) + s
BY Division, Product DEF Start

LEMMA StartIsUnique ==
    ASSUME NEW s \in Nat \ {0}, NEW t \in Nat, NEW u \in Nat,
           Start(s, t) <= u, u < Start(s, t) + s
    PROVE  Start(s, u) = Start(s, t)
<1> DEFINE i == t \div s
           k == u \div s
<1>1. i \in Nat /\ k \in Nat /\ i * s \in Nat /\ k * s \in Nat
  BY Division, Product
<1>2. k * s <= u /\ u < k * s + s
  BY Division
<1>3. i * s <= u /\ u < i * s + s
  BY DEF Start
<1> HIDE DEF i, k
<1>4. ~(i + 1 <= k) /\ ~(k + 1 <= i)
  BY <1>1, <1>2, <1>3, MultipleOrder
<1>5. i = k
  BY <1>1, <1>4
<1> QED
  BY <1>5 DEF Start, i, k

(* Where one size divides the other, a fine bucket lies within one coarse  *)
(* bucket.                                                                 *)
LEMMA Multiple ==
    ASSUME NEW s \in Nat \ {0}, NEW t \in Nat, t % s = 0
    PROVE  t = (t \div s) * s
BY SMTT(30)

LEMMA FineWithinCoarse ==
    ASSUME NEW fine \in Nat \ {0}, NEW coarse \in Nat \ {0}, coarse % fine = 0,
           NEW t \in Nat
    PROVE  /\ Start(coarse, t) <= Start(fine, t)
           /\ Start(fine, t) + fine <= Start(coarse, t) + coarse
<1> DEFINE q == coarse \div fine
           i == t \div fine
           j == t \div coarse
<1>1. q \in Nat /\ i \in Nat /\ j \in Nat /\ j * q \in Nat
  BY Division, Product
<1>2. coarse = q * fine
  BY Multiple
<1>3. i * fine <= t /\ t < i * fine + fine
  BY Division
<1>4. j * coarse <= t /\ t < j * coarse + coarse
  BY Division
<1> HIDE DEF q, i, j
<1>5. j * coarse = (j * q) * fine /\ j * coarse + coarse = (j * q + q) * fine
  BY <1>1, <1>2, Z3T(30)
<1>6. i * fine \in Nat /\ j * coarse \in Nat /\ i * fine + fine = (i + 1) * fine
  BY <1>1, Product, Z3T(30)
<1>7. (j * q) * fine < (i + 1) * fine /\ i * fine < (j * q + q) * fine
  BY <1>1, <1>3, <1>4, <1>5, <1>6
<1>8. j * q + 1 <= i + 1 /\ i + 1 <= j * q + q
  BY <1>1, <1>7, MultipleOrder
<1>9. (j * q) * fine + fine <= (i + 1) * fine /\ i * fine + fine <= (j * q + q) * fine
  BY <1>1, <1>8, MultipleOrder
<1> QED
  BY <1>5, <1>6, <1>9 DEF Start, i, j

LEMMA SumOfMultiples ==
    ASSUME NEW s \in Nat \ {0}, NEW c \in Nat, c % s = 0, NEW k \in Nat
    PROVE  (c + k * s) % s = 0
<1> DEFINE q == c \div s
<1>1. q \in Nat /\ c = q * s
  BY Division, Multiple
<1> HIDE DEF q
<1>2. c + k * s = (q + k) * s
  BY <1>1, Z3T(30)
<1>3. ((q + k) * s) % s = 0
  BY <1>1, Z3T(30)
<1> QED
  BY <1>2, <1>3

-----------------------------------------------------------------------------
LEMMA DropProperties ==
    ASSUME NEW S, NEW s \in Seq(S), NEW n \in 0 .. Len(s)
    PROVE  /\ Drop(s, n) \in Seq(S)
           /\ Len(Drop(s, n)) = Len(s) - n
           /\ \A i \in 1 .. Len(s) - n : Drop(s, n)[i] = s[i + n]
<1>1. Len(s) \in Nat
  OBVIOUS
<1>2. \A i \in n + 1 .. Len(s) : s[i] \in S
  BY <1>1
<1> QED
  BY <1>1, <1>2, SubSeqProperties DEF Drop

-----------------------------------------------------------------------------
LEMMA InitIInv == Init => IInv
<1> SUFFICES ASSUME Init PROVE IInv
  OBVIOUS
<1>1. TypeOK
  <2>1. ingested \subseteq Event /\ capped \in BOOLEAN
    BY DEF Init
  <2>2. buckets \subseteq [size : Sizes, start : Nat, event : Event]
    BY DEF Init
  <2>3. total \in Nat /\ lastTs \in Nat /\ buffer \in Seq(Event)
    BY DEF Init
  <2> QED
    BY <2>1, <2>2, <2>3 DEF TypeOK
<1>2. BucketsOfIngested
  BY DEF Init, BucketsOfIngested
<1>3. Known /\ Buffered /\ Kept /\ Sorted
  BY SlidingAssumption DEF Init, Known, Buffered, Kept, Sorted
<1> QED
  BY <1>1, <1>2, <1>3 DEF IInv

(* What ingest does to the deque: of the buffer with the event e appended, *)
(* the first d events go, the first n of them because they are old.        *)
LEMMA IngestBuffer ==
    ASSUME IInv, NEW t \in Times, Ingest(t)
    PROVE  LET e   == [n |-> total + 1, ts |-> t]
               all == Append(buffer, e)
           IN  /\ e \in Event
               /\ Len(all) = Len(buffer) + 1
               /\ \A i \in 1 .. Len(buffer) : all[i] = buffer[i]
               /\ all[Len(buffer) + 1] = e
               /\ \E n, d \in 0 .. Len(all) :
                     /\ Prunes(all, n, Cutoff(lastTs'))
                     /\ n <= d
                     /\ n < Len(all) => d < Len(all)
                     /\ ~capped' => d = n /\ ~capped
                     /\ buffer' \in Seq(Event)
                     /\ Len(buffer') = Len(all) - d
                     /\ Len(buffer') <= MaxBuffer
                     /\ \A i \in 1 .. Len(buffer') : buffer'[i] = all[i + d]
<1> DEFINE e   == [n |-> total + 1, ts |-> t]
           all == Append(buffer, e)
<1>1. e \in Event
  BY DEF IInv, TypeOK, Event
<1>2. buffer \in Seq(Event)
  BY DEF IInv, TypeOK
<1>3. /\ all \in Seq(Event)
      /\ Len(all) = Len(buffer) + 1
      /\ \A i \in 1 .. Len(buffer) : all[i] = buffer[i]
      /\ all[Len(buffer) + 1] = e
  BY <1>1, <1>2
<1>4. PICK n \in 0 .. Len(all) :
         /\ Prunes(all, n, Cutoff(lastTs'))
         /\ buffer' = Drop(all, n + Excess(Drop(all, n)))
         /\ capped' = (capped \/ Excess(Drop(all, n)) > 0)
  BY DEF Ingest, IngestSliding
<1> HIDE DEF e, all
<1> DEFINE x == Excess(Drop(all, n))
           d == n + x
<1>5. Len(buffer) \in Nat /\ Len(all) \in Nat
  BY <1>2, <1>3
<1>6. Len(Drop(all, n)) = Len(all) - n
  BY <1>3, DropProperties
<1>7. x = IF Len(all) - n > MaxBuffer THEN Len(all) - n - MaxBuffer ELSE 0
  BY <1>6 DEF Excess
<1>8. /\ x \in Nat /\ d \in 0 .. Len(all) /\ n <= d
      /\ Len(all) - d <= MaxBuffer
      /\ n < Len(all) => d < Len(all)
  BY <1>5, <1>7, SlidingAssumption
<1>9. buffer' = Drop(all, d)
  BY <1>4
<1>10. /\ buffer' \in Seq(Event)
       /\ Len(buffer') = Len(all) - d
       /\ \A i \in 1 .. Len(all) - d : buffer'[i] = all[i + d]
  BY <1>3, <1>8, <1>9, DropProperties
<1>11. ~capped' => d = n /\ ~capped
  <2>1. ~capped' => ~(x > 0) /\ ~capped
    BY <1>4, Zenon
  <2>2. ~(x > 0) => d = n
    BY <1>8
  <2> QED
    BY <2>1, <2>2, Zenon
<1> QED
  BY <1>1, <1>3, <1>4, <1>8, <1>10, <1>11 DEF e, all

LEMMA IngestIInv ==
    ASSUME IInv, NEW t \in Times, Ingest(t)
    PROVE  IInv'
<1> DEFINE e   == [n |-> total + 1, ts |-> t]
           all == Append(buffer, e)
           cut == Cutoff(lastTs')
<1>1. /\ e \in Event
      /\ Len(all) = Len(buffer) + 1
      /\ \A i \in 1 .. Len(buffer) : all[i] = buffer[i]
      /\ all[Len(buffer) + 1] = e
  BY IngestBuffer
<1>2. PICK n \in 0 .. Len(all), d \in 0 .. Len(all) :
         /\ Prunes(all, n, cut)
         /\ n <= d
         /\ n < Len(all) => d < Len(all)
         /\ ~capped' => d = n /\ ~capped
         /\ buffer' \in Seq(Event)
         /\ Len(buffer') = Len(all) - d
         /\ Len(buffer') <= MaxBuffer
         /\ \A i \in 1 .. Len(buffer') : buffer'[i] = all[i + d]
  BY IngestBuffer
<1>3. e.n = total + 1 /\ e.ts = t /\ t \in Nat
  BY TimesAssumption
<1>4. /\ total' = total + 1
      /\ ingested' = ingested \union {e}
      /\ lastTs' = IF t > lastTs THEN t ELSE lastTs
      /\ buckets' = buckets \union
            {[size |-> s, start |-> Start(s, e.ts), event |-> e] : s \in Sizes}
      /\ capped' \in BOOLEAN
  BY <1>3 DEF Ingest, IngestTumbling, IngestSliding
<1> HIDE DEF e, all
<1>5. /\ total \in Nat /\ lastTs \in Nat /\ lastTs' \in Nat /\ lastTs <= lastTs'
      /\ t <= lastTs'
      /\ Len(buffer) \in Nat /\ Len(all) \in Nat
  BY <1>1, <1>3, <1>4 DEF IInv, TypeOK
<1>6. cut \in Int /\ Cutoff(lastTs) \in Int /\ Cutoff(lastTs) <= cut /\ cut <= lastTs'
  <2>1. cut = lastTs' - (Window + Step) /\ Cutoff(lastTs) = lastTs - (Window + Step)
    BY DEF Cutoff
  <2>2. lastTs \in Int /\ lastTs' \in Int /\ lastTs <= lastTs'
    BY <1>5
  <2>3. Window + Step \in Nat
    BY SlidingAssumption
  <2>4. /\ lastTs' - (Window + Step) \in Int /\ lastTs - (Window + Step) \in Int
        /\ lastTs - (Window + Step) <= lastTs' - (Window + Step)
        /\ lastTs' - (Window + Step) <= lastTs'
    BY <2>2, <2>3
  <2> HIDE DEF cut
  <2> QED
    BY <2>1, <2>4
<1> HIDE DEF cut
<1>7. \A x \in ingested' : x.n \in Nat /\ x.ts \in Nat
  BY <1>1, <1>4, TimesAssumption DEF IInv, TypeOK, Event
<1>8. \A i \in 1 .. Len(all) : all[i] \in ingested' /\ (i <= Len(buffer) => all[i] \in ingested)
  BY <1>1, <1>4, <1>5 DEF IInv, Buffered
<1>9. \A i, j \in 1 .. Len(all) : i < j => all[i].n < all[j].n
  <2> SUFFICES ASSUME NEW i \in 1 .. Len(all), NEW j \in 1 .. Len(all), i < j
               PROVE  all[i].n < all[j].n
    OBVIOUS
  <2>1. CASE j <= Len(buffer)
    <3>1. i \in 1 .. Len(buffer) /\ j \in 1 .. Len(buffer)
      BY <1>5, <2>1
    <3> QED
      BY <1>1, <3>1 DEF IInv, Buffered
  <2>2. CASE j = Len(buffer) + 1
    <3>1. i \in 1 .. Len(buffer) /\ all[j] = e
      BY <1>1, <1>5, <2>2
    <3>2. all[i].n <= total /\ all[i].n \in Nat
      BY <1>4, <1>7, <1>8, <3>1, <1>1, <1>5 DEF IInv, Known
    <3> QED
      BY <1>3, <1>5, <3>1, <3>2
  <2> QED
    BY <1>1, <1>5, <2>1, <2>2
<1>10. TypeOK'
  <2>1. ingested' \subseteq Event
    BY <1>1, <1>4 DEF IInv, TypeOK
  <2>2. \A s \in Sizes :
           [size |-> s, start |-> Start(s, e.ts), event |-> e]
              \in [size : Sizes, start : Nat, event : Event]
    BY <1>1, <1>3, StartBounds, SizesAssumption
  <2>3. buckets' \subseteq [size : Sizes, start : Nat, event : Event]
    BY <1>4, <2>2 DEF IInv, TypeOK
  <2> QED
    BY <1>2, <1>4, <1>5, <2>1, <2>3 DEF TypeOK
<1>11. Known'
  <2>1. \A x \in ingested' : x.n <= total' /\ x.ts <= lastTs'
    <3>1. e.n <= total' /\ e.ts <= lastTs'
      BY <1>3, <1>4, <1>5
    <3>2. \A x \in ingested : x.n <= total /\ x.ts <= lastTs /\ x.n \in Nat /\ x.ts \in Nat
      BY <1>4, <1>7 DEF IInv, Known
    <3> QED
      BY <1>4, <1>5, <3>1, <3>2
  <2>2. \E x \in ingested' : x.ts = lastTs'
    BY <1>3, <1>4 DEF IInv, Known
  <2> QED
    BY <1>4, <2>1, <2>2 DEF Known
<1>12. BucketsOfIngested'
  BY <1>4 DEF IInv, BucketsOfIngested
<1>13. \A i \in 1 .. Len(buffer') : i + d \in 1 .. Len(all)
  BY <1>2, <1>5
<1>14. Buffered'
  <2>1. \A i \in 1 .. Len(buffer') : buffer'[i] \in ingested'
    BY <1>2, <1>8, <1>13
  <2>2. \A i, j \in 1 .. Len(buffer') : i < j => buffer'[i].n < buffer'[j].n
    BY <1>2, <1>9, <1>13
  <2> QED
    BY <1>2, <2>1, <2>2 DEF Buffered
<1>15. \A i \in 1 .. n : all[i].ts < cut
  BY <1>2 DEF Prunes
<1>16. n < Len(all) => all[n + 1].ts >= cut
  BY <1>2 DEF Prunes
<1>17. Kept'
  <2> SUFFICES ASSUME ~capped'
               PROVE  /\ \A x \in ingested' : x.ts >= cut =>
                            \E i \in 1 .. Len(buffer') : buffer'[i] = x
                      /\ buffer' # << >> => buffer'[1].ts >= cut
    BY DEF Kept, cut
  <2>1. d = n /\ ~capped
    BY <1>2
  <2>2. ASSUME NEW x \in ingested', x.ts >= cut
        PROVE  \E i \in 1 .. Len(buffer') : buffer'[i] = x
    <3>1. PICK j \in 1 .. Len(all) : all[j] = x
      <4>1. CASE x = e
        BY <1>1, <1>5, <4>1
      <4>2. CASE x \in ingested
        <5>1. x.ts >= Cutoff(lastTs)
          BY <1>6, <1>7, <2>2
        <5>2. PICK j \in 1 .. Len(buffer) : buffer[j] = x
          BY <2>1, <4>2, <5>1 DEF IInv, Kept
        <5> QED
          BY <1>1, <1>5, <5>2
      <4> QED
        BY <1>4, <4>1, <4>2
    <3>2. j \notin 1 .. n
      BY <1>6, <1>7, <1>15, <2>2, <3>1
    <3>3. j - n \in 1 .. Len(buffer')
      BY <1>2, <1>5, <2>1, <3>2
    <3>4. buffer'[j - n] = all[(j - n) + n]
      BY <1>2, <2>1, <3>3
    <3> QED
      BY <3>1, <3>3, <3>4
  <2>3. ASSUME buffer' # << >>
        PROVE  buffer'[1].ts >= cut
    <3>1. Len(buffer') >= 1 /\ n < Len(all)
      BY <1>2, <1>5, <2>1, <2>3
    <3>2. buffer'[1] = all[1 + n]
      BY <1>2, <2>1, <3>1
    <3> QED
      BY <1>16, <3>1, <3>2
  <2> QED
    BY <2>2, <2>3
<1>18. Sorted'
  <2> SUFFICES ASSUME InOrder'
               PROVE  /\ \A i \in 1 .. Len(buffer') : buffer'[i].ts >= cut
                      /\ buffer' # << >>
                      /\ buffer'[Len(buffer')].ts = lastTs'
    BY DEF Sorted, cut
  <2>1. \A x \in ingested : x.ts <= t
    <3>1. \A x \in ingested : x.n < e.n
      BY <1>3, <1>4, <1>5, <1>7 DEF IInv, Known
    <3> QED
      BY <1>3, <1>4, <3>1 DEF InOrder
  <2>2. lastTs' = t
    BY <1>3, <1>4, <1>5, <2>1 DEF IInv, Known
  <2>3. \A i, j \in 1 .. Len(all) : i < j => all[i].ts <= all[j].ts
    BY <1>8, <1>9 DEF InOrder
  <2>4. all[Len(all)] = e /\ Len(all) >= 1
    BY <1>1, <1>5
  <2>5. n < Len(all) /\ d < Len(all)
    <3>1. n # Len(all)
      BY <1>3, <1>5, <1>6, <1>15, <2>2, <2>4
    <3> QED
      BY <1>2, <1>5, <3>1
  <2>6. \A i \in 1 .. Len(all) : i > n => all[i].ts >= cut
    <3> SUFFICES ASSUME NEW i \in 1 .. Len(all), i > n
                 PROVE  all[i].ts >= cut
      OBVIOUS
    <3>1. n + 1 \in 1 .. Len(all) /\ all[n + 1].ts >= cut
      BY <1>5, <1>16, <2>5
    <3>2. CASE i = n + 1
      BY <3>1, <3>2
    <3>3. CASE i # n + 1
      <4>1. n + 1 < i
        BY <1>5, <3>3
      <4>2. all[n + 1].ts <= all[i].ts
        BY <2>3, <3>1, <4>1
      <4>3. all[i].ts \in Nat /\ all[n + 1].ts \in Nat
        BY <1>7, <1>8, <3>1
      <4> QED
        BY <1>6, <3>1, <4>2, <4>3
    <3> QED
      BY <3>2, <3>3
  <2>7. \A i \in 1 .. Len(buffer') : buffer'[i].ts >= cut
    <3> SUFFICES ASSUME NEW i \in 1 .. Len(buffer')
                 PROVE  buffer'[i].ts >= cut
      OBVIOUS
    <3>1. buffer'[i] = all[i + d]
      BY <1>2, <1>5
    <3>2. i + d \in 1 .. Len(all) /\ i + d > n
      BY <1>2, <1>5, <1>13
    <3> QED
      BY <2>6, <3>1, <3>2
  <2>8. Len(buffer') \in 1 .. Len(buffer') /\ buffer'[Len(buffer')] = all[Len(all)]
    BY <1>2, <1>5, <2>5
  <2> QED
    BY <1>3, <2>2, <2>4, <2>7, <2>8
<1> QED
  BY <1>10, <1>11, <1>12, <1>14, <1>17, <1>18 DEF IInv

LEMMA Invariance == Spec => []IInv
<1>1. IInv /\ [Next]_vars => IInv'
  <2> SUFFICES ASSUME IInv, [Next]_vars PROVE IInv'
    OBVIOUS
  <2>1. CASE Next
    BY <2>1, IngestIInv DEF Next
  <2>2. CASE UNCHANGED vars
    BY <2>2 DEF vars, IInv, TypeOK, Known, BucketsOfIngested, Buffered, Kept, Sorted,
                InOrder
  <2> QED
    BY <2>1, <2>2
<1> QED
  BY InitIInv, <1>1, PTL DEF Spec

(* Every bucket starts at a natural number and holds events.               *)
THEOREM TypeCorrectness == Spec => []TypeOK
<1>1. IInv => TypeOK
  BY DEF IInv
<1> QED
  BY Invariance, <1>1, PTL

-----------------------------------------------------------------------------
(* Tumbling windows. *)

LEMMA BucketContents ==
    ASSUME IInv, NEW s \in Sizes
    PROVE  /\ Flush(s) = {Start(s, e.ts) : e \in ingested}
           /\ \A w : Bucket(s, w) = {e \in ingested : Start(s, e.ts) = w}
<1>1. \A b \in buckets : /\ b.event \in ingested
                         /\ b.start = Start(b.size, b.event.ts)
  BY DEF IInv, BucketsOfIngested
<1>2. \A e \in ingested : \E b \in buckets :
         b.size = s /\ b.start = Start(s, e.ts) /\ b.event = e
  <2> TAKE e \in ingested
  <2> DEFINE b == [size |-> s, start |-> Start(s, e.ts), event |-> e]
  <2>1. b \in buckets
    BY DEF IInv, BucketsOfIngested
  <2>2. b.size = s /\ b.start = Start(s, e.ts) /\ b.event = e
    OBVIOUS
  <2> HIDE DEF b
  <2> QED
    BY <2>1, <2>2
<1>3. Flush(s) = {Start(s, e.ts) : e \in ingested}
  <2>1. ASSUME NEW w \in Flush(s) PROVE \E e \in ingested : w = Start(s, e.ts)
    <3>1. PICK b \in buckets : b.size = s /\ w = b.start
      BY <2>1 DEF Flush
    <3> QED
      BY <1>1, <3>1
  <2>2. ASSUME NEW e \in ingested PROVE Start(s, e.ts) \in Flush(s)
    BY <1>2 DEF Flush
  <2> QED
    BY <2>1, <2>2
<1>4. ASSUME NEW w PROVE Bucket(s, w) = {e \in ingested : Start(s, e.ts) = w}
  <2>1. ASSUME NEW x \in Bucket(s, w) PROVE x \in ingested /\ Start(s, x.ts) = w
    <3>1. PICK b \in buckets : b.size = s /\ b.start = w /\ x = b.event
      BY <2>1 DEF Bucket
    <3> QED
      BY <1>1, <3>1
  <2>2. ASSUME NEW x \in ingested, Start(s, x.ts) = w PROVE x \in Bucket(s, w)
    BY <1>2, <2>2 DEF Bucket
  <2> QED
    BY <2>1, <2>2
<1> QED
  BY <1>3, <1>4

(* TumblingWindowEngine.ingest: floor division puts each event, late or    *)
(* not, in the one bucket whose range contains it, and the buckets of      *)
(* sizes that divide each other agree.                                     *)
THEOREM TumblingWindows == Spec => []TumblingExact
<1>1. ASSUME IInv PROVE TumblingExact
  <2>1. \A e \in ingested : e.ts \in Nat
    BY <1>1, TimesAssumption DEF IInv, TypeOK, Event
  <2>2. ASSUME NEW s \in Sizes, NEW w \in Flush(s)
        PROVE  Bucket(s, w) = {e \in ingested : w <= e.ts /\ e.ts < w + s}
    <3>1. PICK x \in ingested : w = Start(s, x.ts)
      BY <1>1, <2>2, BucketContents
    <3>2. s \in Nat \ {0}
      BY SizesAssumption
    <3>3. \A e \in ingested : Start(s, e.ts) = w <=> w <= e.ts /\ e.ts < w + s
      BY <2>1, <3>1, <3>2, StartBounds, StartIsUnique
    <3> QED
      BY <1>1, <3>3, BucketContents
  <2>3. ASSUME NEW s \in Sizes
        PROVE  UNION {Bucket(s, w) : w \in Flush(s)} = ingested
    <3>1. \A e \in ingested : Start(s, e.ts) \in Flush(s) /\ e \in Bucket(s, Start(s, e.ts))
      BY <1>1, BucketContents
    <3>2. \A w : Bucket(s, w) \subseteq ingested
      BY <1>1, BucketContents
    <3> QED
      BY <3>1, <3>2
  <2>4. ASSUME NEW fine \in Sizes, NEW coarse \in Sizes, coarse % fine = 0,
               NEW w \in Flush(coarse)
        PROVE  Bucket(coarse, w) =
                  UNION {Bucket(fine, v) : v \in Flush(fine) \cap (w .. w + coarse - 1)}
    <3>1. fine \in Nat \ {0} /\ coarse \in Nat \ {0}
      BY SizesAssumption
    <3>2. PICK x \in ingested : w = Start(coarse, x.ts)
      BY <1>1, <2>4, BucketContents
    <3>3. w \in Nat
      BY <2>1, <3>1, <3>2, StartBounds
    <3>4. ASSUME NEW e \in Bucket(coarse, w)
          PROVE  \E v \in Flush(fine) \cap (w .. w + coarse - 1) : e \in Bucket(fine, v)
      <4>1. e \in ingested /\ Start(coarse, e.ts) = w
        BY <1>1, <3>4, BucketContents
      <4> DEFINE v == Start(fine, e.ts)
      <4>2. v \in Flush(fine) /\ e \in Bucket(fine, v)
        BY <1>1, <4>1, BucketContents
      <4>3. v \in Nat /\ w <= v /\ v + fine <= w + coarse
        BY <2>1, <2>4, <3>1, <4>1, StartBounds, FineWithinCoarse
      <4> HIDE DEF v
      <4>4. v \in w .. w + coarse - 1
        BY <3>1, <3>3, <4>3
      <4> QED
        BY <4>2, <4>4
    <3>5. ASSUME NEW v \in Flush(fine) \cap (w .. w + coarse - 1), NEW e \in Bucket(fine, v)
          PROVE  e \in Bucket(coarse, w)
      <4>1. e \in ingested /\ Start(fine, e.ts) = v
        BY <1>1, <3>5, BucketContents
      <4> DEFINE u == Start(coarse, e.ts)
      <4>2. /\ u \in Nat /\ u <= v /\ v + fine <= u + coarse
            /\ v \in Nat /\ v <= e.ts /\ e.ts \in Nat
        BY <2>1, <2>4, <3>1, <4>1, StartBounds, FineWithinCoarse
      <4>3. w <= v /\ v < w + coarse
        BY <3>1, <3>3, <3>5, <4>2
      <4>4. Start(coarse, v) = u
        BY <2>1, <3>1, <4>1, <4>2, StartIsUnique
      <4>5. Start(coarse, v) = w
        BY <2>1, <3>1, <3>2, <4>2, <4>3, StartIsUnique
      <4>6. Start(coarse, e.ts) = w
        BY <4>4, <4>5
      <4>7. Bucket(coarse, w) = {y \in ingested : Start(coarse, y.ts) = w}
        BY <1>1, BucketContents
      <4> QED
        BY <4>1, <4>6, <4>7
    <3> QED
      BY <3>4, <3>5
  <2> QED
    BY <2>2, <2>3, <2>4 DEF TumblingExact
<1> QED
  BY Invariance, <1>1, PTL

-----------------------------------------------------------------------------
(* Sliding windows. *)

LEMMA KeptInWindow ==
    ASSUME IInv, ~capped, NEW end \in Int, end - Window >= Cutoff(lastTs)
    PROVE  Query(end) = InWindow(end)
<1>1. Elements(buffer) \subseteq ingested
  BY DEF IInv, Buffered, Elements
<1>2. ASSUME NEW e \in ingested, end - Window <= e.ts PROVE e \in Elements(buffer)
  <2>1. e \in Event /\ lastTs \in Int
    BY DEF IInv, TypeOK
  <2> e.ts \in Nat
    BY <2>1, TimesAssumption DEF Event
  <2>2. e.ts >= Cutoff(lastTs)
    BY <1>2, <2>1, SlidingAssumption DEF Cutoff
  <2> QED
    BY <2>2 DEF IInv, Kept, Elements
<1> QED
  BY <1>1, <1>2 DEF Query, InWindow

(* SlidingWindowEngine.ingest prunes only what no window of the last step  *)
(* contains, in whatever order the events come.                            *)
THEOREM RecentWindows == Spec => []RecentWindowsExact
<1>1. ASSUME IInv PROVE RecentWindowsExact
  <2> SUFFICES ASSUME ~capped, NEW end \in lastTs - Step .. lastTs
               PROVE  Query(end) = InWindow(end)
    BY DEF RecentWindowsExact
  <2>1. lastTs \in Int
    BY <1>1 DEF IInv, TypeOK
  <2>2. end \in Int /\ end - Window >= Cutoff(lastTs)
    BY <2>1, SlidingAssumption DEF Cutoff
  <2> QED
    BY <1>1, <2>2, KeptInWindow
<1> QED
  BY Invariance, <1>1, PTL

(* The two loops of ingest bound the deque by its cap, and by window and   *)
(* step where the stream is sorted.                                        *)
THEOREM BoundedMemory == Spec => []MemoryBounded
<1>1. ASSUME IInv PROVE MemoryBounded
  <2>1. Len(buffer) <= MaxBuffer
    BY <1>1 DEF IInv, Buffered
  <2>2. ~capped /\ buffer # << >> => buffer[1].ts >= Cutoff(lastTs)
    BY <1>1 DEF IInv, Kept
  <2>3. InOrder => \A e \in Elements(buffer) : e.ts >= Cutoff(lastTs)
    BY <1>1 DEF IInv, Sorted, Elements
  <2> QED
    BY <2>1, <2>2, <2>3 DEF MemoryBounded
<1> QED
  BY Invariance, <1>1, PTL

(* The last cursor not after an event starts a window that contains it, if *)
(* windows are as long as steps, at least.                                 *)
LEMMA LastCursor ==
    ASSUME NEW first \in Nat, NEW last \in Nat, NEW ts \in Nat, ts <= last,
           NEW c0 \in Cursors(first, last), c0 <= ts, Step <= Window
    PROVE  \E c \in Cursors(first, last) : c <= ts /\ ts <= c + Window
<1> DEFINE m == IF ts + Window <= last + Step THEN ts ELSE last + Step - Window
           k == (m - c0) \div Step
           c == c0 + k * Step
<1>1. c0 \in Nat /\ first <= c0 /\ c0 % Step = 0 /\ c0 + Window <= last + Step
  BY DEF Cursors
<1>2. m \in Int /\ m - c0 \in Nat /\ m <= ts /\ m + Window <= last + Step
  BY <1>1, SlidingAssumption
<1>3. m = ts \/ m + Window = last + Step
  BY SlidingAssumption
<1> HIDE DEF m
<1>4. k \in Nat /\ k * Step \in Nat /\ k * Step <= m - c0 /\ m - c0 < k * Step + Step
  BY <1>2, Division, Product, SlidingAssumption
<1>5. c % Step = 0
  BY <1>1, <1>4, SumOfMultiples, SlidingAssumption
<1> HIDE DEF k
<1>6. c \in Nat /\ c <= m /\ m < c + Step /\ first <= c
  BY <1>1, <1>2, <1>4, SlidingAssumption
<1> HIDE DEF c
<1>7. c \in Cursors(first, last)
  BY <1>2, <1>5, <1>6, SlidingAssumption DEF Cursors
<1>8. c <= ts /\ ts <= c + Window
  BY <1>2, <1>3, <1>6, SlidingAssumption
<1> QED
  BY <1>7, <1>8

(* compute_all_windows of a sorted stream: each window it returns is       *)
(* exact, and from the first one on no event is left out.                  *)
THEOREM AllWindowsOfASortedStream == Spec => []WindowsExact
<1>1. ASSUME IInv PROVE WindowsExact
  <2> SUFFICES ASSUME InOrder, ~capped
               PROVE  /\ \A end \in AllWindows : Query(end) = InWindow(end)
                      /\ Step <= Window =>
                           \A e \in ingested :
                              (\E end \in AllWindows : end - Window <= e.ts)
                                 => \E end \in AllWindows : e \in Query(end)
    BY DEF WindowsExact
  <2> DEFINE first == buffer[1].ts
             last  == buffer[Len(buffer)].ts
  <2>1. lastTs \in Nat /\ Cutoff(lastTs) \in Int /\ Len(buffer) \in Nat
    BY <1>1, SlidingAssumption DEF IInv, TypeOK, Cutoff
  <2>2. ASSUME NEW end \in AllWindows
        PROVE  /\ buffer # << >>
               /\ first \in Nat /\ last \in Nat
               /\ end - Window \in Cursors(first, last)
               /\ end \in Int /\ end - Window >= first /\ first >= Cutoff(lastTs)
               /\ last = lastTs
    <3>1. buffer # << >>
      BY <2>2 DEF AllWindows
    <3>2. 1 \in 1 .. Len(buffer) /\ Len(buffer) \in 1 .. Len(buffer)
      BY <1>1, <2>1, <3>1 DEF IInv, TypeOK
    <3>3. buffer[1] \in ingested /\ buffer[Len(buffer)] \in ingested
      BY <1>1, <3>2 DEF IInv, Buffered
    <3>4. first \in Nat /\ last \in Nat
      BY <1>1, <3>3, TimesAssumption DEF IInv, TypeOK, Event
    <3>5. first >= Cutoff(lastTs) /\ last = lastTs
      BY <1>1, <3>1, <3>3 DEF IInv, Kept, Sorted
    <3> HIDE DEF first, last
    <3>6. PICK c \in Cursors(first, last) : end = c + Window
      BY <2>2, <3>1 DEF AllWindows, first, last
    <3>7. c \in Int /\ c >= first
      BY <3>4, <3>6 DEF Cursors
    <3>8. end \in Int /\ end - Window = c
      BY <3>6, <3>7, SlidingAssumption
    <3> QED
      BY <3>1, <3>4, <3>5, <3>6, <3>7, <3>8
  <2> HIDE DEF first, last
  <2>3. \A end \in AllWindows : Query(end) = InWindow(end)
    <3> TAKE end \in AllWindows
    <3>1. end \in Int /\ end - Window >= Cutoff(lastTs)
      BY <2>1, <2>2, SlidingAssumption
    <3> QED
      BY <1>1, <3>1, KeptInWindow
  <2>4. ASSUME Step <= Window, NEW e \in ingested,
               NEW end \in AllWindows, end - Window <= e.ts
        PROVE  \E x \in AllWindows : e \in Query(x)
    <3>1. e.ts \in Nat /\ e.ts <= lastTs
      BY <1>1, TimesAssumption DEF IInv, TypeOK, Event, Known
    <3>2. PICK c \in Cursors(first, last) : c <= e.ts /\ e.ts <= c + Window
      BY <2>2, <2>4, <3>1, LastCursor
    <3>3. c \in Int
      BY <2>2 DEF Cursors
    <3>4. c + Window \in AllWindows
      BY <2>2 DEF AllWindows, first, last
    <3>5. e \in InWindow(c + Window)
      BY <3>2, <3>3, SlidingAssumption DEF InWindow
    <3> QED
      BY <2>3, <3>4, <3>5
  <2> QED
    BY <2>3, <2>4
<1> QED
  BY Invariance, <1>1, PTL
=============================================================================
