---------------------- MODULE FeatureFreshness_proofs ----------------------
(***************************************************************************)
(* Proofs about FeatureFreshness, for any entities, features, freshness    *)
(* times, intervals and lengths of a cycle: a value the API serves as      *)
(* stale is reported in time, nothing else is reported, the published      *)
(* counts differ only by what Redis dropped or repeated, and no value      *)
(* expires that is fresh.                                                  *)
(***************************************************************************)
EXTENDS FeatureFreshness, FiniteSetTheorems, TLAPS

Checking == phase \in {"cycle", "scan", "count"}

(* When the cycle began.                                                   *)
Began == due - CycleTime

Clock ==
    /\ phase # "ended" => now <= due
    /\ phase = "ended" => stopping
    /\ phase = "waiting" => due <= now + Interval
    /\ Checking => Began <= now
    /\ phase = "scan" => Began <= at /\ at <= now

Scanning ==
    phase \in {"scan", "count"} =>
       feature \in todo /\ unvisited \subseteq KeysOf(feature)

(* Since when k has been stale for the API, without anything happening     *)
(* that a cycle could have missed.                                         *)
Since(k) == Later(redis[k].ts + sla[Feature(k)] + 1, quiet[k])

(* The running cycle has found k or cannot but find it.                    *)
OnTrack(k) ==
    /\ defs[Feature(k)] = sla[Feature(k)]
    /\ \/ k \in stale
       \/ /\ Feature(k) \in todo
          /\ phase = "scan" /\ Feature(k) = feature => k \in unvisited \intersect steady
          /\ phase # "count" \/ Feature(k) # feature

Watched(k) ==
    k \in Present /\ Registered(Feature(k)) /\ ~stopping =>
       /\ phase = "waiting" =>
             k \in published.stale \/ due <= Since(k) + Interval + CycleTime
       /\ Checking =>
             /\ k \in published.stale \/ due <= Since(k) + Interval + 2 * CycleTime
             /\ Since(k) < Began => OnTrack(k)

(* The keys that the total must include by now.                            *)
Covered ==
    {k \in stale \ lost :
       /\ phase # "scan" \/ Feature(k) # feature
       /\ phase # "count" \/ k \notin unvisited}

(* Stale keys that Redis has not dropped are there to be counted.          *)
Counted ==
    /\ ~Checking => stale = {}
    /\ \A k \in stale :
          Feature(k) \in todo => phase \in {"scan", "count"} /\ Feature(k) = feature
    /\ phase \in {"scan", "count"} => (stale \ lost) \intersect KeysOf(feature) \subseteq Present
    /\ phase = "count" => (stale \ lost) \intersect unvisited \subseteq steady
    /\ Cardinality(Covered) <= total

(* A value expires no earlier than twice its freshness after its event.    *)
Held ==
    \A k \in Keys :
       /\ inHand[k] # Absent =>
             inHand[k].ts <= now /\ inHand[k].ttl = TtlMultiplier * inHand[k].freshness
       /\ redis[k] # Absent =>
             redis[k].expires >= redis[k].ts + TtlMultiplier * redis[k].freshness

IInv ==
    /\ TypeOK
    /\ Clock
    /\ Scanning
    /\ \A k \in Keys : Watched(k)
    /\ Counted
    /\ Held
    /\ Cardinality(published.stale) <= published.count

-----------------------------------------------------------------------------
(* Types. *)

LEMMA Flag ==
    ASSUME TypeOK, [Next]_vars
    PROVE  stopping' \in BOOLEAN
<1>1. stopping \in BOOLEAN
  BY Zenon DEF TypeOK
<1>2. stopping' = stopping \/ stopping' = TRUE
  BY Zenon DEF Next, Monitor, Consumer, vars, monitorVars, Tick, Stop, Register, Resolve, Store,
     Abandon, Evict, Drop, BeginCycle, Count, CountKey, NextFeature, BeginScan, Publish, Error,
     End, CheckFeature, Visit, Revisit, Examine, Miss
<1> QED
  BY <1>1, <1>2, Zenon

LEMMA FiniteKeys ==
    /\ IsFiniteSet(Keys)
    /\ \A S \in SUBSET Keys : IsFiniteSet(S) /\ Cardinality(S) \in Nat
<1>1. IsFiniteSet(Keys)
  BY FS_Product, FiniteAssumption DEF Keys
<1> QED
  BY <1>1, FS_Subset, FS_CardinalityType

LEMMA TypeInit == Init => TypeOK
<1> SUFFICES ASSUME Init PROVE TypeOK
  OBVIOUS
<1>1. stopping \in BOOLEAN
  BY Zenon DEF Init
<1>2. /\ now \in Nat /\ due \in Nat /\ at \in Nat /\ total \in Nat
      /\ quiet \in [Keys -> Nat]
      /\ writes \in 0 .. MaxWrites /\ upsets \in 0 .. MaxUpsets
  BY BoundAssumption DEF Init
<1>3. /\ redis \in [Keys -> Value \union {Absent}] /\ inHand \in [Keys -> Pending \union {Absent}]
      /\ sla \in [Features -> Seconds \union {Unregistered}]
      /\ defs \in [Features -> Seconds \union {Unregistered}]
      /\ phase \in {"waiting", "cycle", "scan", "count", "ended"}
  BY DEF Init
<1>4. /\ todo \subseteq Features /\ feature \in Features \union {NoFeature}
      /\ \A f \in todo : defs[f] # Unregistered
      /\ unvisited \subseteq Keys /\ steady \subseteq Keys /\ stale \subseteq Keys
      /\ again \in Nat /\ lost \subseteq Keys
      /\ published \in [stale : SUBSET Keys, count : Nat, total : Nat]
  BY DEF Init
<1> QED
  BY <1>1, <1>2, <1>3, <1>4, Zenon DEF TypeOK

LEMMA FreshnessType ==
    ASSUME TypeOK, NEW k \in Keys
    PROVE  Freshness(Feature(k)) \in Seconds \union {Default}
<1>1. Feature(k) \in Features
  BY DEF Keys, Feature
<1> QED
  BY <1>1 DEF Freshness, Registered, TypeOK

(* What the steps do to Redis and to the writes in hand.                   *)
LEMMA StoreCases ==
    ASSUME [Next]_vars
    PROVE  \/ UNCHANGED <<redis, inHand>>
           \/ \E gone \in SUBSET Keys : Drop(gone) /\ UNCHANGED inHand
           \/ \E k \in Keys : Store(k) \/ Abandon(k) \/ \E lag \in Lags : Resolve(k, lag)
<1>1. CASE Tick
  <2>1. Drop({k \in Present : redis[k].expires <= now'}) /\ UNCHANGED inHand
    BY <1>1 DEF Tick
  <2> QED
    BY <2>1 DEF Present
<1>2. CASE \E k \in Keys : Evict(k)
  <2>1. \E k \in Keys : Drop({k}) /\ UNCHANGED inHand
    BY <1>2 DEF Evict
  <2> QED
    BY <2>1
<1> QED
  BY <1>1, <1>2 DEF Next, Monitor, Consumer, vars, Stop, Register, BeginCycle, Count,
     CountKey, NextFeature, Publish, Error, End, CheckFeature, Visit, Revisit, Examine, Miss

LEMMA StoreTypes ==
    ASSUME TypeOK, [Next]_vars
    PROVE  /\ redis' \in [Keys -> Value \union {Absent}]
           /\ inHand' \in [Keys -> Pending \union {Absent}]
<1>1. CASE UNCHANGED <<redis, inHand>>
  BY <1>1 DEF TypeOK
<1>2. CASE \E gone \in SUBSET Keys : Drop(gone) /\ UNCHANGED inHand
  BY <1>2 DEF Drop, TypeOK
<1>3. ASSUME NEW k \in Keys, Store(k)
      PROVE  /\ redis' \in [Keys -> Value \union {Absent}]
             /\ inHand' \in [Keys -> Pending \union {Absent}]
  <2>1. inHand[k] \in Pending /\ now \in Nat
    BY <1>3 DEF Store, TypeOK
  <2>2. [ts |-> inHand[k].ts, expires |-> now + inHand[k].ttl,
         freshness |-> inHand[k].freshness] \in Value
    BY <2>1 DEF Pending, Value
  <2> QED
    BY <1>3, <2>2 DEF Store, TypeOK
<1>4. ASSUME NEW k \in Keys, Abandon(k)
      PROVE  /\ redis' \in [Keys -> Value \union {Absent}]
             /\ inHand' \in [Keys -> Pending \union {Absent}]
  BY <1>4 DEF Abandon, TypeOK
<1>5. ASSUME NEW k \in Keys, NEW lag \in Lags, Resolve(k, lag)
      PROVE  /\ redis' \in [Keys -> Value \union {Absent}]
             /\ inHand' \in [Keys -> Pending \union {Absent}]
  <2> DEFINE s == Freshness(Feature(k))
  <2>1. s \in Seconds \union {Default}
    BY FreshnessType
  <2>2. s \in Nat
    BY <2>1, SecondsAssumption
  <2>3. inHand' = [inHand EXCEPT ![k] = [ts |-> now - lag, ttl |-> Ttl(s), freshness |-> s]]
    BY <1>5 DEF Resolve
  <2> HIDE DEF s
  <2>4. [ts |-> now - lag, ttl |-> Ttl(s), freshness |-> s] \in Pending
    BY <2>1, <2>2, LagsAssumption DEF Pending, Ttl, TtlMultiplier, TypeOK
  <2> QED
    BY <1>5, <2>3, <2>4 DEF Resolve, TypeOK
<1> QED
  BY <1>1, <1>2, <1>3, <1>4, <1>5, StoreCases

LEMMA TypeStep ==
    ASSUME TypeOK, [Next]_vars
    PROVE  TypeOK'
<1>0. stopping' \in BOOLEAN
  BY Flag
<1>1. /\ now' \in Nat /\ due' \in Nat /\ at' \in Nat
      /\ (phase \in {"waiting", "cycle", "scan", "count", "ended"})'
  BY CycleAssumption DEF TypeOK, Next, Monitor, vars, monitorVars, cycleVars, Tick, Stop,
     Register, Consumer, Resolve, Store, Abandon, Evict, Drop, BeginCycle, Count, CountKey, NextFeature, BeginScan, Publish, Error, End, CheckFeature, Visit, Revisit, Examine, Miss,
     Wait, LeaveCycle, LeaveFeature
<1>2. (/\ writes \in 0 .. MaxWrites
       /\ upsets \in 0 .. MaxUpsets)'
  BY BoundAssumption DEF TypeOK, Next, Monitor, vars, Tick, Stop,
     Register, Consumer, Resolve, Store, Abandon, Evict, Drop, BeginCycle, Count, CountKey, NextFeature, BeginScan, Publish, Error, End, CheckFeature, Visit, Revisit, Examine, Miss
<1>3. quiet' \in [Keys -> Nat]
  BY DEF TypeOK, Next, Monitor, vars, Tick, Stop,
     Register, Consumer, Resolve, Store, Abandon, Evict, Drop, BeginCycle, Count, CountKey, NextFeature, BeginScan, Publish, Error, End, CheckFeature, Visit, Revisit, Examine, Miss
<1>4. /\ sla' \in [Features -> Seconds \union {Unregistered}]
      /\ defs' \in [Features -> Seconds \union {Unregistered}]
  BY DEF TypeOK, Next, Monitor, vars, monitorVars, cycleVars, Tick, Stop,
     Register, Consumer, Resolve, Store, Abandon, Evict, Drop, BeginCycle, Count, CountKey, NextFeature, BeginScan, Publish, Error, End, CheckFeature, Visit, Revisit, Examine, Miss,
     Wait, LeaveCycle
<1>5. (/\ todo \subseteq Features /\ feature \in Features \union {NoFeature}
       /\ \A f \in todo : defs[f] # Unregistered)'
  BY DEF TypeOK, Next, Monitor, vars, monitorVars, cycleVars, Tick, Stop,
     Register, Consumer, Resolve, Store, Abandon, Evict, Drop, BeginCycle, Count, CountKey, NextFeature, BeginScan, Publish, Error, End, CheckFeature, Visit, Revisit, Examine, Miss,
     Wait, LeaveCycle, LeaveFeature, Listed, Registered
<1>6. (unvisited \subseteq Keys /\ steady \subseteq Keys /\ stale \subseteq Keys)'
  BY DEF TypeOK, Next, Monitor, vars, monitorVars, cycleVars, Tick, Stop,
     Register, Consumer, Resolve, Store, Abandon, Evict, Drop, BeginCycle, Count, CountKey, NextFeature, BeginScan, Publish, Error, End, CheckFeature, Visit, Revisit, Examine, Miss,
     Wait, LeaveCycle, LeaveFeature, KeysOf
<1>7. total' \in Nat /\ again' \in Nat /\ lost' \subseteq Keys
  BY DEF TypeOK, Present, cycleVars, Wait, LeaveCycle,
     Next, Monitor, Consumer, vars, monitorVars, Tick, Stop, Register, Resolve, Store,
     Abandon, Evict, Drop, BeginCycle, Count, CountKey, NextFeature, BeginScan, Publish, Error,
     End, CheckFeature, Visit, Revisit, Examine, Miss
<1>8. published' \in [stale : SUBSET Keys, count : Nat, total : Nat]
  <2>1. Cardinality(stale) \in Nat
    BY FiniteKeys DEF TypeOK
  <2> QED
    BY <2>1 DEF TypeOK, Next, Monitor, Consumer, vars, monitorVars, Tick, Stop, Register, Resolve, Store,
     Abandon, Evict, Drop, BeginCycle, Count, CountKey, NextFeature, BeginScan, Publish, Error,
     End, CheckFeature, Visit, Revisit, Examine, Miss
<1>9. redis' \in [Keys -> Value \union {Absent}] /\ inHand' \in [Keys -> Pending \union {Absent}]
  BY StoreTypes
<1> QED
  BY <1>0, <1>1, <1>2, <1>3, <1>4, <1>5, <1>6, <1>7, <1>8, <1>9, Zenon DEF TypeOK

-----------------------------------------------------------------------------
(* The clock never passes the end of a wait or of a cycle, and a cycle     *)
(* scans a feature that it has listed.                                     *)

LEMMA ClockStep ==
    ASSUME TypeOK, Clock, [Next]_vars
    PROVE  Clock'
<1>1. now \in Nat /\ due \in Nat /\ at \in Nat /\ Interval \in Nat /\ CycleTime \in Nat
  BY CycleAssumption DEF TypeOK
<1>2. CASE Tick
  <2>1. /\ now' = now + 1 /\ (phase # "ended" => now < due)
        /\ UNCHANGED <<phase, due, at>>
    BY <1>2 DEF Tick
  <2>2. stopping' = stopping
    BY <1>2, Zenon DEF Tick
  <2> QED
    BY <1>1, <2>1, <2>2 DEF Clock, Checking, Began
<1>3. CASE Error \/ Publish \/ (BeginCycle /\ Listed = {})
  <2>1. phase' = "waiting" /\ due' = now + Interval /\ now' = now
    BY <1>3 DEF Error, Publish, BeginCycle, Wait
  <2> QED
    BY <1>1, <2>1 DEF Clock, Checking, Began
<1>4. CASE BeginCycle /\ Listed # {}
  <2>1. phase' = "cycle" /\ due' = now + CycleTime /\ now' = now
    BY <1>4 DEF BeginCycle
  <2> QED
    BY <1>1, <2>1 DEF Clock, Checking, Began
<1>5. CASE \E f \in Features : CheckFeature(f)
  BY <1>1, <1>5 DEF CheckFeature, Clock, Checking, Began
<1>6. CASE \/ \E k \in Keys : Visit(k) \/ Revisit(k) \/ Miss(k) \/ CountKey(k)
           \/ Count \/ NextFeature
  <2>1. /\ phase \in {"scan", "count"}
        /\ \/ phase' \in {"count", "cycle"}
           \/ phase = "scan" /\ phase' = "scan" /\ at' = at
        /\ UNCHANGED <<now, due>>
    BY <1>6 DEF Visit, Revisit, Examine, Miss, CountKey, Count, NextFeature
  <2> QED
    BY <1>1, <2>1 DEF Clock, Checking, Began
<1>7. CASE End
  <2>1. phase' = "ended"
    BY <1>7 DEF End
  <2>2. stopping'
    BY <1>7, Zenon DEF End
  <2> QED
    BY <2>1, <2>2 DEF Clock, Checking
<1>8. CASE \/ Stop \/ UNCHANGED vars \/ Consumer \/ \E k \in Keys : Evict(k)
           \/ \E f \in Features, s \in Seconds \union {Unregistered} : Register(f, s)
  <2>1. UNCHANGED <<now, phase, due, at>>
    BY <1>8 DEF Stop, vars, monitorVars, cycleVars, Register, Consumer, Resolve, Store, Abandon, Evict, Drop
  <2>2. stopping => stopping'
    BY <1>8, Zenon DEF Stop, vars, Register, Consumer, Resolve, Store, Abandon, Evict, Drop
  <2> QED
    BY <2>1, <2>2 DEF Clock, Checking, Began
<1> QED
  BY <1>2, <1>3, <1>4, <1>5, <1>6, <1>7, <1>8 DEF Next, Monitor

LEMMA ScanningStep ==
    ASSUME TypeOK, Scanning, [Next]_vars
    PROVE  Scanning'
BY DEF TypeOK, Scanning, Next, Monitor, vars, monitorVars, cycleVars, Tick, Stop, Register,
   Consumer, Resolve, Store, Abandon, Evict, Drop, BeginCycle, Count, CountKey, NextFeature, BeginScan, Publish, Error, End, CheckFeature, Visit, Revisit, Examine, Miss, Wait

-----------------------------------------------------------------------------
(* The steps of the environment leave what the monitor knows of a key, or  *)
(* start its time again.                                                   *)

LEMMA FeatureOfKey == \A k \in Keys : Feature(k) \in Features
BY DEF Keys, Feature

LEMMA SecondsInNat == Seconds \union {Unregistered} \subseteq Nat
BY SecondsAssumption DEF Unregistered

LEMMA KeyTypes ==
    ASSUME TypeOK, NEW k \in Keys
    PROVE  /\ Feature(k) \in Features /\ sla[Feature(k)] \in Nat /\ quiet[k] \in Nat
           /\ k \in Present => redis[k].ts \in Int /\ Since(k) \in Int
                               /\ Since(k) >= quiet[k]
                               /\ Since(k) >= redis[k].ts + sla[Feature(k)] + 1
<1>1. Feature(k) \in Features /\ sla[Feature(k)] \in Nat /\ quiet[k] \in Nat
  BY SecondsInNat, FeatureOfKey DEF TypeOK
<1>2. k \in Present => redis[k].ts \in Int
  BY DEF Present, TypeOK, Value
<1> QED
  BY <1>1, <1>2 DEF Since, Later

LEMMA WatchedDrop ==
    ASSUME TypeOK, Clock, NEW k \in Keys, Watched(k),
           Tick \/ \E j \in Keys : Evict(j)
    PROVE  Watched(k)'
<1> SUFFICES ASSUME (k \in Present /\ Registered(Feature(k)) /\ ~stopping)'
             PROVE  (/\ phase = "waiting" =>
                           k \in published.stale \/ due <= Since(k) + Interval + CycleTime
                     /\ Checking =>
                           /\ k \in published.stale
                              \/ due <= Since(k) + Interval + 2 * CycleTime
                           /\ Since(k) < Began => OnTrack(k))'
  BY Zenon DEF Watched
<1>1. UNCHANGED <<sla, phase, due, defs, todo, feature, at, unvisited, stale, published, quiet>>
  BY DEF Tick, Evict
<1>2. ~stopping
  BY Zenon DEF Tick, Evict
<1>3. k \in Present /\ redis'[k] = redis[k] /\ (k \in steady => k \in steady')
  BY DEF Tick, Evict, Drop, Present, TypeOK
<1>4. Registered(Feature(k))
  BY <1>1 DEF Registered
<1>5. Since(k)' = Since(k) /\ Began' = Began /\ Checking' = Checking
  BY <1>1, <1>3, Zenon DEF Since, Began, Checking
<1>6. OnTrack(k) => OnTrack(k)'
  BY <1>1, <1>3 DEF OnTrack
<1> QED
  BY <1>1, <1>2, <1>3, <1>4, <1>5, <1>6, Zenon DEF Watched

LEMMA WatchedRenewed ==
    ASSUME TypeOK, TypeOK', Clock, NEW k \in Keys, quiet'[k] = now,
           now' = now, phase' = phase, due' = due
    PROVE  Watched(k)'
<1> SUFFICES ASSUME (k \in Present /\ Registered(Feature(k)) /\ ~stopping)'
             PROVE  (/\ phase = "waiting" =>
                           k \in published.stale \/ due <= Since(k) + Interval + CycleTime
                     /\ Checking =>
                           /\ k \in published.stale
                              \/ due <= Since(k) + Interval + 2 * CycleTime
                           /\ Since(k) < Began => OnTrack(k))'
  BY Zenon DEF Watched
<1>1. Since(k)' \in Int /\ Since(k)' >= now
  <2>1. k \in Present' => (redis[k].ts \in Int /\ quiet[k] \in Nat
                           /\ sla[Feature(k)] \in Nat)'
    BY SecondsInNat, FeatureOfKey DEF TypeOK, Present, Value
  <2> QED
    BY <2>1 DEF Since, Later
<1>2. now \in Nat /\ due \in Nat /\ Interval \in Nat /\ CycleTime \in Nat
  BY CycleAssumption DEF TypeOK
<1> HIDE DEF Since
<1>3. phase = "waiting" => due <= now + Interval
  BY DEF Clock
<1>4. Checking => due - CycleTime <= now
  BY DEF Clock, Began
<1>5. Began' = due - CycleTime /\ Checking' = Checking
  BY DEF Began, Checking
<1>6. phase' = "waiting" => due' <= Since(k)' + Interval + CycleTime
  BY <1>1, <1>2, <1>3
<1>7. Checking' => due' <= Since(k)' + Interval + 2 * CycleTime /\ ~(Since(k)' < Began')
  BY <1>1, <1>2, <1>4, <1>5
<1> QED
  BY <1>6, <1>7, Zenon

LEMMA WatchedEnvironment ==
    ASSUME TypeOK, TypeOK', Clock, NEW k \in Keys, Watched(k),
           \/ Stop \/ UNCHANGED vars
           \/ \E f \in Features, s \in Seconds \union {Unregistered} : Register(f, s)
           \/ Consumer
    PROVE  Watched(k)'
<1>1. /\ UNCHANGED <<now, phase, due, defs, todo, feature, at, unvisited, steady>>
      /\ UNCHANGED <<stale, published>>
  BY DEF Stop, vars, monitorVars, cycleVars, Register, Consumer, Resolve, Store, Abandon, Evict, Drop
<1>2. ~stopping' => ~stopping
  BY Zenon DEF Stop, vars, Register, Consumer, Resolve, Store, Abandon, Evict, Drop
<1>3. CASE quiet'[k] = now
  BY <1>1, <1>3, WatchedRenewed
<1>4. CASE UNCHANGED <<redis[k], sla[Feature(k)], quiet[k]>>
  <2>1. /\ (k \in Present)' = (k \in Present)
        /\ Registered(Feature(k))' = Registered(Feature(k))
    BY <1>4 DEF Present, Registered
  <2>2. Since(k)' = Since(k) /\ Began' = Began /\ Checking' = Checking
    BY <1>1, <1>4, Zenon DEF Since, Began, Checking
  <2>3. OnTrack(k)' = OnTrack(k)
    BY <1>1, <1>4 DEF OnTrack
  <2> QED
    BY <1>1, <1>2, <2>1, <2>2, <2>3, Zenon DEF Watched
<1>5. \/ quiet'[k] = now
      \/ UNCHANGED <<redis[k], sla[Feature(k)], quiet[k]>>
  <2>1. Feature(k) \in Features
    BY KeyTypes
  <2> QED
    BY <2>1 DEF TypeOK, Stop, vars, Register, Consumer, Resolve, Store, Abandon, Evict, Drop
<1> QED
  BY <1>3, <1>4, <1>5

-----------------------------------------------------------------------------
(* A cycle begins and ends. *)

LEMMA WatchedBegin ==
    ASSUME TypeOK, TypeOK', Clock, NEW k \in Keys, Watched(k), BeginCycle
    PROVE  Watched(k)'
<1>1. /\ phase = "waiting" /\ now >= due
      /\ UNCHANGED <<now, redis, sla, published, quiet>>
  BY DEF BeginCycle
<1>2. stopping' = stopping
  BY Zenon DEF BeginCycle
<1>3. /\ (k \in Present)' = (k \in Present)
      /\ Registered(Feature(k))' = Registered(Feature(k))
      /\ Since(k)' = Since(k)
  BY <1>1, Zenon DEF Present, Registered, Since
<1>4. Feature(k) \in Features
  BY KeyTypes
<1>5. CASE Listed = {}
  <2>1. ~Registered(Feature(k))
    BY <1>4, <1>5 DEF Listed
  <2> QED
    BY <1>3, <2>1, Zenon DEF Watched
<1>6. CASE Listed # {} /\ k \in Present /\ Registered(Feature(k)) /\ ~stopping
  <2>1. phase' = "cycle" /\ due' = now + CycleTime /\ defs' = sla /\ todo' = Listed
    BY <1>6 DEF BeginCycle
  <2>2. k \in published.stale \/ due <= Since(k) + Interval + CycleTime
    BY <1>1, <1>6, Zenon DEF Watched
  <2>3. /\ Since(k) \in Int /\ now \in Nat /\ due \in Nat
        /\ Interval \in Nat /\ CycleTime \in Nat
    BY <1>6, KeyTypes, CycleAssumption DEF TypeOK
  <2>4. now = due
    BY <1>1, <2>3 DEF Clock
  <2>5. due <= Since(k) + Interval + CycleTime =>
           due' <= Since(k)' + Interval + 2 * CycleTime
    BY <1>3, <2>1, <2>3, <2>4
  <2>6. OnTrack(k)'
    BY <1>1, <1>4, <1>6, <2>1 DEF OnTrack, Listed
  <2> QED
    BY <1>1, <2>1, <2>2, <2>5, <2>6 DEF Watched
<1>7. CASE ~(k \in Present /\ Registered(Feature(k)) /\ ~stopping)
  BY <1>2, <1>3, <1>7, Zenon DEF Watched
<1> QED
  BY <1>5, <1>6, <1>7

LEMMA WatchedPublish ==
    ASSUME TypeOK, Clock, NEW k \in Keys, Watched(k), Publish
    PROVE  Watched(k)'
<1>1. /\ phase = "cycle" /\ todo = {} /\ published'.stale = stale
      /\ phase' = "waiting" /\ due' = now + Interval
      /\ UNCHANGED <<now, redis, sla, quiet>>
  BY DEF Publish, Wait
<1>2. stopping' = stopping
  BY Zenon DEF Publish
<1>3. /\ (k \in Present)' = (k \in Present)
      /\ Registered(Feature(k))' = Registered(Feature(k))
      /\ Since(k)' = Since(k)
  BY <1>1, Zenon DEF Present, Registered, Since
<1>4. CASE k \in Present /\ Registered(Feature(k)) /\ ~stopping
  <2>1. Since(k) < Began => k \in stale
    BY <1>1, <1>4 DEF Watched, Checking, OnTrack
  <2>2. /\ Since(k) \in Int /\ now \in Nat /\ due \in Nat
        /\ Interval \in Nat /\ CycleTime \in Nat
    BY <1>4, KeyTypes, CycleAssumption DEF TypeOK
  <2>3. now <= due
    BY <1>1 DEF Clock
  <2>4. Since(k) < Began \/ due' <= Since(k)' + Interval + CycleTime
    BY <1>1, <1>3, <2>2, <2>3 DEF Began
  <2> QED
    BY <1>1, <2>1, <2>4 DEF Watched, Checking
<1>5. CASE ~(k \in Present /\ Registered(Feature(k)) /\ ~stopping)
  BY <1>2, <1>3, <1>5, Zenon DEF Watched
<1> QED
  BY <1>4, <1>5

LEMMA WatchedError ==
    ASSUME TypeOK, TypeOK', NEW k \in Keys, Error
    PROVE  Watched(k)'
<1>1. /\ quiet'[k] = now /\ phase' = "waiting" /\ due' = now + Interval
  BY DEF Error, Wait
<1>2. k \in Present' => Since(k)' \in Int /\ Since(k)' >= now
  <2>1. k \in Present' => (redis[k].ts \in Int /\ quiet[k] \in Nat
                           /\ sla[Feature(k)] \in Nat)'
    BY SecondsInNat, FeatureOfKey DEF TypeOK, Present, Value
  <2> QED
    BY <1>1, <2>1 DEF Since, Later
<1>3. now \in Nat /\ Interval \in Nat /\ CycleTime \in Nat
  BY CycleAssumption DEF TypeOK
<1>4. k \in Present' => due' <= Since(k)' + Interval + CycleTime
  BY <1>1, <1>2, <1>3
<1> QED
  BY <1>1, <1>4 DEF Watched, Checking

-----------------------------------------------------------------------------
(* The steps of a check keep every key that is due on track.               *)

LEMMA WatchedCheck ==
    ASSUME TypeOK, Clock, Scanning, NEW k \in Keys, Watched(k),
           \/ \E f \in Features : CheckFeature(f)
           \/ \E j \in Keys : Visit(j) \/ Revisit(j) \/ Miss(j) \/ CountKey(j)
           \/ Count \/ NextFeature
    PROVE  Watched(k)'
<1>1. /\ phase \in {"cycle", "scan", "count"} /\ phase' \in {"cycle", "scan", "count"}
      /\ UNCHANGED <<now, redis, sla, due, defs, published, quiet>>
  BY DEF CheckFeature, Visit, Revisit, Examine, Miss, CountKey, Count, NextFeature
<1>2. stopping' = stopping
  BY Zenon DEF CheckFeature, Visit, Revisit, Examine, Miss, CountKey, Count, NextFeature
<1>3. /\ (k \in Present)' = (k \in Present)
      /\ Registered(Feature(k))' = Registered(Feature(k))
      /\ Since(k)' = Since(k) /\ Began' = Began
  BY <1>1, Zenon DEF Present, Registered, Since, Began
<1>4. ASSUME k \in Present, Since(k) < Began, OnTrack(k)
      PROVE  OnTrack(k)'
  <2>1. CASE \E f \in Features : CheckFeature(f)
    BY <1>4, <2>1 DEF CheckFeature, BeginScan, OnTrack, KeysOf
  <2>2. CASE \E j \in Keys : Visit(j)
    <3>1. PICK j \in Keys : Visit(j)
      BY <2>2
    <3>2. CASE j # k
      BY <1>4, <3>1, <3>2 DEF Visit, Examine, OnTrack
    <3>3. CASE j = k
      <4>1. Feature(k) = feature /\ phase = "scan"
        BY <3>1, <3>3 DEF Visit, Scanning, KeysOf
      <4>2. /\ Since(k) \in Int /\ redis[k].ts \in Int /\ sla[Feature(k)] \in Nat
            /\ Since(k) >= redis[k].ts + sla[Feature(k)] + 1
            /\ at \in Nat /\ due \in Nat /\ CycleTime \in Nat
        BY <1>4, KeyTypes, CycleAssumption DEF TypeOK
      <4>3. Began <= at
        BY <4>1 DEF Clock
      <4>4. at - redis[k].ts > sla[Feature(k)]
        BY <1>4, <4>2, <4>3 DEF Began
      <4>5. TooOld(at - redis[k].ts, defs[feature])
        BY <1>4, <4>1, <4>4 DEF TooOld, OnTrack
      <4> QED
        BY <1>4, <3>1, <3>3, <4>5 DEF Visit, Examine, OnTrack
    <3> QED
      BY <3>2, <3>3
  <2>3. CASE \E j \in Keys : Miss(j)
    BY <1>4, <2>3 DEF Miss, OnTrack
  <2>4. CASE Count
    BY <1>4, <2>4 DEF Count, OnTrack
  <2>5. CASE NextFeature
    BY <1>4, <2>5 DEF NextFeature, OnTrack
  <2>6. CASE \E j \in Keys : Revisit(j)
    BY <1>4, <2>6 DEF Revisit, Examine, OnTrack
  <2>7. CASE \E j \in Keys : CountKey(j)
    BY <1>4, <2>7 DEF CountKey, OnTrack
  <2> QED
    BY <2>1, <2>2, <2>3, <2>4, <2>5, <2>6, <2>7
<1>5. CASE k \in Present /\ Registered(Feature(k)) /\ ~stopping
  <2>1. /\ k \in published.stale \/ due <= Since(k) + Interval + 2 * CycleTime
        /\ Since(k) < Began => OnTrack(k)
    BY <1>1, <1>5 DEF Watched, Checking
  <2> QED
    BY <1>1, <1>3, <1>4, <1>5, <2>1 DEF Watched, Checking
<1>6. CASE ~(k \in Present /\ Registered(Feature(k)) /\ ~stopping)
  BY <1>2, <1>3, <1>6, Zenon DEF Watched
<1> QED
  BY <1>5, <1>6

LEMMA WatchedEnd ==
    ASSUME NEW k \in Keys, End
    PROVE  Watched(k)'
<1>1. stopping'
  BY Zenon DEF End
<1> QED
  BY <1>1, Zenon DEF Watched

LEMMA WatchedStep ==
    ASSUME TypeOK, Clock, Scanning, \A k \in Keys : Watched(k), [Next]_vars
    PROVE  \A k \in Keys : Watched(k)'
<1> SUFFICES ASSUME NEW k \in Keys PROVE Watched(k)'
  OBVIOUS
<1>1. TypeOK' /\ Watched(k)
  BY TypeStep
<1>2. CASE Tick \/ \E j \in Keys : Evict(j)
  BY <1>1, <1>2, WatchedDrop
<1>3. CASE BeginCycle
  BY <1>1, <1>3, WatchedBegin
<1>4. CASE Publish
  BY <1>1, <1>4, WatchedPublish
<1>5. CASE Error
  BY <1>1, <1>5, WatchedError
<1>6. CASE End
  BY <1>6, WatchedEnd
<1>7. CASE \/ \E f \in Features : CheckFeature(f)
           \/ \E j \in Keys : Visit(j) \/ Revisit(j) \/ Miss(j) \/ CountKey(j)
           \/ Count \/ NextFeature
  BY <1>1, <1>7, WatchedCheck
<1>8. CASE \/ Stop \/ UNCHANGED vars
           \/ \E f \in Features, s \in Seconds \union {Unregistered} : Register(f, s)
           \/ Consumer
  BY <1>1, <1>8, WatchedEnvironment
<1> QED
  BY <1>2, <1>3, <1>4, <1>5, <1>6, <1>7, <1>8 DEF Next, Monitor

-----------------------------------------------------------------------------
(* The total covers the stale keys that Redis has not dropped. *)

LEMMA FiniteCovered ==
    ASSUME TypeOK
    PROVE  /\ IsFiniteSet(Covered) /\ Cardinality(Covered) \in Nat
           /\ \A S : S \subseteq Covered => Cardinality(S) <= Cardinality(Covered)
<1>1. Covered \in SUBSET Keys
  BY DEF Covered, TypeOK
<1> QED
  BY <1>1, FiniteKeys, FS_Subset

(* Nothing more to count.                                                  *)
LEMMA CoveredShrinks ==
    ASSUME TypeOK, Counted, Covered' \subseteq Covered, total' = total
    PROVE  Cardinality(Covered') <= total'
<1>1. /\ Cardinality(Covered') \in Nat /\ Cardinality(Covered) \in Nat /\ total \in Nat
      /\ Cardinality(Covered') <= Cardinality(Covered)
  <2>1. Covered \in SUBSET Keys /\ Covered' \in SUBSET Keys
    BY DEF Covered, TypeOK
  <2> QED
    BY <2>1, FiniteKeys, FiniteCovered DEF TypeOK
<1> QED
  BY <1>1 DEF Counted

LEMMA CountedStep ==
    ASSUME TypeOK, Scanning, Counted, [Next]_vars
    PROVE  Counted'
<1>0. /\ stale \subseteq Keys /\ todo \subseteq Features /\ total \in Nat
      /\ unvisited \subseteq Keys
  BY DEF TypeOK
<1>1. CASE Error \/ Publish \/ (BeginCycle /\ Listed = {})
  <2>1. phase' = "waiting" /\ stale' = {} /\ total' = 0
    BY <1>1 DEF Error, Publish, BeginCycle, Wait, LeaveCycle
  <2>2. Cardinality({}) = 0 /\ Covered' = {}
    BY <2>1, FS_EmptySet DEF Covered
  <2> QED
    BY <2>1, <2>2 DEF Counted, Checking
<1>2. CASE BeginCycle /\ Listed # {}
  <2>1. phase = "waiting" /\ stale = {} /\ stale' = {} /\ phase' = "cycle" /\ total' = total
    BY <1>2 DEF BeginCycle, Counted, Checking
  <2>2. Cardinality({}) = 0 /\ Covered' = {}
    BY <2>1, FS_EmptySet DEF Covered
  <2> QED
    BY <1>0, <2>1, <2>2 DEF Counted, Checking
<1>3. ASSUME NEW f \in Features, CheckFeature(f)
      PROVE  Counted'
  <2>1. /\ phase = "cycle" /\ phase' = "scan" /\ f \in todo /\ feature' = f
        /\ UNCHANGED <<stale, total, todo, redis, lost>>
    BY <1>3 DEF CheckFeature
  <2>2. stale \intersect KeysOf(f) = {}
    BY <2>1 DEF Counted, KeysOf
  <2>3. Covered' \subseteq Covered
    BY <2>1 DEF Covered
  <2> QED
    BY <2>1, <2>2, <2>3, CoveredShrinks DEF Counted, Checking, KeysOf
<1>4. ASSUME NEW k \in Keys, Visit(k) \/ Revisit(k)
      PROVE  Counted'
  <2>1. /\ phase = "scan" /\ phase' = "scan" /\ k \in KeysOf(feature) /\ k \in Present
        /\ (stale' = stale \/ stale' = stale \union {k})
        /\ UNCHANGED <<total, todo, redis, feature, lost>>
    BY <1>4 DEF Visit, Revisit, Examine, Scanning
  <2>2. Feature(k) = feature /\ feature \in todo
    BY <1>4, <2>1 DEF KeysOf, Scanning
  <2>3. Covered' \subseteq Covered
    BY <2>1, <2>2 DEF Covered
  <2>4. Present' = Present
    BY <2>1 DEF Present
  <2> QED
    BY <2>1, <2>2, <2>3, <2>4, CoveredShrinks DEF Counted, Checking, KeysOf
<1>5. CASE Count
  <2>1. /\ phase = "scan" /\ phase' = "count" /\ unvisited' = KeysOf(feature)
        /\ steady' = KeysOf(feature) \intersect Present
        /\ UNCHANGED <<stale, total, todo, redis, feature, lost>>
    BY <1>5 DEF Count, BeginScan
  <2>2. Covered' \subseteq Covered
    BY <1>0, <2>1 DEF Covered, KeysOf
  <2>3. Present' = Present
    BY <2>1 DEF Present
  <2> QED
    BY <2>1, <2>2, <2>3, CoveredShrinks DEF Counted, Checking, KeysOf
<1>6. ASSUME NEW k \in Keys, CountKey(k)
      PROVE  Counted'
  <2>1. /\ phase = "count" /\ phase' = "count" /\ total' = total + 1
        /\ unvisited' = unvisited \ {k} /\ steady' = steady \ {k}
        /\ UNCHANGED <<stale, todo, redis, feature, lost>>
    BY <1>6 DEF CountKey
  <2>2. Covered' \subseteq Covered \union {k}
    BY <2>1 DEF Covered
  <2>3. Cardinality(Covered') <= Cardinality(Covered) + 1
    <3> DEFINE C == Covered
    <3>0. IsFiniteSet(C) /\ Cardinality(C) \in Nat
      BY FiniteCovered
    <3> HIDE DEF C
    <3>1. /\ IsFiniteSet(C \union {k})
          /\ Cardinality(C \union {k}) \in {Cardinality(C), Cardinality(C) + 1}
      BY <3>0, FS_AddElement, Zenon
    <3>2. Covered' \in SUBSET Keys
      BY <1>0, <2>1 DEF Covered
    <3> QED
      <4>1. Cardinality(Covered') <= Cardinality(C \union {k})
        BY <2>2, <3>1, FS_Subset DEF C
      <4>2. Cardinality(Covered') \in Nat
        BY <3>2, FiniteKeys
      <4>3. Cardinality(Covered') <= Cardinality(C) + 1
        BY <3>0, <3>1, <4>1, <4>2
      <4> QED
        BY <4>3 DEF C
  <2>4. Cardinality(Covered') \in Nat /\ Cardinality(Covered) \in Nat
    <3>1. Covered' \in SUBSET Keys
      BY <1>0, <2>1 DEF Covered
    <3> QED
      BY <3>1, FiniteKeys, FiniteCovered
  <2>5. Present' = Present
    BY <2>1 DEF Present
  <2> QED
    BY <1>0, <2>1, <2>3, <2>4, <2>5 DEF Counted, Checking, KeysOf
<1>7. ASSUME NEW k \in Keys, Miss(k)
      PROVE  Counted'
  <2>1. /\ phase \in {"scan", "count"} /\ k \in unvisited \ steady
        /\ unvisited' = unvisited \ {k}
        /\ UNCHANGED <<phase, steady, stale, total, todo, redis, feature, lost>>
    BY <1>7 DEF Miss
  <2>2. Covered' \subseteq Covered
    BY <2>1 DEF Covered, Counted
  <2>3. Present' = Present
    BY <2>1 DEF Present
  <2> QED
    BY <2>1, <2>2, <2>3, CoveredShrinks DEF Counted, Checking, KeysOf
<1>8. CASE NextFeature
  <2>1. /\ phase = "count" /\ phase' = "cycle" /\ unvisited = {}
        /\ todo' = todo \ {feature}
        /\ UNCHANGED <<stale, total, lost>>
    BY <1>8 DEF NextFeature
  <2>2. Covered' \subseteq Covered
    BY <2>1 DEF Covered
  <2> QED
    BY <2>1, <2>2, CoveredShrinks DEF Counted, Checking
<1>9. ASSUME NEW gone \in SUBSET Keys, Drop(gone),
             UNCHANGED <<phase, todo, feature, unvisited, stale, total>>
      PROVE  Counted'
  <2>1. /\ redis' = [k \in Keys |-> IF k \in gone THEN Absent ELSE redis[k]]
        /\ steady' = steady \ gone
        /\ Checking => lost' = lost \union gone
        /\ ~Checking => lost' = lost
    BY <1>9 DEF Drop, Checking, TypeOK
  <2>2. Present' = Present \ gone
    BY <2>1 DEF Present
  <2>3. Covered' \subseteq Covered
    BY <1>9, <2>1 DEF Covered
  <2> QED
    BY <1>9, <2>1, <2>2, <2>3, CoveredShrinks DEF Counted, Checking, KeysOf
<1>10. CASE \/ Stop \/ UNCHANGED vars \/ Consumer
            \/ \E f \in Features, s \in Seconds \union {Unregistered} : Register(f, s)
  <2>1. UNCHANGED <<phase, todo, feature, unvisited, steady, stale, total, lost>>
    BY <1>10 DEF Stop, vars, monitorVars, cycleVars, Consumer, Resolve, Store, Abandon, Register
  <2>2. Present \subseteq Present'
    <3>1. CASE redis' = redis
      BY <3>1 DEF Present
    <3>2. CASE \E k \in Keys : Store(k)
      <4>1. PICK k \in Keys : Store(k)
        BY <3>2
      <4>2. redis' \in [Keys -> Value \union {Absent}] /\ Absent \notin Value
        BY StoreTypes, AbsentAssumption
      <4>3. redis'[k] # Absent
        <5>1. inHand[k] \in Pending /\ now \in Nat
          BY <4>1 DEF Store, TypeOK
        <5>2. redis'[k] \in Value
          BY <4>1, <5>1 DEF Store, TypeOK, Pending, Value
        <5> QED
          BY <4>2, <5>2
      <4> QED
        BY <4>1, <4>3 DEF Present, Store, TypeOK
    <3> QED
      BY <1>10, <3>1, <3>2 DEF Stop, vars, Consumer, Resolve, Abandon, Register
  <2>3. Covered' = Covered
    BY <2>1 DEF Covered
  <2> QED
    BY <2>1, <2>2, <2>3, CoveredShrinks DEF Counted, Checking, KeysOf
<1>11. CASE End
  <2>1. phase = "waiting" /\ phase' = "ended" /\ UNCHANGED <<stale, total, lost>>
    BY <1>11 DEF End, cycleVars
  <2>2. Covered' \subseteq Covered
    BY <2>1 DEF Covered, Counted, Checking
  <2> QED
    BY <2>1, <2>2, CoveredShrinks DEF Counted, Checking
<1>12. CASE Tick
  <2>1. /\ Drop({k \in Present : redis[k].expires <= now'})
        /\ UNCHANGED <<phase, todo, feature, unvisited, stale, total>>
    BY <1>12 DEF Tick
  <2> QED
    BY <1>9, <2>1 DEF Present
<1>13. CASE \E k \in Keys : Evict(k)
  <2>1. PICK k \in Keys : Evict(k)
    BY <1>13
  <2>2. Drop({k}) /\ UNCHANGED <<phase, todo, feature, unvisited, stale, total>>
    BY <2>1 DEF Evict
  <2> QED
    BY <1>9, <2>2
<1> QED
  BY <1>1, <1>2, <1>3, <1>4, <1>5, <1>6, <1>7, <1>8, <1>10, <1>11, <1>12, <1>13
     DEF Next, Monitor

-----------------------------------------------------------------------------
(* A write takes its TTL with it, and its event is no younger than it.     *)

LEMMA HeldStep ==
    ASSUME TypeOK, Held, [Next]_vars
    PROVE  Held'
<1>1. now \in Nat /\ now' \in Nat /\ now <= now'
  <2>1. now \in Nat
    BY DEF TypeOK
  <2>2. now' = now \/ now' = now + 1
    BY DEF Next, Monitor, Consumer, vars, Tick, Stop, Register, Resolve, Store, Abandon,
     Evict, BeginCycle, Count, CountKey, NextFeature, Publish, Error, End, CheckFeature, Visit,
     Revisit, Examine, Miss
  <2> QED
    BY <2>1, <2>2
<1>2. \A k \in Keys : inHand[k] # Absent => inHand[k] \in Pending /\ inHand[k].ts \in Int
  BY DEF TypeOK, Pending
<1>3. CASE UNCHANGED <<redis, inHand>>
  BY <1>1, <1>2, <1>3 DEF Held
<1>4. CASE \E gone \in SUBSET Keys : Drop(gone) /\ UNCHANGED inHand
  <2>1. inHand' = inHand /\ \A k \in Keys : redis'[k] \in {redis[k], Absent}
    BY <1>4 DEF Drop
  <2> QED
    BY <1>1, <1>2, <2>1 DEF Held
<1>5. ASSUME NEW k \in Keys, Store(k)
      PROVE  Held'
  <2>1. inHand[k] \in Pending /\ inHand[k] # Absent
    BY <1>5, <1>2 DEF Store
  <2>2. /\ redis'[k] = [ts |-> inHand[k].ts, expires |-> now + inHand[k].ttl,
                        freshness |-> inHand[k].freshness]
        /\ \A j \in Keys \ {k} : redis'[j] = redis[j] /\ inHand'[j] = inHand[j]
        /\ inHand'[k] = Absent /\ now' = now
    BY <1>5 DEF Store, TypeOK
  <2>3. /\ inHand[k].ts <= now /\ inHand[k].ttl = TtlMultiplier * inHand[k].freshness
        /\ inHand[k].ts \in Int /\ inHand[k].freshness \in Nat
    BY <2>1, SecondsAssumption DEF Held, Pending
  <2>4. redis'[k].expires >= redis'[k].ts + TtlMultiplier * redis'[k].freshness
    BY <1>1, <2>2, <2>3 DEF TtlMultiplier
  <2> QED
    BY <2>2, <2>4 DEF Held
<1>6. ASSUME NEW k \in Keys, Abandon(k)
      PROVE  Held'
  <2>1. /\ redis' = redis /\ now' = now
        /\ \A j \in Keys : inHand'[j] \in {inHand[j], Absent}
    BY <1>6 DEF Abandon, TypeOK
  <2> QED
    BY <2>1 DEF Held
<1>7. ASSUME NEW k \in Keys, NEW lag \in Lags, Resolve(k, lag)
      PROVE  Held'
  <2> DEFINE s == Freshness(Feature(k))
  <2>1. /\ redis' = redis /\ now' = now
        /\ inHand' = [inHand EXCEPT ![k] = [ts |-> now - lag, ttl |-> Ttl(s), freshness |-> s]]
    BY <1>7 DEF Resolve
  <2>2. now - lag <= now
    BY <1>1, LagsAssumption
  <2> HIDE DEF s
  <2>3. \A j \in Keys : \/ inHand'[j] = inHand[j]
                        \/ inHand'[j] = [ts |-> now - lag, ttl |-> Ttl(s), freshness |-> s]
    BY <2>1 DEF TypeOK
  <2> QED
    BY <2>1, <2>2, <2>3 DEF Held, Ttl
<1> QED
  BY <1>3, <1>4, <1>5, <1>6, <1>7, StoreCases

LEMMA PublishedStep ==
    ASSUME TypeOK, Cardinality(published.stale) <= published.count, [Next]_vars
    PROVE  Cardinality(published'.stale) <= published'.count
<1>1. CASE Publish
  <2>1. Cardinality(stale) \in Nat /\ again \in Nat
    BY FiniteKeys DEF TypeOK
  <2> QED
    BY <1>1, <2>1 DEF Publish
<1>2. CASE published' = published
  BY <1>2
<1> QED
  BY <1>1, <1>2 DEF Next, Monitor, Consumer, vars, monitorVars, Tick, Stop, Register, Resolve,
     Store, Abandon, Evict, BeginCycle, Count, CountKey, NextFeature, Error, End, CheckFeature,
     Visit, Revisit, Examine, Miss

-----------------------------------------------------------------------------
LEMMA InitIInv == Init => IInv
<1> SUFFICES ASSUME Init PROVE IInv
  OBVIOUS
<1>1. TypeOK
  BY TypeInit
<1>2. /\ now = 0 /\ due = 0 /\ phase = "waiting" /\ stale = {} /\ total = 0
      /\ redis = [k \in Keys |-> Absent]
  BY DEF Init
<1>3. Clock
  BY <1>2, CycleAssumption DEF Clock, Checking
<1>4. Scanning /\ \A k \in Keys : Watched(k)
  BY <1>2 DEF Scanning, Watched, Present
<1>5. Counted
  <2>1. Covered = {} /\ ~Checking
    BY <1>2 DEF Covered, Checking
  <2> QED
    BY <1>2, <2>1, FS_EmptySet DEF Counted, Checking
<1>6. Held
  BY DEF Init, Held
<1>7. Cardinality(published.stale) <= published.count
  BY FS_EmptySet DEF Init
<1> QED
  BY <1>1, <1>3, <1>4, <1>5, <1>6, <1>7 DEF IInv

LEMMA NextIInv == IInv /\ [Next]_vars => IInv'
BY TypeStep, ClockStep, ScanningStep, WatchedStep, CountedStep, HeldStep, PublishedStep DEF IInv

(* The inductive invariant: what a cycle in progress has found and what it *)
(* still has to visit.                                                     *)
THEOREM Invariance == Spec => []IInv
BY InitIInv, NextIInv, PTL DEF Spec

(* Every variable keeps its type: a count is a natural number, and what is *)
(* published names keys (monitor.py:162).                                  *)
THEOREM TypeCorrectness == Spec => []TypeOK
<1>1. IInv => TypeOK
  BY DEF IInv
<1> QED
  BY <1>1, Invariance, PTL

(* A value the API serves as stale is in the monitor's report, and health  *)
(* degraded, within an interval and two cycles, for every interval, length *)
(* of a cycle, freshness and number of keys.                               *)
THEOREM StaleValuesAreReported == Spec => []ReportedInTime
<1>1. ASSUME IInv
      PROVE  ReportedInTime
  <2> SUFFICES ASSUME NEW e \in Entities, NEW f \in StaleFeatures(e),
                      <<e, f>> \in Present, ~stopping,
                      now > Later(redis[<<e, f>>].ts + sla[f] + 1, quiet[<<e, f>>])
                               + Interval + 2 * CycleTime
               PROVE  <<e, f>> \in published.stale /\ Health = "degraded"
    BY Zenon DEF ReportedInTime
  <2> DEFINE k == <<e, f>>
  <2>1. k \in Keys /\ Feature(k) = f /\ Registered(f)
    BY DEF StaleFeatures, Keys, Feature
  <2>2. now > Since(k) + Interval + 2 * CycleTime
    BY <2>1 DEF Since
  <2>3. /\ now \in Nat /\ due \in Nat /\ Since(k) \in Int
        /\ Interval \in Nat /\ CycleTime \in Nat
    BY <1>1, <2>1, KeyTypes, CycleAssumption DEF IInv, TypeOK
  <2>4. phase \in {"waiting", "cycle", "scan", "count"} /\ now <= due
    BY <1>1 DEF IInv, TypeOK, Clock
  <2> HIDE DEF k
  <2>5. k \in published.stale \/ due <= Since(k) + Interval + CycleTime
        \/ due <= Since(k) + Interval + 2 * CycleTime
    BY <1>1, <2>1, <2>4 DEF IInv, Watched, Checking, k
  <2>6. k \in published.stale
    BY <2>2, <2>3, <2>4, <2>5
  <2>7. Cardinality(published.stale) \in Nat \ {0}
    <3>1. published.stale \in SUBSET Keys
      BY <1>1 DEF IInv, TypeOK
    <3> QED
      BY <2>6, <3>1, FiniteKeys, FS_EmptySet
  <2>8. Health = "degraded"
    BY <1>1, <2>7 DEF Health, IInv, TypeOK
  <2> QED
    BY <2>6, <2>8 DEF k
<1> QED
  BY <1>1, Invariance, PTL

(* The monitor finds stale only what the API serves as stale at that       *)
(* moment, up to a change of the definition in mid-cycle.                  *)
THEOREM AlarmsAreJustified == Spec => NoFalseAlarm
<1>1. ASSUME IInv, [Next]_vars
      PROVE  [\A k \in stale' \ stale : IsStale(k) \/ sla[Feature(k)] # defs[Feature(k)]]_vars
  <2> SUFFICES ASSUME Next, NEW k \in stale' \ stale, sla[Feature(k)] = defs[Feature(k)]
               PROVE  IsStale(k)
    BY <1>1
  <2>1. /\ Visit(k) \/ Revisit(k)
        /\ k \in Keys /\ TooOld(at - redis[k].ts, defs[feature])
    BY <1>1 DEF Next, Monitor, Tick, Stop, Register, Consumer, Resolve, Store, Abandon, Evict, Drop, monitorVars, cycleVars, BeginCycle,
       Count, CountKey, NextFeature, BeginScan, Publish, Error, End, CheckFeature, Visit, Revisit, Examine, Miss, Wait, LeaveCycle
  <2>2. Feature(k) = feature /\ feature \in todo /\ k \in Present /\ phase = "scan"
    BY <1>1, <2>1 DEF IInv, Visit, Revisit, Scanning, KeysOf
  <2>3. Registered(Feature(k))
    BY <1>1, <2>2 DEF IInv, TypeOK, Registered
  <2>4. /\ at \in Nat /\ now \in Nat /\ at <= now /\ redis[k].ts \in Int
        /\ sla[Feature(k)] \in Nat
    BY <1>1, <2>1, <2>2, KeyTypes DEF IInv, TypeOK, Clock
  <2>5. Age(k) > sla[Feature(k)]
    BY <2>1, <2>2, <2>4 DEF TooOld, Age
  <2> QED
    BY <2>3, <2>5 DEF IsStale
<1> QED
  BY <1>1, Invariance, PTL DEF Spec, NoFalseAlarm

(* More stale keys than keys are published (monitor.py:161) only for those *)
(* that Redis dropped and those that SCAN returned again.                  *)
THEOREM CountsDifferByLosses == Spec => CountsExplained
<1> DEFINE Explained ==
       published' # published =>
          published'.count <= published'.total + Cardinality(lost) + again
<1>1. ASSUME IInv, [Next]_vars
      PROVE  [Explained]_vars
  <2> SUFFICES ASSUME published' # published
               PROVE  published'.count <= published'.total + Cardinality(lost) + again
    OBVIOUS
  <2>1. Publish
    BY <1>1 DEF Next, Monitor, Consumer, vars, monitorVars, Tick, Stop, Register, Resolve, Store,
       Abandon, Evict, BeginCycle, Count, CountKey, NextFeature, Error, End, CheckFeature, Visit,
       Revisit, Examine, Miss
  <2>2. /\ phase = "cycle" /\ published'.total = total
        /\ published'.count = Cardinality(stale) + again
    BY <2>1 DEF Publish
  <2>3. TypeOK /\ stale \in SUBSET Keys /\ lost \in SUBSET Keys /\ total \in Nat /\ again \in Nat
    BY <1>1 DEF IInv, TypeOK
  <2>4. stale \subseteq Covered \union lost
    BY <2>2 DEF Covered
  <2>5. /\ IsFiniteSet(stale) /\ IsFiniteSet(Covered) /\ IsFiniteSet(lost)
        /\ Cardinality(stale) \in Nat /\ Cardinality(Covered) \in Nat
        /\ Cardinality(lost) \in Nat
    BY <2>3, FiniteKeys, FiniteCovered
  <2> DEFINE C == Covered
  <2>6. /\ IsFiniteSet(C \union lost) /\ Cardinality(C \union lost) \in Nat
        /\ Cardinality(C \union lost) <= Cardinality(C) + Cardinality(lost)
    <3>1. IsFiniteSet(C) /\ Cardinality(C) \in Nat
      BY <2>5
    <3> HIDE DEF C
    <3>2. /\ IsFiniteSet(C \union lost)
          /\ Cardinality(C \union lost) =
                Cardinality(C) + Cardinality(lost) - Cardinality(C \intersect lost)
      BY <2>5, <3>1, FS_Union
    <3>3. Cardinality(C \intersect lost) \in Nat /\ Cardinality(C \union lost) \in Nat
      BY <3>1, <3>2, FS_Intersection, FS_CardinalityType
    <3> QED
      BY <2>5, <3>1, <3>2, <3>3
  <2>7. Cardinality(stale) <= Cardinality(C \union lost)
    BY <2>4, <2>6, FS_Subset
  <2>8. Cardinality(Covered) <= total
    BY <1>1 DEF IInv, Counted
  <2> QED
    BY <2>2, <2>3, <2>5, <2>6, <2>7, <2>8
<1> QED
  BY <1>1, Invariance, PTL DEF Spec, CountsExplained

(* What expires in Redis has outlived the freshness its writer looked up   *)
(* (consumer.py:237), for every freshness, whatever the time between the   *)
(* lookup and the transaction and whatever happened to the definition in   *)
(* between: no value expires that the API would have served as fresh.      *)
THEOREM NothingFreshExpires == Spec => FreshValuesStay
<1> DEFINE Outlived(k) ==
       /\ now' # now /\ redis'[k] = Absent
       /\ sla[Feature(k)] = redis[k].freshness
       => now' - redis[k].ts > sla[Feature(k)]
<1>1. ASSUME IInv, Next, NEW k \in Present
      PROVE  Outlived(k)
  <2> SUFFICES ASSUME now' # now, redis'[k] = Absent, sla[Feature(k)] = redis[k].freshness
               PROVE  now' - redis[k].ts > sla[Feature(k)]
    OBVIOUS
  <2>1. Tick
    BY <1>1 DEF Next, Monitor, Consumer, monitorVars, Stop, Register, Resolve, Store,
       Abandon, Evict, BeginCycle, Count, CountKey, NextFeature, Publish, Error, End,
       CheckFeature, Visit, Revisit, Examine, Miss
  <2>2. k \in Keys /\ redis[k] # Absent /\ redis[k] \in Value
    BY <1>1 DEF Present, IInv, TypeOK
  <2>3. /\ redis[k].ts \in Int /\ redis[k].expires \in Int
        /\ redis[k].freshness \in Nat \ {0} /\ now \in Nat /\ now' = now + 1
    BY <1>1, <2>1, <2>2, SecondsAssumption DEF Value, IInv, TypeOK, Tick
  <2>4. redis[k].expires <= now'
    <3>1. redis' = [j \in Keys |-> IF j \in {i \in Present : redis[i].expires <= now'}
                                   THEN Absent ELSE redis[j]]
      BY <2>1 DEF Tick, Drop
    <3> QED
      BY <2>2, <3>1
  <2>5. redis[k].expires >= redis[k].ts + TtlMultiplier * redis[k].freshness
    BY <1>1, <2>2 DEF IInv, Held
  <2> QED
    BY <2>3, <2>4, <2>5 DEF TtlMultiplier
<1>2. ASSUME IInv, [Next]_vars
      PROVE  [\A k \in Present : Outlived(k)]_vars
  <2> HIDE DEF Outlived
  <2> QED
    BY <1>1, <1>2
<1> QED
  BY <1>2, Invariance, PTL DEF Spec, FreshValuesStay
=============================================================================
