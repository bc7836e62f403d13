-------------------------- MODULE FeatureFreshness --------------------------
(***************************************************************************)
(* The freshness of served features, against a clock: the consumer writes  *)
(* values to Redis with a TTL of twice the feature's freshness (consumer.py*)
(* _write_to_redis and _resolve_ttl), the API tells which values are stale *)
(* (serving.py), and the monitor thread scans Redis in cycles and          *)
(* publishes the stale ones for GET /health (monitor.py).                  *)
(*                                                                         *)
(* The clock waits for the monitor: a cycle begins when its wait is over   *)
(* and takes at most CycleTime.  SET with EXPIRE is one transaction, which *)
(* comes after the registry lookup.  Redis drops a key when its TTL is     *)
(* over, and may evict any (allkeys-lru); SCAN may return a key twice.     *)
(***************************************************************************)
EXTENDS Integers, FiniteSets

CONSTANTS
    Entities,
    Features,
    Seconds,        \* the values of expected_freshness_seconds
    Default,        \* DEFAULT_FRESHNESS_SECONDS
    HasRegistry,    \* the consumer was built with a registry; the standalone
                    \* FeatureConsumer() of its container was not
    Lags,           \* how old events are when they are written
    Interval,       \* MONITOR_INTERVAL_SECONDS
    CycleTime,      \* assumed: no cycle takes longer
    Absent,         \* no value in Redis
    MaxTime, MaxWrites,     \* bounds
    MaxUpsets       \* of errors, evictions, keys that SCAN repeats, changed
                    \* definitions and stops, together

ASSUME FiniteAssumption  == IsFiniteSet(Entities) /\ IsFiniteSet(Features)
ASSUME SecondsAssumption == Seconds \subseteq Nat \ {0} /\ Default \in Nat \ {0}
ASSUME FlagAssumption    == HasRegistry \in BOOLEAN
ASSUME LagsAssumption    == Lags \subseteq Nat
ASSUME CycleAssumption   == Interval \in Nat /\ CycleTime \in Nat
Value == [ts : Int, expires : Int, freshness : Seconds \union {Default}]
Pending == [ts : Int, ttl : Int, freshness : Seconds \union {Default}]

ASSUME AbsentAssumption  == Absent \notin Value \union Pending
ASSUME BoundAssumption   == {MaxTime, MaxWrites, MaxUpsets} \subseteq Nat

Keys == Entities \X Features
Feature(k) == k[2]
KeysOf(f) == {k \in Keys : Feature(k) = f}
Unregistered == 0                       \* not in list_all(): never was, or deleted
NoFeature == "none"
TtlMultiplier == 2

VARIABLES
    now,        \* the clock
    redis,      \* per key, the event's timestamp, when Redis drops it and, as
                \* history, the freshness that its writer had looked up
    inHand,     \* per key, the write between its lookup and its transaction
    sla,        \* per feature, expected_freshness_seconds of its active row
    phase,      \* of the monitor thread
    due,        \* when its wait ends; when its cycle ends at the latest
    stopping,   \* _stop_event
    defs,       \* the definitions a cycle has listed
    todo,       \* the features it has not begun
    feature,    \* the one it checks
    at,         \* "now" of that check
    unvisited,  \* the keys that the SCAN in progress has not dealt with yet
    steady,     \* those of them that have been in Redis all along
    stale,      \* the stale ones the cycle has found
    again,      \* how often it has found one of them again
    total,      \* total_checked
    published,  \* what get_stale_counts and get_stale_details return
    lost,       \* keys Redis has dropped since the cycle began (history)
    quiet,      \* when a key's value or SLA last changed, or a cycle failed (history)
    writes, upsets

cycleVars == <<defs, todo, feature, at, unvisited, steady, stale, again, total>>
monitorVars == <<phase, due, cycleVars, published>>
vars == <<now, redis, inHand, sla, monitorVars, stopping, lost, quiet, writes, upsets>>

Init ==
    /\ now = 0
    /\ redis = [k \in Keys |-> Absent] /\ inHand = [k \in Keys |-> Absent]
    /\ sla \in [Features -> Seconds \union {Unregistered}]   \* as it was left
    /\ phase = "waiting"
    /\ due = 0
    /\ stopping = FALSE
    /\ defs = [f \in Features |-> Unregistered] /\ todo = {}
    /\ feature = NoFeature /\ at = 0
    /\ unvisited = {} /\ steady = {}
    /\ stale = {} /\ again = 0 /\ total = 0
    /\ published = [stale |-> {}, count |-> 0, total |-> 0]
    /\ lost = {}
    /\ quiet = [k \in Keys |-> 0]
    /\ writes = 0 /\ upsets = 0

Present == {k \in Keys : redis[k] # Absent}
Registered(f) == sla[f] # Unregistered

-----------------------------------------------------------------------------
(* The locals of _check_feature and _check_all_features.                   *)
LeaveFeature ==
    feature' = NoFeature /\ at' = 0 /\ unvisited' = {} /\ steady' = {}
LeaveCycle ==
    /\ LeaveFeature
    /\ defs' = [f \in Features |-> Unregistered] /\ todo' = {}
    /\ stale' = {} /\ again' = 0 /\ total' = 0
    /\ lost' = {}

Wait == LeaveCycle /\ phase' = "waiting" /\ due' = now + Interval

(* A SCAN returns at least the keys that are there from first to last.     *)
BeginScan(f) == unvisited' = KeysOf(f) /\ steady' = KeysOf(f) \intersect Present

(* Redis drops keys.                                                       *)
Drop(gone) ==
    /\ redis' = [k \in Keys |-> IF k \in gone THEN Absent ELSE redis[k]]
    /\ steady' = steady \ gone
    /\ lost' = IF phase \in {"waiting", "ended"} THEN lost ELSE lost \union gone

(* Faulty variants of the definitions below. *)

TooOldAtLimit(age, s) == age >= s
AllListed == Features                            \* not only the active ones
SameAsFreshness(s) == s

CheckAsOfCycle(f) ==                             \* forgets what was found so far
    /\ phase = "cycle" /\ f \in todo
    /\ phase' = "scan"
    /\ feature' = f
    /\ at' = now
    /\ BeginScan(f)
    /\ stale' = {}
    /\ UNCHANGED <<now, redis, inHand, sla, due, defs, todo, again, total, published,
                   stopping, lost, quiet, writes, upsets>>

CountAfresh ==                                   \* the total of the last feature
    /\ phase = "scan" /\ unvisited = {}
    /\ phase' = "count"
    /\ BeginScan(feature)
    /\ total' = 0
    /\ UNCHANGED <<now, redis, inHand, sla, due, defs, todo, feature, at, stale, again,
                   published, stopping, lost, quiet, writes, upsets>>

-----------------------------------------------------------------------------
(* The environment: the clock, Redis, the registry's users, the consumers. *)

Tick ==
    /\ now < MaxTime
    /\ phase # "ended" => now < due
    /\ now' = now + 1
    /\ Drop({k \in Present : redis[k].expires <= now'})
    /\ UNCHANGED <<inHand, sla, phase, due, defs, todo, feature, at, unvisited, stale, again,
                   total, published, stopping, quiet, writes, upsets>>

(* maxmemory-policy allkeys-lru                                            *)
Evict(k) ==
    /\ k \in Present /\ upsets < MaxUpsets
    /\ upsets' = upsets + 1
    /\ Drop({k})
    /\ UNCHANGED <<now, inHand, sla, phase, due, defs, todo, feature, at, unvisited, stale,
                   again, total, published, stopping, quiet, writes>>

(* create, update and delete                                               *)
Register(f, s) ==
    /\ upsets < MaxUpsets /\ s # sla[f]
    /\ upsets' = upsets + 1
    /\ sla' = [sla EXCEPT ![f] = s]
    /\ quiet' = [k \in Keys |-> IF Feature(k) = f THEN now ELSE quiet[k]]
    /\ UNCHANGED <<now, redis, inHand, monitorVars, stopping, lost, writes>>

(* _resolve_ttl: the freshness it finds, and what it makes of it           *)
Freshness(f) == IF HasRegistry /\ Registered(f) THEN sla[f] ELSE Default
Ttl(s) == TtlMultiplier * s

(* _write_to_redis up to its transaction                                   *)
Resolve(k, lag) ==
    /\ writes < MaxWrites /\ inHand[k] = Absent
    /\ writes' = writes + 1
    /\ LET s == Freshness(Feature(k)) IN
       inHand' = [inHand EXCEPT ![k] = [ts |-> now - lag, ttl |-> Ttl(s), freshness |-> s]]
    /\ UNCHANGED <<now, redis, sla, monitorVars, stopping, lost, quiet, upsets>>

Store(k) ==
    /\ inHand[k] # Absent
    /\ redis' = [redis EXCEPT ![k] =
          [ts |-> inHand[k].ts, expires |-> now + inHand[k].ttl,
           freshness |-> inHand[k].freshness]]
    /\ inHand' = [inHand EXCEPT ![k] = Absent]
    /\ quiet' = [quiet EXCEPT ![k] = now]
    /\ UNCHANGED <<now, sla, monitorVars, stopping, lost, writes, upsets>>

(* Redis fails, and the consumer only counts and logs it; or it crashes.   *)
Abandon(k) ==
    /\ inHand[k] # Absent
    /\ inHand' = [inHand EXCEPT ![k] = Absent]
    /\ UNCHANGED <<now, redis, sla, monitorVars, stopping, lost, quiet, writes, upsets>>

-----------------------------------------------------------------------------
(* The monitor thread. *)

Listed == {f \in Features : Registered(f)}       \* list_all()

(* Without definitions the cycle publishes nothing.                        *)
BeginCycle ==
    /\ phase = "waiting" /\ ~stopping /\ now >= due
    /\ IF Listed = {} THEN Wait
       ELSE /\ phase' = "cycle" /\ due' = now + CycleTime
            /\ defs' = sla
            /\ todo' = Listed
            /\ UNCHANGED <<feature, at, unvisited, steady, stale, again, total, lost>>
    /\ UNCHANGED <<now, redis, inHand, sla, published, stopping, quiet, writes, upsets>>

CheckFeature(f) ==
    /\ phase = "cycle" /\ f \in todo
    /\ phase' = "scan"
    /\ feature' = f
    /\ at' = now
    /\ BeginScan(f)
    /\ UNCHANGED <<now, redis, inHand, sla, due, defs, todo, stale, again, total, published,
                   stopping, lost, quiet, writes, upsets>>

TooOld(age, s) == age > s

(* The body of the loop: GET, and append when the value is too old.        *)
Examine(k) ==
    LET old == TooOld(at - redis[k].ts, defs[feature]) IN
    /\ stale' = IF old THEN stale \union {k} ELSE stale
    /\ again' = IF old /\ k \in stale THEN again + 1 ELSE again
    /\ UNCHANGED <<now, redis, inHand, sla, phase, due, defs, todo, feature, at, total,
                   published, stopping, lost, quiet, writes>>

(* SCAN has returned k and GET finds it.                                   *)
Visit(k) ==
    /\ phase = "scan" /\ k \in unvisited \intersect Present
    /\ unvisited' = unvisited \ {k} /\ steady' = steady \ {k}
    /\ Examine(k)
    /\ UNCHANGED upsets

(* SCAN returns k once more.                                               *)
Revisit(k) ==
    /\ phase = "scan" /\ k \in (KeysOf(feature) \ unvisited) \intersect Present
    /\ upsets < MaxUpsets /\ upsets' = upsets + 1
    /\ Examine(k)
    /\ UNCHANGED <<unvisited, steady>>

(* SCAN need not return a key that was not there throughout, and GET may   *)
(* find it gone.                                                           *)
Miss(k) ==
    /\ phase \in {"scan", "count"} /\ k \in unvisited \ steady
    /\ unvisited' = unvisited \ {k}
    /\ UNCHANGED <<now, redis, inHand, sla, phase, due, defs, todo, feature, at, steady, stale,
                   again, total, published, stopping, lost, quiet, writes, upsets>>

(* _count_feature_keys is a second scan.                                   *)
Count ==
    /\ phase = "scan" /\ unvisited = {}
    /\ phase' = "count"
    /\ BeginScan(feature)
    /\ UNCHANGED <<now, redis, inHand, sla, due, defs, todo, feature, at, stale, again, total,
                   published, stopping, lost, quiet, writes, upsets>>

CountKey(k) ==
    /\ phase = "count" /\ k \in KeysOf(feature) \intersect Present
    /\ \/ k \in unvisited /\ UNCHANGED upsets
       \/ k \notin unvisited /\ upsets < MaxUpsets /\ upsets' = upsets + 1
    /\ unvisited' = unvisited \ {k} /\ steady' = steady \ {k}
    /\ total' = total + 1
    /\ UNCHANGED <<now, redis, inHand, sla, phase, due, defs, todo, feature, at, stale, again,
                   published, stopping, lost, quiet, writes>>

NextFeature ==
    /\ phase = "count" /\ unvisited = {}
    /\ phase' = "cycle"
    /\ todo' = todo \ {feature}
    /\ LeaveFeature
    /\ UNCHANGED <<now, redis, inHand, sla, due, defs, stale, again, total, published,
                   stopping, lost, quiet, writes, upsets>>

Publish ==
    /\ phase = "cycle" /\ todo = {}
    /\ published' = [stale |-> stale, count |-> Cardinality(stale) + again, total |-> total]
    /\ Wait
    /\ UNCHANGED <<now, redis, inHand, sla, stopping, quiet, writes, upsets>>

(* An exception out of the registry or Redis is logged by _run: the cycle  *)
(* publishes nothing, and the next one comes after the interval.           *)
Error ==
    /\ phase \in {"cycle", "scan", "count"} /\ upsets < MaxUpsets
    /\ upsets' = upsets + 1
    /\ Wait
    /\ quiet' = [k \in Keys |-> now]
    /\ UNCHANGED <<now, redis, inHand, sla, published, stopping, writes>>

Stop ==
    /\ ~stopping /\ upsets < MaxUpsets
    /\ stopping' = TRUE
    /\ upsets' = upsets + 1
    /\ UNCHANGED <<now, redis, inHand, sla, monitorVars, lost, quiet, writes>>

End ==
    /\ phase = "waiting" /\ stopping
    /\ phase' = "ended"
    /\ UNCHANGED <<now, redis, inHand, sla, due, cycleVars, published, stopping, lost, quiet,
                   writes, upsets>>

Monitor ==
    \/ BeginCycle \/ Count \/ NextFeature \/ Publish \/ Error \/ End
    \/ \E f \in Features : CheckFeature(f)
    \/ \E k \in Keys : Visit(k) \/ Revisit(k) \/ Miss(k) \/ CountKey(k)

Consumer ==
    \E k \in Keys : Store(k) \/ Abandon(k) \/ \E lag \in Lags : Resolve(k, lag)

Next ==
    \/ Monitor \/ Consumer \/ Tick \/ Stop
    \/ \E k \in Keys : Evict(k)
    \/ \E f \in Features, s \in Seconds \union {Unregistered} : Register(f, s)

Spec == Init /\ [][Next]_vars

-----------------------------------------------------------------------------
(* What the API answers.                                                   *)

Age(k) == now - redis[k].ts

(* GET /features/{entity}/{feature}: is_stale                              *)
IsStale(k) ==
    k \notin Present \/ (Registered(Feature(k)) /\ Age(k) > sla[Feature(k)])

(* GET /features/{entity}: stale_features                                  *)
StaleFeatures(e) == {f \in Features : Registered(f) /\ IsStale(<<e, f>>)}

(* GET /health: status                                                     *)
Health == IF published.count > 0 THEN "degraded" ELSE "healthy"

-----------------------------------------------------------------------------
(* Properties. *)

TypeOK ==
    /\ now \in Nat
    /\ redis \in [Keys -> Value \union {Absent}]
    /\ inHand \in [Keys -> Pending \union {Absent}]
    /\ sla \in [Features -> Seconds \union {Unregistered}]
    /\ phase \in {"waiting", "cycle", "scan", "count", "ended"}
    /\ due \in Nat
    /\ stopping \in BOOLEAN
    /\ defs \in [Features -> Seconds \union {Unregistered}]
    /\ todo \subseteq Features /\ feature \in Features \union {NoFeature}
    /\ \A f \in todo : defs[f] # Unregistered
    /\ at \in Nat
    /\ unvisited \subseteq Keys /\ steady \subseteq Keys /\ stale \subseteq Keys
    /\ again \in Nat /\ total \in Nat
    /\ published \in [stale : SUBSET Keys, count : Nat, total : Nat]
    /\ lost \subseteq Keys
    /\ quiet \in [Keys -> Nat]
    /\ writes \in 0 .. MaxWrites /\ upsets \in 0 .. MaxUpsets

Later(a, b) == IF a > b THEN a ELSE b

(* "/health exposes stale feature count in real time": a value the API     *)
(* serves as stale is reported, and health degraded, within one interval   *)
(* and two cycles of becoming so, counted anew from a write of its key, a  *)
(* change of its freshness and a cycle that failed, whatever the scan      *)
(* misses or repeats and whichever feature the cycle was at.               *)
ReportedInTime ==
    \A e \in Entities : \A f \in StaleFeatures(e) :
       LET k == <<e, f>> IN
       /\ k \in Present /\ ~stopping
       /\ now > Later(redis[k].ts + sla[f] + 1, quiet[k]) + Interval + 2 * CycleTime
       => k \in published.stale /\ Health = "degraded"

(* The monitor never alarms falsely: a key it finds stale is one the API   *)
(* serves as stale at that moment, unless the freshness of its feature     *)
(* changed after the cycle listed it.                                      *)
NoFalseAlarm == [][
    \A k \in stale' \ stale :
       IsStale(k) \/ sla[Feature(k)] # defs[Feature(k)]]_vars

(* The stale keys and the total are from two scans: more stale keys than   *)
(* keys are published only for keys that Redis dropped since the cycle     *)
(* began and for those that SCAN returned again.                           *)
CountsExplained == [][
    published' # published =>
       published'.count <= published'.total + Cardinality(lost) + again]_vars

(* Redis lets no value expire that is fresh, however long its write took,  *)
(* unless the freshness has changed since its writer looked it up.         *)
FreshValuesStay == [][
    \A k \in Present :
       /\ now' # now /\ redis'[k] = Absent
       /\ sla[Feature(k)] = redis[k].freshness
       => now' - redis[k].ts > sla[Feature(k)]]_vars
=============================================================================
