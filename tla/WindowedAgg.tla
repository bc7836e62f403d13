---------------------------- MODULE WindowedAgg ----------------------------
(***************************************************************************)
(* stream/windowed_agg.py: WindowEngine routes every event to tumbling     *)
(* windows of several sizes and to one sliding window over a pruned deque. *)
(*                                                                         *)
(* A bucket's statistics are functions of the events added to it, so a     *)
(* bucket is the set of these events, and an event is its timestamp and    *)
(* its number in the order of ingestion.  Timestamps are whole ticks.      *)
(* Events may arrive out of order: ingest asks for no order, although the  *)
(* generator of the module sorts what it yields.                           *)
(***************************************************************************)
EXTENDS Integers, Sequences

CONSTANTS
    Times,      \* the timestamps events may have
    Sizes,      \* the sizes of the tumbling windows, _TUMBLING_CONFIGS
    Window,     \* window_seconds of the sliding window
    Step,       \* step_seconds
    MaxBuffer,  \* max_buffer_size
    MaxEvents   \* bound: events ingested

ASSUME TimesAssumption   == Times \subseteq Nat
ASSUME SizesAssumption   == Sizes \subseteq Nat \ {0}
ASSUME SlidingAssumption == /\ Window \in Nat \ {0}
                            /\ Step \in Nat \ {0}
                            /\ MaxBuffer \in Nat \ {0}
ASSUME BoundAssumption   == MaxEvents \in Nat

Event == [n : Nat \ {0}, ts : Times]

VARIABLES
    total,      \* _ingested
    ingested,   \* the events ingested so far
    buckets,    \* which event was added to which bucket of which size
    buffer,     \* the deque of the sliding window
    lastTs,     \* _last_ts
    capped      \* the hard cap has dropped an event

vars == <<total, ingested, buckets, buffer, lastTs, capped>>

Init ==
    /\ total = 0
    /\ ingested = {}
    /\ buckets = {}
    /\ buffer = << >>
    /\ lastTs = 0
    /\ capped = FALSE

Elements(s) == {s[i] : i \in 1 .. Len(s)}
Drop(s, n)  == SubSeq(s, n + 1, Len(s))

-----------------------------------------------------------------------------
(* Faulty variants of the definitions below. *)

NearestStart(size, t) == ((t + size \div 2) \div size) * size   \* round, not floor
LateStart(size, t) == ((t - 1) \div size) * size                \* (W, W + size]
CutoffWithoutStep(last) == last - Window                        \* forgets the step
ExcessBeforeAppend(s) ==                          \* the cap tested before the append
    IF Len(s) - 1 > MaxBuffer THEN Len(s) - 1 - MaxBuffer ELSE 0
FirstCursorOnly(first, last) ==                     \* the cursor does not move on
    {c \in first .. first + Step - 1 :
        c % Step = 0 /\ c + Window <= last + Step}

-----------------------------------------------------------------------------
(* math.floor(event.ts / size) * size *)
Start(size, t) == (t \div size) * size

Cutoff(last) == last - (Window + Step)

(* The first while loop of ingest pops n events off the front of s.        *)
Prunes(s, n, cutoff) ==
    /\ \A i \in 1 .. n : s[i].ts < cutoff
    /\ n < Len(s) => s[n + 1].ts >= cutoff

(* The second one pops what exceeds the hard cap.                          *)
Excess(s) == IF Len(s) > MaxBuffer THEN Len(s) - MaxBuffer ELSE 0

IngestTumbling(e) ==
    buckets' = buckets \union
       {[size |-> s, start |-> Start(s, e.ts), event |-> e] : s \in Sizes}

IngestSliding(e) ==
    LET all == Append(buffer, e) IN
    /\ lastTs' = IF e.ts > lastTs THEN e.ts ELSE lastTs
    /\ \E n \in 0 .. Len(all) :
          /\ Prunes(all, n, Cutoff(lastTs'))
          /\ buffer' = Drop(all, n + Excess(Drop(all, n)))
          /\ capped' = (capped \/ Excess(Drop(all, n)) > 0)

Ingest(t) ==
    /\ total < MaxEvents
    /\ total' = total + 1
    /\ LET e == [n |-> total + 1, ts |-> t] IN
       /\ ingested' = ingested \union {e}
       /\ IngestTumbling(e)
       /\ IngestSliding(e)

Next == \E t \in Times : Ingest(t)

Spec == Init /\ [][Next]_vars

(* TumblingWindowEngine.flush: the buckets of a size, by their start.      *)
Flush(size) == {b.start : b \in {b \in buckets : b.size = size}}
Bucket(size, start) ==
    {b.event : b \in {b \in buckets : b.size = size /\ b.start = start}}

(* query(at_ts): both ends of the window are inclusive.                    *)
Query(end) == {e \in Elements(buffer) : end - Window <= e.ts /\ e.ts <= end}

(* compute_all_windows: the cursor starts at the first multiple of Step    *)
(* not below the oldest event and moves by Step.                           *)
Cursors(first, last) ==
    {c \in first .. last + Step : c % Step = 0 /\ c + Window <= last + Step}

AllWindows ==
    IF buffer = << >> THEN {}
    ELSE {c + Window : c \in Cursors(buffer[1].ts, buffer[Len(buffer)].ts)}

-----------------------------------------------------------------------------
(* Properties. *)

TypeOK ==
    /\ total \in Nat
    /\ ingested \subseteq Event
    /\ buckets \subseteq [size : Sizes, start : Nat, event : Event]
    /\ buffer \in Seq(Event)
    /\ lastTs \in Nat
    /\ capped \in BOOLEAN

(* "Any event with ts in [W, W + size) falls into bucket W", and into no   *)
(* other bucket of that size, however late it comes; so the windows of two *)
(* sizes agree: where one size divides the other, a coarse bucket holds    *)
(* what its fine ones hold.                                                *)
TumblingExact ==
    /\ \A s \in Sizes : \A w \in Flush(s) :
          Bucket(s, w) = {e \in ingested : w <= e.ts /\ e.ts < w + s}
    /\ \A s \in Sizes : UNION {Bucket(s, w) : w \in Flush(s)} = ingested
    /\ \A fine, coarse \in Sizes : coarse % fine = 0 =>
          \A w \in Flush(coarse) :
             Bucket(coarse, w) =
                UNION {Bucket(fine, v) : v \in Flush(fine) \cap (w .. w + coarse - 1)}

InWindow(end) == {e \in ingested : end - Window <= e.ts /\ e.ts <= end}

(* Pruning never costs a window that ends within a step of the newest      *)
(* event anything, in whatever order the events came; only the hard cap    *)
(* does.                                                                   *)
RecentWindowsExact ==
    ~capped => \A end \in lastTs - Step .. lastTs : Query(end) = InWindow(end)

InOrder == \A a, b \in ingested : a.n < b.n => a.ts <= b.ts

(* For a sorted stream, every window compute_all_windows returns counts    *)
(* exactly the events ingested in it, and where the windows overlap or     *)
(* touch, no event from the first one's start on is left out.              *)
WindowsExact ==
    InOrder /\ ~capped =>
       /\ \A end \in AllWindows : Query(end) = InWindow(end)
       /\ Step <= Window =>
             \A e \in ingested :
                (\E end \in AllWindows : end - Window <= e.ts)
                   => \E end \in AllWindows : e \in Query(end)

(* "Each event is stored in a deque ordered by ts", and all step-aligned   *)
(* windows "over the buffer" are computed: those from its first event up   *)
(* to its newest, whichever event arrived last.                            *)
WindowsReachNewest ==
    \A e \in Elements(buffer) :
       \A c \in Cursors(buffer[1].ts, e.ts) : c + Window \in AllWindows

(* Memory is bounded as the docstring says, by the cap always and by       *)
(* window + step where the stream is sorted; a late event may stay longer, *)
(* but only behind one that is not old (and, once the cap has dropped that *)
(* one, at the front until the next event prunes it).                      *)
MemoryBounded ==
    /\ Len(buffer) <= MaxBuffer
    /\ ~capped /\ buffer # << >> => buffer[1].ts >= Cutoff(lastTs)
    /\ InOrder => \A e \in Elements(buffer) : e.ts >= Cutoff(lastTs)
=============================================================================
