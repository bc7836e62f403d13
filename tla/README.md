# A TLA+ verification of the Kafka stream feature store

The repository is a streaming feature store: producers publish feature events to
Kafka, a consumer group writes the newest value of each feature to Redis, a
FastAPI service serves the values, a monitor watches how old they are, a registry
in a relational database says how fresh they must be, and a batch path computes
features with Spark and versions them with DuckDB. This directory models the parts
where interleavings, failures or orders of calls decide whether that works, checks
the models with TLC and proves the main results with TLAPS.

Paths below are relative to `src/`.

## 1. Inventory

| component | state | operations |
|---|---|---|
| **Feature consumer** `feature_store/consumer.py` | stop event, counters, the message in hand; Kafka positions and offsets; Redis values | `run_forever`/`start`/`stop`, `_run` (poll, process, commit), `_process_message`, `_write_to_redis`, `_resolve_ttl`, signal handler |
| **Feature producer** `feature_store/producer.py` | librdkafka's buffer | `publish` (poll, produce, flush on a full buffer, 4 attempts), `publish_batch`, `flush`, `close` |
| **Event schema** `feature_store/schemas/feature_event.py` | none | `from_json`, `to_json`, `redis_key`, validators |
| **Feature registry** `feature_store/registry.py` | rows of `feature_definitions` | `create`, `get`, `update`, `delete` (soft), `upsert`, `list_all` |
| **Freshness monitor** `feature_store/monitor.py` | stale and total counts, violation total, last run; a daemon thread | `start`, `stop`, `_check_all_features`, `get_stale_counts`, `get_stale_details`, `get_last_run` |
| **Serving API** `feature_store/serving.py` | process-wide clients | feature reads with staleness, batch read, registry endpoints, health, metrics, seeding |
| **Windowed aggregation** `stream/windowed_agg.py` | buckets per window size and start; one deque of recent events | `ingest`, `flush`, `query`, `compute_all_windows` |
| **Feature versioner** `store/feature_versioner.py` | DuckDB table `snapshots`, JSON manifests | `commit`, `rollback`, `diff`, `list_snapshots`, `get_snapshot` |
| **Batch pipeline** `spark/feature_pipeline.py` | Parquet directory | `run_pipeline`: compute features, delete the old files, write the new ones |
| **DuckDB queries** `analytics/feature_query.py` | a connection | features of a user, top users, drift summary, benchmark |
| Dashboards, frontends, load scripts, deployment files | configuration | presentation, test traffic, set-up |

**How they interact.** The producer keys messages by entity, so all events of an
entity are in one partition. The consumer asks the registry for the SLA of a
feature (when it has a registry) and writes `feature:{entity}:{name}` with twice
that as TTL. Serving and the monitor read those keys and the registry; they talk to
the consumer only through Redis. The versioner scans the Parquet files the pipeline
overwrites. Docker restarts the consumer when it fails.

**What is hard, and what makes each part correct.**

- *Consumer*: two processes meet at one partition in a rebalance; one that is
  evicted does not know it; it may die between the write and the commit; a
  signal arrives in any statement; every exception in processing is swallowed
  and committed. Correct means: nothing is committed unhandled, no valid event is
  lost, redelivery is bounded and has a cause, a key does not go back in time,
  the log is drained, a stop ends the process.
- *Versioner*: `commit` and `rollback` are several statements with no
  transaction, and a file. Correct means: one current snapshot at most, a lineage that is a
  forest, manifests that say what their rows say of a snapshot and its parent, calls that look
  atomic.
- *Freshness path* (Redis TTL, monitor, serving): a cycle reads Redis
  key by key, with a `SCAN` that may repeat or leave out keys, while values are written,
  expire, are evicted and are re-registered. Correct means: what the API serves as stale is
  reported within a bounded time, nothing else is, and nothing fresh expires.
- *Registry*: calls read in a session and write when it commits, and `upsert` takes two
  sessions. Correct means: no call undoes what another wrote, and a deleted feature
  stays deleted until someone asks for it.
- *Producer*: a buffer at its limit, threads that serve each other's callbacks, retries,
  callbacks that raise. Correct means: an event whose `publish` raised is not sent, none
  overtakes another of its thread, none is sent twice, all unless a callback raised;
  `publish` comes back.
- *Windowed aggregation*: events out of order, boundaries, pruning. Correct means: an
  event counts exactly in the windows that contain its timestamp.
- *Batch path*: files are overwritten, without a lock, under queries and
  scans, and any scan may fail. Correct means: a finished run is all a query sees, and a
  snapshot that says something describes the files it was taken of.

`PROJECT.json` lists every hazard at its line with the properties that cover it, or
why none does.

## 2. Modules

| module | models |
|---|---|
| `AtLeastOnceDelivery` | abstract: messages of a partition are handled in order, possibly again, and committed one at a time after they were handled |
| `FeatureConsumer` | the consumer group with Kafka, Redis and Docker around it, and its properties |
| `FeatureConsumerInvariant` | its inductive invariant |
| `FeatureConsumer_proofs` | its theorems |
| `MCFeatureConsumer` | its instances for TLC |
| `SnapshotHistory` | abstract: atomic commits and rollbacks over a lineage |
| `FeatureVersioner` | `commit` and `rollback` statement by statement, their properties, the inductive invariant |
| `LossyChannel` | abstract: per partition, the attempts to send an event are settled in order, each delivered or given up once |
| `FeatureProducer` | `publish`, `publish_batch`, `flush` and `close` of threads over one buffer |
| `FeatureRegistry` | the calls of several clients on one row, session by session |
| `FeatureFreshness` | composes the consumer's writes with TTL, the registry's rows, Redis, a monitor cycle key by key, and what serving answers, over a clock |
| `WindowedAgg` | tumbling and sliding windows over events in any order |
| `BatchFeatures` | the batch features and queries as operators on sets of rows |
| `BatchPipeline` | composes the pipeline's overwrite (`BatchFeatures`) with `FeatureVersioner` and its scan |
| `*_proofs`, `MC*` | for each module its theorems and its instances for TLC |

Each detailed module has a section of *faulty variants*. They are bugs a plausible
edit could introduce, not part of `Next`; putting one in the place of its action
breaks the property that guards against it, which shows that the property is
sensitive to the code. `PROJECT.json` pairs them ("mutants").

### 2.1 FeatureConsumer

| code | model |
|---|---|
| `consumer.poll` returns None or an error (155-163) | `PollNothing` |
| `consumer.poll` returns a message | `Poll(c, p)`: the position moves on, `pc` is `processing` |
| `_process_message`, `_write_to_redis`, `_resolve_ttl` (182-240) | `ProcessOk`, `ProcessMalformed` (`from_json` raises), `ProcessError` (registry or Redis raises; the value may have been stored before the error) |
| `consumer.commit(asynchronous=False)` (171) | `CommitOk`, `CommitFenced` (the group refuses a member it evicted), `CommitError` (fails, perhaps after the broker applied it: the exception leaves `_run`) |
| `while not stop_event` and `finally: close()` (153, 174-180) | `Exit`; `Leave` in the actions that end the process |
| `_handle_signal` (246-250) | `Signal`, in any statement |
| group coordinator, from how the loop uses it | `Assign`, `Revoke`, `Evict`, `SessionTimeout` |
| `docker-compose.yml` `restart: on-failure` | `Crash`, `Restart`; `Redeploy` is an operator starting a stopped container |
| producers, Redis expiry | `Produce(p, m)`, `Expire(k)` |

What the environment is taken to do, and why:

- `confluent_kafka` serves rebalances inside `poll`, so `Revoke` happens only
  between two messages. `Evict` is the exception: `max.poll.interval.ms` or the
  session timeout passes while the process is busy, and the coordinator gives its
  partitions away without its knowledge.
- `commit()` without arguments commits the positions of all partitions the member
  owns, not only that of the last message (`CommitOffsets`).
- A new owner starts from the committed offset, or from 0:
  `auto.offset.reset` is `earliest`.
- `KafkaException` from a commit is not caught in `_run`; the process ends, its
  `finally` clause leaves the group, and Docker starts it again.
- Data is abstract. An event is a partition and an offset. Redis holds, for
  each key, the offset of the stored event. Every valid value is alike, and every
  message that `from_json` rejects is `Malformed`. `Expire` may take a key at any
  time, which covers every TTL.

### 2.2 FeatureVersioner

| code | model |
|---|---|
| `commit`: scan, id, current id (118-129) | `BeginCommit(x)` |
| `UPDATE ... is_current = FALSE` (131-133) | `Deactivate` |
| `INSERT ... TRUE` | `Insert` |
| `write_text` of the manifest | `OpenManifest`, `WriteManifest`: the file exists, empty, between them |
| `rollback`: look-up, `ValueError` if unknown | `BeginRollback(r)` |
| its two `UPDATE`s | `Clear`, `Restore` |
| a crash, or a statement that raises | `Interrupt`, before any statement |
| the process of a `:memory:` database ends (68) | `Forget`, unless `Durable`: the table is gone, the manifests are not |

Ids are the order of generation; the code's ids are a timestamp and a random part,
taken to be distinct. A scan that raises gives empty contents, one of `Contents`. One
call runs at a time: the object has one connection and DuckDB locks the
file. A manifest is the row and the `is_current` flag it had when it was written
(`asdict(meta)`, 147-161). Nothing rewrites the file when a later call clears or sets the
flag, so after two commits both manifests say they are current; `ManifestsMatchRows`
speaks of everything else in them. `list_snapshots` and `get_snapshot` change nothing; the scan and `diff` are in
`BatchPipeline`.

### 2.3 FeatureProducer

| code (`feature_store/producer.py`) | model |
|---|---|
| `publish` up to the loop; next element of `publish_batch` | `Call(t, p)`: `p` is where the key sends the event |
| `produce()` succeeds (102-108) | `Produce` |
| `produce()` raises anything but `BufferError` | `ProduceFails` |
| `BufferError` of `produce()`: count, `flush(timeout=5)` (119-126) | `ProduceFull`, which is a `Retry`, then `FlushSome` and `FlushEnd` |
| `poll(0)` and return (109) | `Poll` |
| `BufferError` out of a callback in `poll(0)`, caught at 119 | `CallbackRetries`, a `Retry` as well |
| any other exception of a callback in `poll(0)`, any at all in the flush of a retry | `CallbackEscapes` |
| the loop is exhausted: `KafkaException` | `FlushEnd` when `Again` is false |
| `flush()` of the caller, `close()` | `Close`, `FlushSome`, `CloseEnd`, which may be the exception of a callback |
| librdkafka and the brokers | `Deliver(p)`, `DeliveryFails(p)` |

A message is one attempt to produce an event. It counts against the buffer until its delivery
report has been served, and any thread that polls or flushes serves the reports of all. With
`acks=all` and `enable.idempotence` the brokers append a partition's messages in order and once;
that is the external part of the model. Three things a reader of the code may overlook:
`publish` raises after the flush of its last attempt without trying again, even if that flush made
room; an event whose callback-serving `poll` raised is accepted although its `publish` raises; and
a `BufferError` of a callback is taken for a full buffer, so that the accepted event is produced
again, as a new message that idempotence does not recognise. The properties therefore speak of
events that are not `disturbed`: in whose `publish` no callback raised. `MaxRaises` bounds how
often one does.

### 2.4 FeatureRegistry

| code (`feature_store/registry.py`) | model |
|---|---|
| entry of `create`, `update`, `delete`, and the look-up of `upsert` | `BeginCreate`, `BeginUpdate`, `BeginDelete`, `BeginUpsert` |
| `INSERT`, or `IntegrityError` turned into `ValueError` | `Insert` |
| the `SELECT` of `update` and `delete` | `Select` |
| `setattr` and `commit` | `Commit`: columns that differ from the loaded row are written |
| `session.refresh` and `_to_pydantic` | `Refresh`, which may reject what is committed |
| a failing database | `Fail` |

Rows of different names are independent, so one row is modelled. SQLAlchemy's unit of
work writes the columns whose value changed, and the database runs at READ
COMMITTED; both come from how the module uses them. `POST /registry` and the seeding of
`serving.py` are clients that create; the seeding ignores `ValueError`.
pydantic's `ValidationError` is a `ValueError`, so where `Refresh` rejects a row
`POST /registry` answers that the feature exists (`invalid` in the model). The row stays,
and what reads it raises from then on.

Two histories say what others did to a call: `contested`, the fields others have committed since it
last began, loaded the row or committed, and `raced`, those they committed between its `SELECT`
and its commit. Because only columns that differ from the loaded row are written, an update
that names a value the row already had writes nothing and keeps what another call committed in
between. `UncontestedFieldsStick` allows exactly that loss and no other.

### 2.5 FeatureFreshness

| code | model |
|---|---|
| `consumer.py` `_write_to_redis` up to its transaction: `_resolve_ttl`, the registry's answer (207, 234-240) | `Resolve(k, lag)` with `Freshness(f)` and `Ttl` |
| `SET` and `EXPIRE` in one transaction (217-221) | `Store(k)` |
| Redis or the registry raises, or the consumer dies | `Abandon(k)` |
| time passes; Redis drops keys at their TTL | `Tick` |
| `docker-compose.yml:264` `allkeys-lru` | `Evict(k)` |
| `registry.py`: a committed `create`, `update` or `delete` | `Register(f, s)`; `Unregistered` covers both never and deleted |
| `monitor.py` `_check_all_features`: list, early return (128-141) | `BeginCycle` |
| `_check_feature`: `now`, the start of its `SCAN` | `CheckFeature(f)`, `BeginScan` |
| the loop over the keys: `GET`, age against the SLA, append (182-200) | `Visit(k)`, `Revisit(k)` for a key that `SCAN` repeats, both with `Examine`; `Miss(k)` for one that is gone or not returned |
| `_count_feature_keys`, a second `SCAN` (206-218) | `Count`, `CountKey(k)`, `Miss(k)` |
| the sums, the next feature (141-159) | `NextFeature` |
| counts published under the lock (161-174) | `Publish` |
| an exception, caught in `_run` (122-126) | `Error` |
| `stop`, and the end of the loop | `Stop`, `End` |
| `serving.py`: `is_stale`, `stale_features`, `/health` | `IsStale`, `StaleFeatures`, `Health` |

`SCAN` returns every key that is there throughout (`steady`), may or may not return others, and may
return a key more than once. The list of stale entities then names it again and the sums count it
again; `again` counts how often. `lost` are the keys Redis has dropped since the cycle began, by
TTL or by eviction. The clock waits for the monitor: a cycle starts when its wait is over and
takes at most `CycleTime`. This is an assumption on the load, not something the code guarantees,
and `ReportedInTime` is stated in its terms. Three things the code does and the model keeps: a
missing key is stale for serving and invisible to the monitor; a cycle without definitions returns
before it publishes, so old counts stay; an unregistered feature is never stale.

`HasRegistry` is FALSE for the consumer that its own entry point builds: `FeatureConsumer()` at
`consumer.py:259` has no registry and takes the default for every feature, although
`docs/architecture.md:66` and `consumer.py:6` promise a TTL of twice the feature's freshness. The
theorems hold for both values. An entity id with a colon is reported up to the colon
(`monitor.py:198`); ids are opaque in the model.

### 2.6 WindowedAgg

| code (`stream/windowed_agg.py`) | model |
|---|---|
| `WindowEngine.ingest` (268-273) | `Ingest(t)` |
| `TumblingWindowEngine.ingest`, `flush` | `IngestTumbling`, `Start`; `Flush`, `Bucket` |
| `SlidingWindowEngine.ingest` (166-190): append, prune, cap | `IngestSliding`, `Prunes`, `Cutoff`, `Excess` |
| `query` (192-205) | `Query(end)` |
| `compute_all_windows` (207-225) | `Cursors`, `AllWindows` |

Statistics are functions of the events of a bucket, so a bucket is the set of its events.
Timestamps are whole ticks. Pruning stops at the first event that is not old, so after a
late event the deque is neither sorted nor free of old events, although the
docstring at line 148 calls it ordered; with a step below the window the windows that
line 208 calls non-overlapping do overlap; and `compute_all_windows` ends at the event that
arrived last, not at the newest one (`WindowsReachNewest`, which run `windows_late` refutes). The
other properties state what remains true.

### 2.7 BatchFeatures and BatchPipeline

| code | model |
|---|---|
| `compute_rolling_7d_spend`, `compute_anomaly_scores`, `compute_merchant_category_features`, `compute_rfm`, the joins of `run_pipeline` | `RollingTable`, `AnomalyTable`, `CategoryTables`, `RfmTable`, `WideTable` |
| `get_user_features`, `get_top_k_users`, `feature_drift_summary` | `UserFeatures`, `TopUsers`, `Summary` |
| `write.mode("overwrite").partitionBy(...)` (262-268) | `DeleteFile(f)` for every old file, `BeginWrite`, `WriteFile(f)`, `FinishRun`; `FailRun` in between |
| `_scan_parquet`: count (318), then statistics (345) | `CountRows`, `ReadStatistics`; `AbandonScan` if the process dies between them |
| any exception in it (354-357) | `ScanFails`, at any time |
| `commit`, `rollback`, the end of a `:memory:` database | the actions of `FeatureVersioner` |
| `diff` | `Diff` |

A file is the nonempty set of its rows. Spark writes a file per task and date, so a date may have
several, and a reader sees the rows of the files that are there (`Table`). A run is finished when all
rows of its output are in a file. A scan that finds a file cut short, deleted under it, or not
there at all records empty contents, as does one that fails over files that are complete: the code
makes no difference, so `ScanFails` has no guard on the files.

`Samples` holds what `generate_transactions` may return, and `IsSample` says what its SQL
(`feature_pipeline.py:66`) makes of it: finitely many rows, ids that are their number in a range,
whole days, and amounts in whole cents. `Readable` is what a query may find in the files: some of
the rows of one run. A scan reads them twice and may count one set and average another, so
`Contents` has the contents of every such pair (`ContentsAssumption`, which TLC evaluates).

An average is a sum and a count, a z-score is scaled by a positive number, dates are
day numbers. As in the code, the rolling window has eight dates, both ends included
(`feature_pipeline.py:125`; lines 112 and 115 speak of seven days), a tie of categories is broken
freely, and `get_user_features` aggregates all dates of a user, although its docstring speaks of the
most recent snapshot (`feature_query.py:93`). An average of anomaly scores over all
the transactions they were scored against is zero for everybody. `TableIsExact` therefore takes
recency, frequency, spending, category count and the rolling averages of a user's transactions for
the user's features, and leaves the anomaly out. A rollback restores a row of the table, not
files: after the next run a restored snapshot describes data that is gone, and
`SnapshotsDescribeFiles` says up to when it does not. The history variables `steady` and
`unchanged` say which snapshots were scanned since the files last changed.

## 3. What the runs show

| run | instance | shows |
|---|---|---|
| `consumer_faults` | 2 consumers, 1 partition, 2 keys, 2 messages, each kind of fault once, under fairness | no offset is committed unhandled (`CommittedIsHandled`); at most one handled message per partition is uncommitted (`OneUncommitted`); a redelivery has a crash, eviction or failed commit behind it (`RedeliveryNeedsDisruption`); a key goes back in time only at the hands of an evicted consumer (`OnlyZombiesGoBack`, `NewestWins`); the inductive invariant holds (`IInv`); the log is drained unless everyone was told to stop (`EventuallyDrained`); a signalled consumer ends (`StopTerminates`) |
| `consumer_rebalance` | 2 consumers, 2 partitions, 2 keys, 2 messages per partition, 2 revocations, 1 eviction | valid committed events were written (`CommittedIsWritten`); the group implements `AtLeastOnceDelivery` |
| `consumer_redis_error` | 1 consumer, 1 message, 1 failing call | **violation** of `CommittedIsWritten` |
| `versioner_interrupted` | 4 commits, any rollbacks, 3 interruptions, any number of ends of the process of a `:memory:` database | all properties of the versioner but the one below, and that it implements `SnapshotHistory` |
| `versioner_manifest` | 2 commits, 1 interruption | **violation** of `CurrentHasManifest` |
| `producer` | 2 threads with 2 events and 1, 2 partitions, a buffer of 2, 2 attempts, 1 raising callback, brokers that may do nothing | an event whose `publish` raised was not and will not be sent, unless a callback raised in that `publish`, and one whose `publish` returned was accepted (`RaiseMeansNotSent`); no event enters the buffer twice but by a callback, and then as a later attempt for the same partition (`RepeatsNeedCallbacks`); the producer implements `LossyChannel`; under fairness `publish` always comes back (`PublishReturns`) |
| `producer_callback` | the same | **violation** of `EachEventOnce` |
| `registry` | 2 clients, 3 calls each, 2 definitions, 4 updates, one with an invalid freshness | a committed field stays until another call names it, with the one exception of section 2.4 (`UncontestedFieldsStick`); an undisturbed upsert fails only on a soft-deleted row (`UpsertFailsOnDeleted`); a deleted feature comes back only when asked for (`RevivalNeedsIntent`) |
| `freshness` | 1 entity, 2 features, freshness 1, default 2, cycles of 1 and no wait between them, time to 4, 2 writes of fresh or late events, 1 upset (an error, an eviction, a repeated key, a changed definition or a stop) | a stale value is reported within an interval and two cycles (`ReportedInTime`); no false alarm (`NoFalseAlarm`); more stale keys than keys only for keys that Redis dropped or `SCAN` repeated (`CountsExplained`); nothing fresh expires (`FreshValuesStay`) |
| `windows` | 6 events in any order at ticks 0 to 7, sizes 2 and 4, window 3, step 2, a cap of 4 | an event is in exactly its bucket and sizes agree (`TumblingExact`); pruning costs recent windows nothing (`RecentWindowsExact`); for sorted streams all windows are exact and gapless (`WindowsExact`); the deque is bounded (`MemoryBounded`) |
| `windows_late` | the same | **violation** of `WindowsReachNewest` |
| `batch` | 2 runs over 2 samples of 2 and 3 transactions, 2 snapshots, 1 interruption, a `:memory:` database | queries see one run and, when it has finished, exactly its transactions and the users' own features (`TableIsExact`); a snapshot is empty or describes the files until they change (`SnapshotsDescribeFiles`) |

**The four violations.**

1. `docs/architecture.md:67`, `README.md:89` and `consumer.py:44` say that an offset is
   committed only after a successful Redis write. `_process_message` catches every exception, a
   failed Redis or registry call included, returns normally, and `_run` commits: the event is lost.
   The dead-letter handling that the module docstring mentions does not exist; the topic is only
   created.
2. The docstring of `commit` (`feature_versioner.py:113`) writes the manifest before it marks the
   snapshot current. The code inserts the row as current first, so an interruption leaves a current
   snapshot without a manifest.
3. `producer.py:33` and `README.md:88` say that there are no duplicates on retry. `poll(0)` is inside the
   `try` of `produce()` (`producer.py:101-119`), so a `BufferError` of a caller's `on_delivery`
   makes `publish` produce an accepted event again.
4. `windowed_agg.py:148` calls the deque ordered by timestamp, and line 208 speaks of all windows over
   the buffer. Events are appended as they arrive, and `compute_all_windows` takes the last one for
   the newest (line 213): after a late event it leaves out the newest windows.

The models reproduce other disagreements that need no search, since a single call or scan shows them.
No run restates these: the manifests' `is_current` flag (2.2), a
committed row that cannot be read (2.4), the TTL of a consumer without a registry (2.5), eight dates
in a rolling week, features over all dates, an empty snapshot of files that are there, and row counts and
statistics of different states (2.7).

**Bounds.** `MaxLog` bounds the messages of a partition, `Budget` the number of
each kind of fault, `MaxSnapshots` and `MaxInterruptions` the versioner.
Two messages of one partition are enough for the consumer: every property relates the
message in hand to the first uncommitted offset and to one neighbour. Two
consumers are enough because a partition has one owner and the hazards are
between it and one former owner; one crash, one eviction, one failed call, one failed commit and
one signal can all happen in one behaviour. Two partitions show that a commit of all positions commits nothing it
should not. The versioner's invariants relate a row, its parent and the running
call; four snapshots allow a fork of the lineage, a lost current snapshot and a
recovery in one behaviour. `MaxSnapshots` exceeds `MaxInterruptions` so that some call can always
start: a table with no rows and no ids left would otherwise look like a deadlock. `versioner_interrupted`
and `batch` have a `:memory:` database, in which everything a file can do happens as well.

In `producer`, three events through a buffer of two fill it, let retries run out and let one
thread serve the other's report; `MaxRaises` is one because the refuted and the proved properties are
about the `publish` in which a callback raises. In `registry`, three calls of each of two clients
contain every pair of overlapping calls with a call before and after. In `freshness`, an event
that is 2 old when it is written at time 0 is stale at once and must be reported by time
`0 + 2 * 1`, which the run passes, also when its definition changes at time 1; one written fresh becomes
stale at 2, and expires at 2 or at 4 according to what its writer looked up. `MaxUpsets` is shared
by errors, evictions, repeated keys, changed definitions and stops, so that the run has one of
these; the theorems hold for any number of each. One key per feature
suffices because keys of one feature share nothing but
the sum of counts; two features let a key become stale behind the cycle's back. In
`windows`, ticks 0 to 7 pass `Window + Step` and the cap is below `MaxEvents`, so pruning
by age and by cap both happen, in either order. In `batch`, one sample has two transactions of a user on
a date with a tie of categories, the other has two users, dates seven days apart
and dates the first lacks; files may hold any part of a date, and the two snapshots can be scanned at
any two moments of two overwrites.

Deadlock is checked in the consumer, versioner and producer runs; in the consumer an idle turn
of the loop is a step. The other runs stop when their bounded inputs are used up (events, calls,
time, runs) and say `CHECK_DEADLOCK FALSE`. Symmetry is used only where no liveness is checked.

**Fairness.** In `consumer_faults` (`FairSpec` of `FeatureConsumer`): weak fairness of each process's own
steps: the loop runs unless the process dies. Of `Assign` and `SessionTimeout`: the
coordinator gives waiting partitions to members, and a dead member's session ends.
Of `Restart`: Docker's `restart: on-failure`. Nothing is assumed about producers,
faults, signals, `Redeploy` or failing calls. Fairness of `Assign` is per partition
(some consumer gets it) and of `Poll` per consumer (some partition is served); with
a finite log no partition can be starved for ever. In `producer` (`FairSpec` of
`FeatureProducer`): weak fairness of the steps of a `publish` that has begun, because `produce` and
`poll(0)` do not block, the flush has a timeout and the sleep is short. Nothing is assumed
about brokers, callers or `close`. `ReportedInTime` needs no fairness: the clock
carries it.

## 4. What is proved

For every number of consumers, partitions, keys, messages and faults, from the
assumptions on the constants in `FeatureConsumer` (the partitioner is a function,
the model values are distinct):

| theorem | property |
|---|---|
| `Invariance` | `IInv` |
| `TypeCorrectness` | `TypeOK` |
| `CommitFollowsHandling` | `CommittedIsHandled` and `OneUncommitted` |
| `NewestWinsWithoutEviction` | `NewestWins` |
| `CommittedIsWrittenWithoutErrors` | `CommittedIsWritten`, as long as no registry or Redis call failed |
| `RedeliveryOnlyAfterDisruption` | `RedeliveryNeedsDisruption` |
| `GoingBackNeedsAZombie` | `OnlyZombiesGoBack` |
| `Refinement` | `ImplementsDelivery` |

*The argument.* `CommittedIsHandled` is not inductive: a commit moves
offsets to *positions*, so positions must be tied to what was handled. The
invariant adds that the position of an owned partition equals its committed
offset, or is one past it while the owner holds that very message
(`OwnerPosition`); that a process holds a message exactly between poll and
commit, and has handled it when it commits (`HoldsMessage`); and that nothing
handled or held is past the first uncommitted offset (`WithinLog`), which is what
makes the messages of an evicted consumer harmless to the offsets. `NoZombie` and `NoRepeat`
carry the statements that hold only before the first eviction or disruption.

For the versioner, for any `MaxSnapshots`, `MaxInterruptions` and `Contents`:

| theorem | property |
|---|---|
| `Invariance`, `TypeCorrectness` | `IInv`, `TypeOK` |
| `OneCurrentAtMost` | `AtMostOneCurrent` |
| `ReturnedCallsTakeEffect` | `ReturnedIsCurrent` |
| `LineageIsAForest` | `LineageIsOlder` |
| `InterruptionsStartLineages` | `RootsComeFromInterruptions` |
| `ManifestsAgree` | `ManifestsMatchRows` |
| `UninterruptedCommitsHaveManifests` | `CurrentHasManifest`, as long as no call was interrupted |
| `Refinement` | `ImplementsHistory` |

The invariant says what the locals of a
running call know about the table in each statement (`Running`), and that ids are fresh
among rows and manifests alike (`FreshIds`), because manifests outlive a `:memory:` table. The refinement mapping makes a commit take effect at its `INSERT`: between the
`UPDATE` and the `INSERT` the caller still sees the parent as current. A rollback takes effect
when it clears the flags. The two counting properties rest on `Paid`: the roots
beyond the first, with a table that has lost its current row, and the rows
without a manifest are at most the interruptions so far, with one more allowed to
the call that is running.

For the other modules, for every value of their constants:

| module | theorem | property |
|---|---|---|
| `FeatureProducer` | `TypeCorrectness` | `TypeOK` |
| | `RaisedEventsAreNotSent` | `RaiseMeansNotSent` |
| | `RepeatsAreAttempts` | `RepeatsNeedCallbacks` |
| | `Refinement` | `ImplementsChannel` |
| `FeatureRegistry` | `TypeCorrectness` | `TypeOK` |
| | `NoLostUpdate` | `UncontestedFieldsStick` |
| | `UpsertFailure` | `UpsertFailsOnDeleted` |
| | `NoAccidentalRevival` | `RevivalNeedsIntent` |
| `FeatureFreshness` | `TypeCorrectness` | `TypeOK` |
| | `StaleValuesAreReported` | `ReportedInTime` |
| | `AlarmsAreJustified` | `NoFalseAlarm` |
| | `CountsDifferByLosses` | `CountsExplained` |
| | `NothingFreshExpires` | `FreshValuesStay` |
| `WindowedAgg` | `TypeCorrectness` | `TypeOK` |
| | `TumblingWindows` | `TumblingExact` |
| | `RecentWindows` | `RecentWindowsExact` |
| | `AllWindowsOfASortedStream` | `WindowsExact` |
| | `BoundedMemory` | `MemoryBounded` |
| `BatchPipeline` | `BatchTypeCorrectness` | `BatchTypeOK` |
| | `TablesAreExact` | `TableIsExact` |
| | `SnapshotsAreExact` | `SnapshotsDescribeFiles` |
| | `ImplementsVersioner` | the specification `Spec` of `FeatureVersioner` |
| | `CompositionKeepsSnapshots` | `ImplementsHistory` and the invariants of the versioner, in the composition |

These theorems say more than a run can ask, or say it of operators:

| module | theorem | says |
|---|---|---|
| `FeatureProducer` | `EventsAreOnceAndInOrder` | over all partitions of the topic, an event is there twice only as different attempts of a `publish` in which a callback raised, and what a thread has in a partition is in the order of its calls and attempts |
| `BatchFeatures` | `OneRowPerTransaction`, `RowsAndTransactions` | the joins of `run_pipeline` neither lose nor multiply a transaction |
| | `UserFeaturesAreExact` | aggregating a user's rows gives the user's own features back, and the anomalies of a user cancel: the average `get_user_features` returns is zero |
| | `TopUsersSpendMost`, `TopUserSpendsMost` | nobody outside an answer of `get_top_k_users` has spent more than anybody in it, for any `k` |
| | `WindowsAreNotEmpty` | the rolling window of a transaction contains it, so no average divides by zero |
| | `MeansAreOverTransactions` | the mean of `feature_drift_summary` counts a user's spending once per transaction |

Two of the documented promises that a run refutes are proved under the condition they lack:

| promise | holds | theorem |
|---|---|---|
| `CommittedIsWritten` | as long as no registry or Redis call failed | `CommittedIsWrittenWithoutErrors` |
| `CurrentHasManifest` | as long as no call was interrupted | `UninterruptedCommitsHaveManifests` |

Of the other two, `RepeatsAreAttempts` says when a repeat may happen, and `AllWindowsOfASortedStream`
that without late events no window is left out.

*Producer.* The invariant says what a thread knows of the event in its hand by where the thread is
(`InHand`): of its messages in the buffer, all are of earlier attempts, which only a callback can have
caused, but for the one it polls after. Events a thread has not come to are nowhere
(`Numbered`), a message is in the partition of its event (`Placed`), and the
queue of a partition is the tail of what was accepted for it (`QueueIsSuffix`). The last makes
the refinement mapping work: what is settled is a prefix, of length
`Len(accepted) - Len(queue)`. `EventsAreOnceAndInOrder` adds that a topic is made of settled
messages only (`TopicIsSent`), so that what is said of repeats and order in `accepted` holds there.

*Registry.* What a running session has loaded may be old, and the proof shows it is old
only in fields others wrote: a field that is not `contested` since the `SELECT` still has its loaded
value (`LoadedStands`). A write of changed columns is then as good as a write of the named ones,
unless the loaded value is the named one and others committed the field in between (`raced`).

*Freshness.* `ReportedInTime` is proved from a statement about a cycle in progress. For a
key that has been stale in the API's eyes since before the cycle began, and undisturbed, the
cycle either has found it, or has not come to its feature, or has it in `unvisited`
and `steady`, so that the scan cannot miss it (`Watched`, `OnTrack`). `Clock` bounds when a
cycle began and ends, and arithmetic gives one interval and two cycles. `Counted`
relates the stale keys to the total by cardinalities: a stale key that Redis has not dropped is steady in
the second scan until it is counted, so the stale keys whose feature has been counted
(`Covered`) are at most `total`. It needs finitely many entities and features
(`FiniteAssumption`). `Held` is the invariant of a write between look-up and transaction: the TTL is
twice the freshness that was looked up, and runs from a moment after the event.

*Windows.* The deque is the ingested events without those that were old when they were at
its front; an event within `Window + Step` of the newest cannot have been pruned. For sorted
streams the deque is sorted too, and then its two ends bound everything in it.

*Batch.* `BatchFeatures_proofs` reasons about sums. A sum is a fold over a finite set, and the
library's induction theorem for sets cannot be instantiated here; its place is
taken by `SetInduction`, which is proved from the well-foundedness of strict inclusion on finite sets.
From it follow how a sum takes in an element (`SumOfInsert`), scales (`SumOfScaled`) and
moves along a bijection (`SumReindexed`). Every row of the wide table is a function of its transaction
(`RowOf`), a bijection because ids are unique: this is `OneRowPerTransaction`, and it
turns sums, maxima and cardinalities over rows into the same over transactions. The anomalies of a user are
count times amount minus total, so they cancel (`AnomaliesCancel`).

`TableIsExact` is not inductive: it says nothing of a run that fails or overwrites. `FilesOfRun` adds that
the files are always part of one table of a sample (`Readable`), that a run that writes has written
rows of its own output only, and that a finished one has written all of them. `SnapshotsAreExact`
needs that ids noted in `unchanged` are not those of rows to come (`Noted`, `RowsAreOld`, from fresh
ids), and carries the statement to the row that is still being committed (`Described`): a scan during which
no file changed (`steady`) has counted the rows that it averages. `Counts` says that what was counted is the
size of something readable and not zero; with `ContentsAssumption` the content of a torn scan is
then one of `Contents`, so `ReadStatistics` is a `BeginCommit`, and the composition implements
`FeatureVersioner` (`ImplementsVersioner`). What is
proved there holds beside the pipeline as well (`CompositionKeepsSnapshots`).
The assumptions are `SamplesAssumption`, `RunsAssumption` and `ContentsAssumption`.

*Model-checked only*: the liveness properties (`EventuallyDrained`, `StopTerminates`,
`PublishReturns`), since liveness under fairness and `ENABLED` are beyond the installed
provers, and the four violations. Every other property of a run is the
subject of a theorem. No module uses a recursive operator.

## 5. What is not modelled

- JSON, metrics, log lines, benchmarks; the counters
  `messages_processed`/`messages_failed` are the sets `written` and `failed`, and
  `total_sla_violations` of the monitor, which is only added to, is left out.
- `start`/`stop` of the consumer as a thread of another process: the deployment
  runs `run_forever`, and nothing in the repository calls them.
- `ensure_topic_exists`, the start-up of serving, path validation and response models, the
  batch read (a loop over the single read): set-up or presentation.
- Keys passed to `publish` by a caller: none in the repository passes one; with
  different keys, events of one entity would lose their order.
- Floating point: averages and z-scores are exact in `BatchFeatures`, and
  timestamps are whole in `WindowedAgg`.
- The `_temporary` files of Spark's commit protocol, and half-written files, as such: a reader that meets one fails
  (`ScanFails`).
- How `generate_transactions` draws its rows: they are inputs (`Samples`) with the shape the SQL
  gives them (`IsSample`). `run_pipeline` does not pass
  it `n_rows` (`feature_pipeline.py:223`), so every run has the default size.
- Dashboards, frontends, load and set-up scripts, container configuration apart from the
  restart policy and Redis's eviction: presentation, test traffic and configuration without state of their own.

## 6. Plan

Done: the consumer, the versioner, the producer, the registry, the freshness path, the
windows and the batch path. What is left, in order:

1. The thread API of the consumer (`start`, `stop`, `start` again), should a deployment use it.
2. The violation total of the monitor against `Error` in mid-cycle.
3. Larger instances of `freshness` (two entities of one feature) and `batch` (three runs).
