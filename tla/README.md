# A verification project for strego

strego is a Go library for task queues on Redis Streams.  A producer publishes
tasks to a stream; worker processes read it through a consumer group, run
handlers, and acknowledge, retry or bury each task.  This directory holds TLA+
modules of that protocol, the TLC configurations that check them on small
instances and TLAPS proofs that hold for all of them.

Line numbers refer to the repository; `redis.go` is `broker/redis/redis.go`.

## 1. Inventory

| Component | State | Operations | What makes it hard | What makes it correct |
|---|---|---|---|---|
| Stream consumption (`redis.go` 117-391) | the stream, the group's last-delivered ID, a pending entries list (PEL) per consumer; in the process, the batches two goroutines hold | Publish, Subscribe's loop, recoverOwnPending, claimStale, processMessage | claims race live handlers; the recovery and the claimer of one process share a consumer name; replies are lost; crashes | delivered once per claim, nothing pending leaves the stream, orphans are found again |
| Pipelines Ack, Retry, MoveToDLQ (`redis.go` 393-401, 560-624) | PELs, stream, retry set, dead letter stream, counters | XACK; XDEL; then HINCRBY, ZADD or XADD, without MULTI | other clients run between the commands; a cancelled context or a lost connection stops them | no task in between two keys is lost, no message acknowledged and left in the stream |
| Scheduled and retry sets (`redis.go` 404-557, `server.go` 470-485, 577-601) | two sorted sets per queue | Schedule, two Lua scripts, the scheduler's ticker | every worker runs a scheduler; the script re-encodes the task | a member moves to the stream once and stays readable |
| Task processing (`server.go` 285-455) | `strego:processed:<id>` keys | idempotency check, handler, handleFailure | the key is set before the handler runs, expires, and fails open | a first attempt runs once, MaxRetry bounds the attempts, no task is lost |
| Server lifecycle (`server.go` 144-282, `redis.go` 148-254) | running flag, shutdown channel, context, wait group, signal channels; Subscribe's count of transient errors | Start, Shutdown, signals | Start does not wait for Subscribe and its handlers; an error path leaves `running` set; a timeout leaves goroutines behind; sleeps and handlers that ignore the context | what is left of one Start ends beside the next, whoever is asked to stop stops, a stopped server can start again, the loop outlasts a short outage |
| Client (`client.go`) | unique keys | Enqueue, EnqueueUnique, Schedule, Cancel | three writes to two stores, any of which may fail | a failed call can be repeated, a duplicate is refused exactly while its key lives |
| Dead letter operations (`redis.go` 627-700, 863-865, `ui/server.go` 888-966) | dead letter stream | GetDLQ, RetryFromDLQ, PurgeDLQ, retry-all | read, then a pipeline of three commands; workers and other callers run between | a task taken out of the queue runs again, once |
| Dead consumer cleanup (`server.go` 488-575, `redis.go` 847-850, `ui/server.go` 968-1059) | the group's consumers | XINFO CONSUMERS, DELCONSUMER | the check and the removal are two commands | no consumer with pending entries is removed |
| Task store (`store/postgres/postgres.go`) | one row per task | CreateTask, UpdateTask, UpdateTaskState, deletes | producer and workers write one row in any order | the row ends in the state the task ended in |
| Queue inspection (`redis.go` 717-860) | none of its own | GetQueueInfo, PurgeQueue, group and consumer lists | keys read one after another while tasks move between them; DEL of a stream takes its group along | a page misses no task that stayed in place; a purge takes what it should and no more |
| Tasks and options (`task.go`, `types/`) | a task's options and metadata | NewTask, the options | conversions to 32 bits, times in whole seconds, defaults decided in three places | a task runs when it asks to, as often as it asks to |
| Broker interface, handler mux (`broker/broker.go`, `handler.go`) | plain data | constructors, a map | nothing over time | |
| Web UI (`ui/server.go`) | none | pages; handlers that call the operations above | pages are no snapshots | see the operations |
| Migrations, logging, examples, docs | | | | |

How they interact: the client and the workers share nothing but Redis and,
optionally, PostgreSQL.  `Server.Start` hands `processTask` to
`Broker.Subscribe` as a callback; `processMessage` calls it and, when it returns
nil, calls `Ack`; when it fails, `handleFailure` has already called `Retry` or
`MoveToDLQ`.  Every worker also runs a scheduler, which moves due members of the
two sorted sets back to the stream, and a background claimer, which runs the
same callback from a second goroutine.

## 2. Modules

| Module | What it is |
|---|---|
| `Delivery` | the protocol of one queue: producer, scheduler, consumers, claims, pipelines, dead letters, shutdowns and crashes |
| `MessageLifecycle` | what the stream and its group promise about one message: waiting, pending, acked, deleted, in that order |
| `DeadLetter` | extends `Delivery` with the operator's requests: retry one dead task, retry all, purge |
| `StoreSync` | extends `DeadLetter` with PostgreSQL rows, the writes that producer, workers and requests make to them, and unique keys |
| `ConsumerCleanup` | extends `Delivery` with the removal of dead consumers by workers and by the web server |
| `QueueAdmin` | extends `Delivery` with pages that count the tasks of a queue and with PurgeQueue |
| `ServerLifecycle` | one `Server` in one process: Start, Shutdown, signals, goroutines, and Subscribe against a Redis that fails |
| `TaskTiming` | a clock, the options of a task, sorted-set scores, delays between retries, the TTL of a unique key |
| `MCDelivery`, `MCDeadLetter`, `MCStoreSync`, `MCConsumerCleanup`, `MCQueueAdmin`, `MCTaskTiming` | instances for TLC |
| `DeliveryProofs` | of `Delivery`: types, the bounds on attempts, who may run a task, what is counted, and the implementation of `MessageLifecycle` |
| `DeliveryKeeps` | of `Delivery`: what is never lost, without faults and with them |
| `DeadLetterProofs`, `StoreSyncProofs`, `ConsumerCleanupProofs`, `QueueAdminProofs` | theorems of the modules that extend `Delivery`, on top of those two |
| `ServerLifecycleProofs`, `TaskTimingProofs` | theorems of the two modules that stand alone |

### Delivery: state and code

| Variable | Code |
|---|---|
| `log`, `stream` | the stream `strego:stream:<queue>`: everything XADDed, and the IDs not XDELed; an ID is a position in `log` |
| `lastDelivered`, `pel` | the consumer group's last-delivered-id and pending entries lists |
| `scheduled`, `retry`, `dlq` | the sorted sets and the dead letter stream |
| `processed` | tasks with a `strego:processed:<id>` key |
| `completed` | the field `completed` of the stats hash |
| `status[w]` | the process behind consumer name `w`: off, in recoverOwnPending, in Subscribe's loop, with a cancelled context, or gone for good when names are not reused |
| `phase`, `batch`, `cur`, `verdict` | for each of the two goroutines of a worker: where it is in processMessage, the rest of its batch, its message, and the pipeline that the message ends with |
| `budget` | how many publishes, crashes, shutdowns, faults and expiries a behaviour still has |
| `starts`, `successes`, `lapses`, `counted` | history for the properties: first attempts started, handlers that returned nil, times the idempotency check could not bind, and the messages for which `completed` was incremented |

| Action | Code |
|---|---|
| `Enqueue`, `EnqueueScheduled`, `EnqueueRetry` | `client.go` 56-122; the Lua scripts, `redis.go` 433-557 |
| `Consume`, `RecoverOwnPending`, `ClaimStale` | `redis.go` 183-253, 290-323, 326-358; `Deliver` is the reply that arrives or is lost |
| `DropInvalid`, `BeginRetry`, `BeginFirst`, `SkipProcessed`, `BeginFailOpen` | processMessage's decoding and processTask's idempotency check |
| `Succeed`, `Fail` | the handler's outcome; handleFailure's choice between retry and dead letter |
| `XAck`, `XDel`, `CountCompleted`, `AddRetry`, `AddDead`, `PipelineError` | Ack, Retry and MoveToDLQ, one command each |
| `Start`, `Shutdown`, `MainStops`, `SubscribeFails`, `Crash`, `Exit` | the life of a worker process |
| `ExpireProcessed` | the TTL of the idempotency key |

Decisions a reader should know:

* A Redis command or Lua script is one step.  A pipeline has no MULTI, so its
  commands are steps of their own.  Once a pipeline was sent Redis runs it to its
  end even if the process dies; `SplitPipelines` also allows an error or a death
  between two commands.  A lost reply *after* the whole pipeline ran has the same
  effect on every variable as success.
* Time is not modelled.  Which scheduled or retry member is due is
  nondeterministic, and so is expiry.  A tick that moves several members is
  several steps: the script handles them one by one and nothing depends on their
  being moved together.
* `Stale` is the one assumption about idle time: unless `SlowHandlers`, an entry
  that a live goroutine works on, or has in its batch, is not idle for
  ClaimStaleAfter.  With `SlowHandlers` anything pending may be claimed at any time.
* The claimer's first tick comes a ClaimCheckInterval after Subscribe begins.  By
  then the recovery is over or is busy with a batch: `ClaimerTicks`.
* A blocking XREADGROUP that is in flight when the context is cancelled may still
  deliver: `Consume` is possible while `closing`, and its batch is then processed
  under the cancelled context, where the check fails open and every pipeline fails.
* `Copy`: the stored copy of a task carries its StreamMsgID, WorkerID and
  StartedAt, so copies that two goroutines make of one message are different
  members of the retry set.
* `Undecodable`: cjson writes numbers with 14 significant digits.  A duration of
  10^14 ns or more (28 hours) comes out of the Lua scripts in exponent form, which
  `json.Unmarshal` refuses for an int64.  Entries carry an `ok` field for it.
* `Unhandled` tasks (no handler registered) fail every attempt.  Despite the
  comment in `server.go` 325 they go through their retries before the dead letter
  queue; the model does what the code does.
* `WithConcurrency` is stored and logged and nothing reads it: a worker has the two
  goroutines of the model.
* The counters `enqueued` and `scheduled` are not variables: nothing reads them.
* One queue: queues share no keys except the processed keys of different tasks.

### DeadLetter: state and code

| Definition | Code |
|---|---|
| `todo[q]`, `calls` | an HTTP request in `ui/server.go` 888-954: the dead tasks it has still to retry, and its call of RetryFromDLQ, by the command that comes next |
| `RetryTask`, `RetryAllDead` | handleRetryTask; handleRetryAllDead with its GetDLQ |
| `Find`, `XDelDead`, `XAddRevived`, `ClearProcessed` | RetryFromDLQ (`redis.go` 657-700): XRANGE, then XDEL, XADD and DEL, a step each |
| `CallFails`, `Abandon` | a pipeline that fails; a client that disconnects, or a web server that ends |
| `PurgeDLQ` | handlePurgeDead and PurgeDLQ |
| `DeliveryStep` | any step of `Delivery`; it notes in `raced` the tasks a worker skips while a call is between its XADD and its DEL |

DEL of a processed key adds to `lapses`: the idempotency check of that task cannot bind
any more, and this time on purpose.

### StoreSync: state and code

| Definition | Code |
|---|---|
| `row[t]` | the row of `strego_tasks`: its state, and whether completed_at is set |
| `producer[t]`, `unique` | how far the producer's Enqueue is; the key `strego:unique:<key>` of the tasks in `Keyed` |
| `job[th]` | the UpdateTask that a goroutine is in; it does nothing else meanwhile |
| `BeginEnqueue`, `Publish`, `CreateTask`, `EnqueueFails` | Client.Enqueue (`client.go` 56-122): SetUnique, Publish or Schedule, CreateTask, and its early returns |
| `UpdateRow`, `InsertRow`, `WriteFails` | Store.UpdateTask (`postgres.go` 150-210) and its fallback to CreateTask |
| `Work`, `StoreCopy` | the steps of `Delivery` that are followed by a write: "active" and "completed" in processTask, "retry" and "dead" in handleFailure |
| `Cancel`, `DeleteTask`, `DeleteOldTasks` | Client.Cancel (UpdateTaskState), the web server's delete, and the cleanup; they count as requests and note the task in `edited` |
| `Operator`, `Revive` | the requests of `DeadLetter`; `single` has those that are for one task, `revival[t]` says how a task was revived |
| `marks`, `MarkPending`, `MarkFails` | the UpdateTaskState by which handleRetryTask says "pending" once RetryFromDLQ has succeeded (`ui/server.go` 904-909); handleRetryAllDead writes nothing |

`SlowStore` says whether a write may still be under way when the retry that preceded it
is due; with it the late write overwrites what the next attempt wrote, so `RowIsCurrent`
is stated without it.  Other ways in which a row and its task drift apart, by design of
the code and visible in the model: handleRetryTask's "pending" may come after the worker's
"completed" and then stays, with completed_at set, and after handleRetryAllDead a task waits
under a row that says "dead", which DeleteOldTasks may take (`RowIsCurrent` names both); a task without a unique key that its caller enqueues twice has two messages
and one row, which after a revival may tell of either, so `RowIsCurrent` speaks of tasks in
`Keyed`; a request may overtake the write of "dead" of the task it revives, or repeat
another, and `RowIsCurrent` says nothing of such a task; Cancel marks the
row and the task runs all the same; a row that was inserted by a worker, or deleted and
inserted again, has no completed_at until the next UPDATE, and DeleteOldTasks does not find
it; a second task with a unique key whose TTL ran out is published but never gets a row,
because the unique index on unique_key has no TTL.

### ConsumerCleanup: state and code

| Definition | Code |
|---|---|
| `consumers` | the consumers the group has; XREADGROUP and XAUTOCLAIM create one |
| `found[k]` | names that a cleaner (a worker, or the web server) has read from XINFO CONSUMERS as idle and without pending entries, and has not removed yet |
| `Inspect`, `RemoveConsumer`, `RemoveFails` | cleanupDeadConsumers (`server.go` 521-575) and handleCleanupConsumers (`ui/server.go` 968-1028): the read, and one XGROUP DELCONSUMER for each name |
| `StartStep`, `StopStep` | a worker that a cleaner has found may start again; a worker's cleanup ends with its context |
| `dropped`, `restarted` | history: entries removed with their consumer; workers started after a cleaner had found them |

Idle means what Redis 7.2 reports: no XREADGROUP or XAUTOCLAIM for the threshold, which a
process that lives sends all the time unless both goroutines are in handlers.  "Skip
ourselves" compares the consumer's name (`worker-<host>-<pid>`) with a workerID
(`<host>-<pid>`) and never skips; the model has no such test either.

### QueueAdmin: state and code

| Definition | Code |
|---|---|
| `group` | whether the stream has its consumer group; without one XREADGROUP fails with NOGROUP |
| `page`, `PageReads`, `QueueInfo` | a page that is being read, and the reads it is made of in their order: GetQueueInfo (`redis.go` 717-769), twice ZCARD more in handleQueues, XINFO GROUPS first in getQueueInfoForGroup (`ui/server.go` 579-613) |
| `Advance`, `ReadFails` | one read: an error of XINFO GROUPS or XLEN takes the queue off the page, any other error counts as zero |
| `Waiting` | what GetQueueInfo calls Pending: XLEN minus XPENDING, not below zero |
| `PurgeStream`, `PurgeStats` | PurgeQueue: DEL of the stream, with group and pending entries, and DEL of the statistics |
| `Restart`, `NoGroup` | XGROUP CREATE from "0" at the start of Subscribe; NOGROUP, which is not transient and ends Subscribe and Start |
| `page.there`, `.moved`, `.between`, `purged` | history for the properties |

What a purge does beside what its comment says ("removes all tasks from a queue"): it ends
every worker of the queue, because the group goes with the stream and nobody but a Start
creates it again; scheduled tasks, retries and dead letters stay; and a task whose
message a goroutine holds lives or dies with that goroutine.  XINFO GROUPS fails on a key
that does not exist, so that a purged queue is missing from the dashboard until the
next task or the next worker.

### ServerLifecycle: state and code

| Variable | Code |
|---|---|
| `running`, `shutdown`, `closed` | `s.running`; `s.shutdown` as the number of the Start that made it; the channels that are closed |
| `pc[c]` | where the c-th call of Start is: before the lock, before its select, in it, waiting for done or the timeout, or how it returned |
| `cancelled`, `sigCh`, `errCh`, `waiter` | its context, its signal channel, the result of its Subscribe, and the goroutine in `s.wg.Wait()` |
| `routines[c]` | the goroutines it launched that still run: scheduler and cleanup, which the WaitGroup counts (`Counted`), Subscribe and its claimer, which it does not |
| `sub`, `retryCount` | Subscribe: XGROUP CREATE, a read of recoverOwnPending or its handlers, the blocking read of the loop, away in a sleep or in handlers; `retryCount` of `redis.go` 181 |
| `process` | alive, killed by a signal nobody asked for, or gone in a panic |
| `asked`, `slept`, `late` | history for the properties: calls of Shutdown, seconds slept since Redis last answered, batches begun under a cancelled context |

`Lock` is Start's first critical section; calls are numbered in the order in which they
enter it.  A command of Redis that is in flight when the context is cancelled ends as it
would have ended, a later one fails at once (`Read`); a sleep and a running handler do not
look at the context.  The shutdown timeout may strike at any time after the cancel.  A
transient error is one that `isTransientError` knows; only the loop of Subscribe puts up with
it, while XGROUP CREATE and the recovery end with the first error of any kind.

What the module shows beside its properties: a Shutdown that comes before Start has
taken the lock does nothing, and Start then runs; signal.Notify is never undone, so that
after Start has returned a SIGTERM no longer ends the process; a Start that failed leaves
`running` set, and every later Start is refused.

### TaskTiming: state and code

| Definition | Code |
|---|---|
| `opts[t]`, `Defaults`, `WithMaxRetry`, `WithProcessIn`, `WithUniqueKey` | TaskOptions and the options of `task.go`; `Wrap` is Go's conversion to a narrower integer |
| `Submit` | Client.Enqueue with the options as they are: the unique key and its TTL, then the sorted set or the stream; `EnqueueUnique` and `Schedule` change an option first |
| `Score`, `Until`, `MoveDue` | Unix seconds in ZADD and in ZRANGEBYSCORE |
| `Backoff`, `PowerOfTwo` | calculateBackoff: `math.Pow(2, attempt-1)` as a Duration, times the base, cut at the maximum |
| `ServerRetries`, `RowRetries` | what handleFailure and CreateTask make of a MaxRetry that is not positive |
| `FailAttempt`, `Complete` | handleFailure and the handler's success, without the failures of Redis that `Delivery` has |
| `keySetAt`, `promised`, `waits` | history for the properties: when a task took the key, the TTL its caller passed, and the delays of its retries |

With a base of one second the product overflows 64 bits from the 35th retry on: some of the
products are negative, and from the 56th on all are zero, so that a task with so many retries
is retried at every tick of the scheduler.
From the 64th on `math.Pow` exceeds an int64 and Go leaves the result of the conversion to the
processor: `PowerOfTwo` has both values.  `Task.MaxRetry()` returns a zero or negative
number where server and store use 3.  One clock is
assumed for all machines; Redis takes no time from a clock but for TTLs.

## 3. What is checked

Bounds are in the MC modules (`Events(publish, crash, shutdown, fault, expiry)`) and in
the `.cfg` files.  In `Delivery` and the modules that extend it MaxRetry is 2, which gives a
first attempt, a retry and the dead letter queue; BatchSize is 2, or 1 where the
recovery must come back for a second batch.  Two workers are enough for claims, races
and cleanups; `store_sync` and `queue_admin` ask what happens beside a worker and have
one.  One task is enough for most
questions because tasks only meet in batches; runs with two tasks exercise those.
Workers are symmetric in the runs of `Delivery`, requests in `dead_letter` and tasks in
those of `TaskTiming`, none of which has a liveness property.

| Run | Setting | Properties |
|---|---|---|
| `delivery_faults` | one task enqueued up to twice; one crash, shutdown, fault and expiry in any order | `TypeOK`, `FirstAttemptOnce`, `RetriedTasksSurvive`, `NoConcurrentRuns`, `NoStrandedMessage`, `CompletedCountsOnce`, `ImplementsLifecycle` |
| `delivery_slow` | a scheduled task, handlers slower than ClaimStaleAfter, a crash and a fault | `NoLossWithoutFaults`, `RetriedTasksSurvive` |
| `dead_letter` | two concurrent requests, three in all, and a fault, also between the commands of a pipeline | `DLTypeOK`, `LostOnlyInTheRace`, `AttemptsBounded`, `PendingInStream` |
| `store_sync` | two tasks with one unique key, one of them scheduled and one that the scripts spoil; a crash, a fault and an expiry, and one request, be it to revive, to purge or to edit a row | `SSTypeOK`, `RowIsCurrent`, `RowNeverAhead`, `OnePublishedPerKey` |
| `consumer_cleanup` | two tasks, one without a handler, a crash, a shutdown and a fault, workers restarted under their names, one cleanup, under fairness | `CCTypeOK`, `DropsOnlyRestarted`, `RetriedLostOnlyByDrop`, `StrandedOnlyByDrop`, `OrphansRecovered`, `EverySettles` |
| `queue_admin` | one scheduled task, a fault, three pages or purges | `QATypeOK`, `QuietPageIsExact`, `PageMissesOnlyMoved`, `PurgeTakesOnlyTheStream` |
| `server_lifecycle` | two calls of Start and two of Shutdown, a signal, four errors of Redis; three transient errors in a row are put up with, with sleeps of one second and then two | `LCTypeOK`, `OldSubscribesDrain`, `PanicsOnlyIf`, `GracefulLeavesNone`, `LoopIsPatient`, `RefusedOnlyIf`, `StopsWhenAsked`, `NothingLeftRunning` |
| `task_timing` | two tasks with any options, five ticks of half a second, integers of four bits | `TTTypeOK`, `TakenWhenDue`, `DelaysDouble`, `AttemptsAsStored`, `KeyExcludes` |
| `lost_on_crash` | one crash: violation | `NoTaskLost` |
| `lost_in_script` | no fault, a spoiled task: violation | `NoTaskLost` |
| `retry_skipped` | no fault, a dead task that is retried: violation | `RevivedIsProcessed` |
| `key_too_short` | EnqueueUnique with a TTL above an hour: violation | `UniqueWithinTTL` |

The bounds of the last three passing runs: two generations of goroutines are what it takes
for one to meet the other, and two calls of Shutdown for the second to find the channel
closed; with four errors the loop of Subscribe gives up after sleeps of 1, 2 and 2 seconds,
of which the second is doubled and the third cut at the cap.  With four
bits a MaxRetry of 9 becomes -7 and 18 becomes 2, and the delay of a third retry is the
first that overflows; in five ticks a task gets through six attempts and a key can expire
and be taken again.  Three pages or purges let a purge precede, interrupt and follow a page.

What they show:

* **Loss.**  While nothing fails, a task that was enqueued has succeeded or is
  still somewhere (`NoLossWithoutFaults`), also when claims take messages from live
  goroutines and during the moment in which a pipeline has deleted the message
  and not stored the copy.  Once a task is on a retry, not even crashes,
  shutdowns and failed commands lose it (`RetriedTasksSurvive`).  The first
  attempt is the exception: `processTask` sets the idempotency key before the
  handler runs, so a worker that dies in a first attempt leaves a message which
  its successor skips and acknowledges (`lost_on_crash`, against README.md:12
  and :18).  A shutdown in a first attempt loses a task in the same way.
* **Repetition.**  A first attempt starts at most once, plus once for each check that
  failed open and each key that expired (`FirstAttemptOnce`).  Without slow
  handlers and reused names, a task never runs in two goroutines at once
  (`NoConcurrentRuns`), and every increment of `completed` is for another message
  (`CompletedCountsOnce`); a message whose task was skipped counts as well.  Retries consult no key: one whose worker dies between
  the handler's return and the Ack runs again.
* **The stream.**  Every message is delivered in order, acknowledged after its
  delivery and deleted after its acknowledgement, and never comes back
  (`ImplementsLifecycle`); nothing pending is ever without data
  (`PendingInStream`); nothing valid is left in the stream that no consumer will
  read again (`NoStrandedMessage`).
* **Dead letters.**  Requests that find the same dead task, or a task that another request
  has revived, cost at worst a second message, which the processed key absorbs or which
  counts as a life of its own (`FirstAttemptOnce`, `AttemptsBounded`).  A task is lost in
  one way (`LostOnlyInTheRace`): RetryFromDLQ adds it to the stream before it deletes the
  processed key, and a worker that takes it in between skips it (`retry_skipped`).
* **Rows.**  The producer inserts the row after it has published, when workers may have
  finished already; while nothing fails and stores and handlers are not slow the row still
  ends in the state of the task, but for a mark of handleRetryTask that comes late
  (`RowIsCurrent`, of tasks with a unique key that were not edited, purged, lost in the race
  of RetryFromDLQ, or revived before a write of their row or another revival had ended), and
  no row ever tells of a success, a retry or a death before Redis has it, whatever fails
  (`RowNeverAhead`; the row of a revived or purged task may go on saying "dead").
* **Unique keys.**  No two tasks with one key are published within its TTL
  (`OnePublishedPerKey`); but a Publish that fails leaves the key behind, and later
  callers are told, against the comment in `client.go` 13, of a duplicate that does not
  exist (`EnqueueFails`).
* **Cleanup.**  A cleanup removes a consumer with pending entries only if the worker was dead
  when the cleaner looked and has been started again under its name since
  (`DropsOnlyRestarted`); then, against the comment in `server.go` 545, its entries are
  dropped.  Nothing else takes a retry away or strands a message when
  workers restart under their names, where recovery and claimer of one process may
  hold the same entry (`RetriedLostOnlyByDrop`, `StrandedOnlyByDrop`).
* **Pages.**  What a page shows is right if nothing happened while it was read
  (`QuietPageIsExact`); "pending" then also counts messages that a worker has acknowledged
  and not yet, or in the case of invalid ones never, deleted.  Otherwise a page may count
  a task twice, but it misses none, except one that a scheduler moved back to the stream
  meanwhile or that a worker was just storing (`PageMissesOnlyMoved`): it reads the keys
  in the order in which workers move tasks, and reading the retry set first would not do.
* **Purge.**  PurgeQueue removes the tasks in the stream, not, as its comments say, all tasks
  of the queue.  Tasks that were not in the stream survive a purge, those published before
  a worker has recreated the group included, because the group starts from "0"
  (`PurgeTakesOnlyTheStream`).  This holds for handlers that are quicker than
  ClaimStaleAfter: a message that another worker claimed from a slow handler and skipped is
  in the hands of that handler only, and a purge that ends its worker loses the task.
* **Start and Shutdown.**  Start does not wait for its Subscribe: after it has returned, even
  gracefully, Subscribe and its claimer may go on handling messages beside those of the next
  Start.  But a Subscribe whose context is cancelled begins at most one more batch, the reply
  to the read in flight (`OldSubscribesDrain`).  A graceful return has waited for schedulers
  and cleanups of every earlier Start (`GracefulLeavesNone`).  The process panics in two ways
  only (`PanicsOnlyIf`): a second Shutdown while the same Start runs, and a Start after a
  shutdown that timed out, when `s.wg` is used again under a Wait.  Start is refused while
  another runs and after one that failed, and not otherwise (`RefusedOnlyIf`).  The loop of
  Subscribe gives up on transient errors only when Redis has not answered for all ten sleeps,
  three minutes (`LoopIsPatient`).  Its start-up has no patience: one transient error in
  XGROUP CREATE or in the recovery ends Subscribe, and with it Start.
* **Timing.**  Every task that is due is among those that a tick of the scheduler may take, of
  which the scripts take a batch at a time (LIMIT, `redis.go` 456 and 519), and none that is
  early by a second or more (`TakenWhenDue`).  Delays double up to the maximum for as long as
  the product fits, and never exceed the maximum (`DelaysDouble`).  A dead task has had the
  attempts its row promises, whatever WithMaxRetry was given (`AttemptsAsStored`).  Two tasks
  take one key at least a TTL apart, the one in the options of the earlier or an hour
  (`KeyExcludes`); what a caller passes to EnqueueUnique is not it (`key_too_short`).
* **Progress.**  See below.

Where code and comments disagree, and which run shows it (the `findings` of `PROJECT.json`):

| Code | What is promised | Run |
|---|---|---|
| the processed key is set before the handler (`server.go` 298) | at-least-once delivery (README.md:12, :18) | `lost_on_crash` |
| cjson spoils large durations (`redis.go` 468) | at-least-once delivery (README.md:12) | `lost_in_script` |
| DEL of the processed key after XADD (`redis.go` 693) | "so task can be processed again" (`redis.go` 692) | `retry_skipped` |
| EnqueueUnique drops its `ttl` (`client.go` 136) | "within the TTL" (`client.go` 125) | `key_too_short` |
| the first retry waits for base (`server.go` 460) | "base * 2^attempt" (`server.go` 459) | `task_timing`, `DelaysDouble` |
| only stream and stats are deleted (`redis.go` 852) | "removes all tasks from a queue" (`redis.go` 852, `broker.go` 78) | `queue_admin`, `PurgeTakesOnlyTheStream` |

The first four runs end in a violation of what is promised.  In the last two the property says
what the code does, holds, and contradicts the comment.

CHECK_DEADLOCK is FALSE: when the producers have stopped and every task has ended the
workers only poll, and a poll that finds nothing changes nothing; a server that was stopped
may stay stopped, and the clock of `TaskTiming` stops at its bound.

### Fairness

`CCFairSpec` of `ConsumerCleanup` assumes weak fairness (`Fairness` of `Delivery`) of: the
scheduler's moves (a ticker in every worker), every goroutine's next step (handlers
return, Redis answers), `Consume`, `RecoverOwnPending` and `ClaimStale` (loops and a
ticker), `Exit` (a program whose Start returned ends) and `Start` (a supervisor restarts a
worker).  Nothing is assumed of producers, of cleaners, of `Succeed` against `Fail`, of
shutdowns, crashes or faults.  Weak fairness is enough because each of these stays enabled
until it is taken.

`EverySettles`: without faults every enqueued task, also one without a handler, succeeds or
reaches the dead letter queue.  `OrphansRecovered`: whatever a dead worker left pending does not stay
pending, whether a live worker claims it or the restarted one recovers it.

`LCFairSpec` of `ServerLifecycle` assumes weak fairness of the steps of Start and of the goroutines
that end (`Progress`: a goroutine that is ready runs, and each of these steps is taken
at most once a call) and of the steps of each Subscribe (a blocking read ends after
BlockDuration, a sleep and a handler end).  Nobody has to call Start or Shutdown, to send a
signal, or to make Redis fail.  `StopsWhenAsked`: a Start that a Shutdown or a signal found
running returns.  `NothingLeftRunning`: whatever a Start launched ends after its return.  Both
are stated as "again and again, nobody is still about to stop" and "nothing is left": calls and
signals are bounded, so that a behaviour in which somebody is stuck is one in which the formula
is false from then on.

## 4. What is proved

The theorems hold for every set of tasks, workers and requests, every MaxRetry, BatchSize
and budget, every width of integers and every choice of the switches.  All they assume are
the ASSUMEs of the modules that declare the constants, which say what kind of value each
constant is; TLC evaluates them in every run.  Every invariant of the passing runs
is a theorem, as are the action property `RefusedOnlyIf` and the implementation of
`MessageLifecycle`.

Each proof has the same outline: an inductive invariant, one lemma for each of its parts
that shows what a step does to it, action by action, and a theorem that puts them together.
What follows is which invariant is needed, and why.

### Delivery

`Shape` is what all later proofs rest on: `TypeOK` with `StreamInv` and `AttemptInv`.

| Theorem | Property | Argument |
|---|---|---|
| `TypeCorrect` | `TypeOK` | inductive as it stands, with the conjunct that a goroutine at work has a message |
| `FirstAttemptRunsOnce` | `FirstAttemptOnce` | strengthened to count the key: a task without a key has started at most `lapses` times |
| `AttemptsStayBounded` | `AttemptsBounded` | strengthened by what a goroutine is about to store: a verdict `retry` comes from an entry with room for one more attempt, `dead` from one without |
| `PendingStaysInStream` | `PendingInStream` | strengthened to `StreamInv`: undelivered entries are in the stream, whatever a goroutine holds was delivered, and a message between XACK and XDEL is in nobody's PEL |
| `RunsAreExclusive` | `NoConcurrentRuns` | `Apart`: without slow handlers and reused names two goroutines hold different messages.  `OneChance`: a task has one chance to run, which is passed on: the key that is not set, the copy in the retry set, the message of a retry, the goroutine that runs it.  Each step that takes one of them gives at most one other |
| `CompletedIsCountedOnce` | `CompletedCountsOnce` | from `Apart`: a goroutine before HINCRBY has a message of its own, which has left the stream and was not counted before, because what was counted is in nobody's hands (`CountInv`) |
| `DeliveryImplementsLifecycle` | `ImplementsLifecycle` | from `StreamInv`: a batch leaves out nothing older than its newest entry, so a read moves a prefix of the waiting messages; XACK of a message that is not pending and XDEL of one that is gone are stutters |
| `NothingLostWithoutFaults` | `NoLossWithoutFaults` | `KeepInv`: until a task has its idempotency key, an entry that will still be delivered, or the scheduled set, answers for it; from then on first attempts are skipped, so only a goroutine, a stored copy or the entry of a retry does (`TasksKept`).  That a skip loses nothing needs goroutines whose context is not cancelled and keys that were set by a begun attempt (`GoroutinesClean`, `KeysClean`); faults, and only faults, spoil these |
| `RetriesOutliveFaults` | `RetriedTasksSurvive` | `FaultInv`, which no fault spoils: a retry is stored before its message is acknowledged, and what a dead goroutine held is still pending (`Survives`) |
| `NothingIsStranded` | `NoStrandedMessage` | also from `FaultInv`: a valid message in the stream is undelivered, pending, or in the hands of a goroutine that goes on to delete it (`Anchored`, `Reachable`) |

### DeadLetter

The lemmas of `Delivery` take care of its steps; each command of RetryFromDLQ is one more
case.  `DeadLetterTypeCorrect`, `RevivedFirstAttemptRunsOnce`, `RevivedAttemptsStayBounded`
and `RevivedPendingStaysInStream` prove `DLTypeOK`, `FirstAttemptOnce`, `AttemptsBounded`
and `PendingInStream` for any number of requests.

`LostInNoOtherWay` proves `LostOnlyInTheRace`.  A revived task breaks the argument for
`NoLossWithoutFaults`, because its key is removed after its message can be delivered.
`DLKeepInv` replaces it: a task is answered for by what no key can hide (success, a stored
copy, a goroutine, the message of a retry), by the call that took it out of the queue and
has yet to add it, or, while its key is not set or about to be removed, by a message that
nobody is skipping.  Only a skip between XADD and DEL breaks this, and `raced` records it.

### StoreSync, ConsumerCleanup and QueueAdmin

| Theorem | Property | Argument |
|---|---|---|
| `StoreTypesHold` | `SSTypeOK` | with the invariants of `DeadLetter`; a lemma sorts the steps by what they do to Redis and the workers |
| `RowsNeverAhead` | `RowNeverAhead` | the same is true of what a goroutine is about to write (`JobsKnown`): it begins the write after Redis has the success, the retry or the dead copy, and a copy leaves the dead letter queue only by a purge or a revival |
| `KeyAdmitsOne` | `OnePublishedPerKey` | `KeyAccount` counts: tasks of the key that are published or being published are no more than the expiries, plus one while the key is held |
| `RowsAreCurrent` | `RowIsCurrent` | `Fate`, explained below |
| `CleanupTypesHold` | `CCTypeOK` | with the shape of `Delivery` |
| `DropsHitOnlyRestarted` | `DropsOnlyRestarted` | `FoundDead`: a consumer that a cleaner found stays dead and without entries until its worker starts again |
| `RetriedLostOnlyByCleanup`, `StrandedOnlyByCleanup` | `RetriedLostOnlyByDrop`, `StrandedOnlyByDrop` | the argument of `FaultInv`, with one more way for a message to leave the pending lists, which `dropped` records (`Gone`) |
| `AdminTypesHold` | `QATypeOK` | XPENDING is read after XLEN and may exceed it; that pending entries are a finite part of the stream keeps everything a natural number |
| `QuietPagesAreExact` | `QuietPageIsExact` | as long as nothing else happens, each number that was read is the one in Redis (`QuietInv`), and undelivered, pending and acknowledged entries are three parts of the stream (`StreamParts`) |
| `PagesMissOnlyMoved` | `PageMissesOnlyMoved` | `MissedInv`: a task that was there from the start, and that neither was moved back nor was being stored, has been seen or is in a key that the page has yet to read |
| `PurgeTakesNoOthers` | `PurgeTakesOnlyTheStream` | `PurgeInv`: without faults and slow handlers nobody claims, so what is pending is in the hands of its consumer's main goroutine (`HeldInv`).  A worker that finds no group therefore holds nothing, and what else answers for a task (`TasksKept`) is out of reach of the purge |

`RowsAreCurrent` follows each task with a unique key through its stages (`Fate`): new,
running, on its way to a retry, dead, revived, done.  A stage says where the task is, and
that it is nowhere else (`Only`: one message, goroutine, stored copy or call), and what its
row tells or is about to tell (`Tells`).  This takes the key, which is taken once while it
does not expire (`KeyOnce`), so that there is one message and no row is refused; workers that
nothing stopped, with batches that do not overlap (`Calm`); and writes that end before the
retry is due.  Every step then leads from a stage to a stage, whether the producer or a worker
inserts the row, and wherever the mark of a revival comes that did not overtake a write.

### ServerLifecycle

`LCInv` says who owns `running` and the shutdown channel (`Ownership`), which calls may have
goroutines at work (`Generations`), what a goroutine in `wg.Wait` may find when it wakes up
(`Waits`), that a channel is closed because somebody asked (`ClosedWhenAsked`), that an error
count has its sleeps behind it (`SleptEnough`), and that of the one batch a cancelled Subscribe
may still begin, either the read is in flight or it has begun (`Drains`).  From it follow
`LifecycleTypesHold` (`LCTypeOK`), `OldSubscribesBeginOneBatch` (`OldSubscribesDrain`),
`PanicsAreKnown` (`PanicsOnlyIf`), `GracefulIsComplete` (`GracefulLeavesNone`),
`LoopSleepsFirst` (`LoopIsPatient`) and, about steps, `RefusalsAreExplained` (`RefusedOnlyIf`).

### TaskTiming

`TTInv` has the types; that a member of a sorted set has the score of its due time
(`Scored`); that all attempts but the last were followed by one delay (`Counting`); and that
whoever took the unique key took it in the past, for a TTL that has not been extended
(`Keys`).  From it follow `TimingTypesHold` (`TTTypeOK`), `TakenOnTime` (`TakenWhenDue`),
`BackoffDoubles` (`DelaysDouble`), `AttemptsAreThoseStored` (`AttemptsAsStored`) and
`KeysExclude` (`KeyExcludes`).

### What is only model-checked

* `EverySettles`, `OrphansRecovered`, `StopsWhenAsked` and `NothingLeftRunning`: liveness
  needs ENABLED for its fairness, which the prover does not handle.
* The four runs that end in a violation: a counterexample needs no proof.

## 5. Plan

In this order; the modules marked done are those of section 2.

1. `Delivery`, `MessageLifecycle` and their proofs: done.
2. `DeadLetter` on top of `Delivery`, and its proofs: done.
3. `StoreSync`, the rows and the unique keys, on top of `DeadLetter`: done.
4. `ConsumerCleanup` on top of `Delivery`: done.
5. `ServerLifecycle`, `TaskTiming`, and `QueueAdmin` on top of `Delivery`: done.
6. Theorems for the invariants of all these modules: done.

## 6. What is not modelled

* The broker interface, migrations, logging, examples: no behaviour over time.  Of the
  migrations the unique index on unique_key is in `StoreSync`.
* Payloads, labels and priorities: stored, shown, and read by nothing in the server.  Timeout
  only bounds the context of the handler (`server.go` 332): a handler that it ends is one that
  fails (`Fail`), and how long that takes is not modelled.
* `ServeMux`: Handle writes a map that processTask reads without a lock, so handlers must be
  registered before Start, as the examples do; the model has only `Unhandled`.
* The pages over the task store (handleTasks, handleTaskDetail, handlePartialStats): one or
  two SELECTs that change nothing.  A page of the list and its total are two statements, and
  the list has no tie-breaker behind its sort column, so that pages may overlap.
* The limit of 1000 tasks of handleRetryAllDead.
* Several queues at once: they share no keys but the processed keys of different tasks.
* Redis losing data, and clocks that differ between machines.
