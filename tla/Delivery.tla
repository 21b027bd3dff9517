------------------------------ MODULE Delivery ------------------------------
(***************************************************************************)
(* The delivery protocol of strego: one queue, its Redis stream and the    *)
(* consumer group that reads it, the workers of the group, and the life of *)
(* a message from the producer's Enqueue to its XDEL, its retries and the  *)
(* dead letter queue.                                                      *)
(*                                                                         *)
(* Code: broker/redis/redis.go (Publish, Subscribe, recoverOwnPending,     *)
(* claimStale, processMessage, Ack, Schedule, Retry, MoveToDLQ and the two *)
(* Lua scripts), server.go (Start, Shutdown, processTask, handleFailure,   *)
(* runScheduler) and client.go (Enqueue).                                  *)
(*                                                                         *)
(* A worker is a process with two goroutines that call processMessage: the *)
(* "main" loop of Subscribe and the "claimer".  A Redis command, and a Lua *)
(* script, is one step; the commands of a pipeline (no MULTI) are steps of *)
(* their own.  Stale, due and expired are nondeterministic: time is not    *)
(* modelled.                                                               *)
(***************************************************************************)
EXTENDS Integers, Sequences, FiniteSets

CONSTANTS
    Tasks,          \* task IDs (uuids)
    Delayed,        \* tasks enqueued with a ProcessAt in the future
    Unhandled,      \* tasks whose type no handler is registered for
    Undecodable,    \* tasks whose JSON, re-encoded by cjson in the Lua scripts,
                    \* json.Unmarshal rejects (a duration of 10^14 ns or more)
    Workers,        \* consumer names of the group
    MaxRetry,       \* Options.MaxRetry, 3 by default
    BatchSize,      \* ConsumerConfig.BatchSize
    SlowHandlers,   \* may a handler run longer than ClaimStaleAfter?
    StableNames,    \* does a restarted process keep its consumer name?
    SplitPipelines, \* may an error stop a pipeline between two commands?
    Budget          \* how many events of each kind a behaviour may contain

EventKinds == {"publish", "crash", "shutdown", "fault", "expiry"}

ASSUME ConstantsAssumption ==
    /\ Delayed \subseteq Tasks
    /\ Unhandled \subseteq Tasks
    /\ Undecodable \subseteq Tasks
    /\ MaxRetry \in Nat \ {0}
    /\ BatchSize \in Nat \ {0}
    /\ {SlowHandlers, StableNames, SplitPipelines} \subseteq BOOLEAN
    /\ Budget \in [EventKinds -> Nat]

VARIABLES
    \* Redis
    log,            \* every XADD to the stream, in order; an ID is an index
    stream,         \* the IDs that have not been XDELed
    lastDelivered,  \* last-delivered-id of the consumer group
    pel,            \* pending entries list of each consumer
    scheduled,      \* sorted set strego:scheduled:<queue>
    retry,          \* sorted set strego:retry:<queue>
    dlq,            \* stream strego:dlq:<queue>
    processed,      \* tasks whose strego:processed:<id> key exists
    completed,      \* counter "completed" of strego:stats:<queue>
    \* workers
    status,         \* what the process of each consumer name is doing
    phase,          \* where each goroutine is
    batch,          \* messages a goroutine holds and has not begun
    cur,            \* the message it is processing, 0 if none
    verdict,        \* the pipeline that message will end with
    \* the environment, and history read only by the properties
    budget,         \* events left
    starts,         \* handler runs of each task on its first attempt
    successes,      \* handler runs of each task that returned nil
    lapses,         \* times the idempotency check of a task could not bind
    counted         \* messages whose Ack has incremented the counter

redisVars   == <<log, stream, lastDelivered, pel, scheduled, retry, dlq,
                 processed, completed>>
threadVars  == <<phase, batch, cur, verdict>>
historyVars == <<starts, successes, lapses, counted>>
vars == <<redisVars, status, threadVars, budget, historyVars>>

Threads == Workers \X {"main", "claimer"}
Main(w)    == <<w, "main">>
Claimer(w) == <<w, "claimer">>

Ids     == 1 .. Len(log)
Pending == UNION {pel[w] : w \in Workers}

Live(w) == status[w] \in {"recovering", "consuming", "closing"}

Spend(kind) ==
    /\ budget[kind] > 0
    /\ budget' = [budget EXCEPT ![kind] = @ - 1]

(* COUNT BatchSize: the oldest entries of a set. *)
FirstOf(S) == {id \in S : Cardinality({j \in S : j < id}) < BatchSize}

(* Entries the group has not delivered yet: the ID ">". *)
UndeliveredRereads == {id \in stream : id >= lastDelivered}   \* mutant
Undelivered == {id \in stream : id > lastDelivered}

Holds(th, id) == id \in batch[th] \/ cur[th] = id

(* XAUTOCLAIM's MinIdle: an entry turns stale once nobody works on it any   *)
(* more, or under a handler (or the rest of a batch) slower than            *)
(* ClaimStaleAfter.                                                         *)
StaleInBatch(id) == SlowHandlers \/ \A th \in Threads : cur[th] # id   \* mutant
Stale(id) == SlowHandlers \/ \A th \in Threads : ~Holds(th, id)

(* handleFailure increments RetryCount before it compares it. *)
ExhaustedLate(rc) == rc + 1 > MaxRetry   \* mutant
Exhausted(rc) == rc + 1 >= MaxRetry

Init ==
    /\ log = << >>
    /\ stream = {}
    /\ lastDelivered = 0
    /\ pel = [w \in Workers |-> {}]
    /\ scheduled = {}
    /\ retry = {}
    /\ dlq = {}
    /\ processed = {}
    /\ completed = 0
    /\ status = [w \in Workers |-> "off"]
    /\ phase = [th \in Threads |-> "down"]
    /\ batch = [th \in Threads |-> {}]
    /\ cur = [th \in Threads |-> 0]
    /\ verdict = [th \in Threads |-> "none"]
    /\ budget = Budget
    /\ starts = [t \in Tasks |-> 0]
    /\ successes = [t \in Tasks |-> 0]
    /\ lapses = [t \in Tasks |-> 0]
    /\ counted = {}

-----------------------------------------------------------------------------
(* The producer and the scheduler.                                          *)

XAdd(t, rc, ok) ==
    /\ log' = Append(log, [task |-> t, rc |-> rc, ok |-> ok])
    /\ stream' = stream \cup {Len(log) + 1}

(* Client.Enqueue without a unique key.  A caller whose call failed may     *)
(* enqueue the same task again.  ZADD of the same member keeps one copy.    *)
Enqueue(t) ==
    /\ Spend("publish")
    /\ \/ /\ t \in Delayed
          /\ scheduled' = scheduled \cup {t}
          /\ UNCHANGED <<log, stream>>
       \/ /\ XAdd(t, 0, TRUE)
          /\ UNCHANGED scheduled
    /\ UNCHANGED <<lastDelivered, pel, retry, dlq, processed, completed,
                   status, threadVars, historyVars>>

(* runScheduler runs in every worker, from Start until the context ends. *)
SchedulerStops == \E w \in Workers : status[w] = "recovering"   \* mutant
SchedulerRuns  == \E w \in Workers : status[w] \in {"recovering", "consuming"}

(* A tick moves every due member, up to the batch limit, in one script.     *)
(* What is due is nondeterministic here, so a tick that moves k members is  *)
(* k of these steps.  cjson decodes and encodes the task on the way.        *)
EnqueueScheduled(t) ==
    /\ SchedulerRuns
    /\ t \in scheduled
    /\ scheduled' = scheduled \ {t}
    /\ XAdd(t, 0, t \notin Undecodable)
    /\ UNCHANGED <<lastDelivered, pel, retry, dlq, processed, completed,
                   status, threadVars, budget, historyVars>>

EnqueueRetry(c) ==
    /\ SchedulerRuns
    /\ retry' = retry \ {c}
    /\ XAdd(c.task, c.rc, c.task \notin Undecodable)
    /\ UNCHANGED <<lastDelivered, pel, scheduled, dlq, processed, completed,
                   status, threadVars, budget, historyVars>>

-----------------------------------------------------------------------------
(* Fetching: the three ways a goroutine gets a batch.                       *)

Idle(th) == phase[th] = "ready" /\ batch[th] = {}

(* The reply reaches the goroutine, or is lost with the connection; after   *)
(* an error under a cancelled context the goroutine returns.                *)
Deliver(th, got) ==
    \/ /\ batch' = [batch EXCEPT ![th] = got]
       /\ UNCHANGED <<phase, budget>>
    \/ /\ Spend("fault")
       /\ phase' = [phase EXCEPT ![th] =
                        IF status[th[1]] = "closing" THEN "down" ELSE @]
       /\ UNCHANGED batch

(* Subscribe's loop, XREADGROUP ">".  A blocking read that is in flight     *)
(* when the context is cancelled still delivers.                            *)
Consume(w) ==
    LET got == FirstOf(Undelivered)
    IN  /\ status[w] \in {"consuming", "closing"}
        /\ Idle(Main(w))
        /\ Undelivered # {}
        /\ lastDelivered' \in got
        /\ \A id \in got : id <= lastDelivered'
        /\ pel' = [pel EXCEPT ![w] = @ \cup got]
        /\ Deliver(Main(w), got)
        /\ UNCHANGED <<log, stream, scheduled, retry, dlq, processed, completed,
                       status, cur, verdict, historyVars>>

(* recoverOwnPending, XREADGROUP "0": batches of this consumer's own PEL    *)
(* until it is empty; then the main loop begins.                            *)
RecoverOwnPending(w) ==
    /\ status[w] = "recovering"
    /\ Idle(Main(w))
    /\ IF pel[w] = {}
       THEN /\ status' = [status EXCEPT ![w] = "consuming"]
            /\ UNCHANGED batch
       ELSE /\ batch' = [batch EXCEPT ![Main(w)] = FirstOf(pel[w])]
            /\ UNCHANGED status
    /\ UNCHANGED <<redisVars, phase, cur, verdict, budget, historyVars>>

(* The first claim is a ClaimCheckInterval after Subscribe: the recovery    *)
(* has ended by then, or is busy with a batch.                              *)
ClaimerEndsEarly(w) == status[w] = "recovering" /\ ~Idle(Main(w))   \* mutant
ClaimerTicks(w) ==
    \/ status[w] = "consuming"
    \/ status[w] = "recovering" /\ ~Idle(Main(w))

(* claimStale, XAUTOCLAIM from "0": moves stale entries of any consumer,    *)
(* its own included, to the PEL of w.                                       *)
ClaimStale(w) ==
    LET due == {id \in Pending : Stale(id)}
        got == FirstOf(due)
    IN  /\ ClaimerTicks(w)
        /\ Idle(Claimer(w))
        /\ due # {}
        /\ pel' = [v \in Workers |-> IF v = w THEN pel[v] \cup got
                                              ELSE pel[v] \ got]
        /\ Deliver(Claimer(w), got)
        /\ UNCHANGED <<log, stream, lastDelivered, scheduled, retry, dlq,
                       processed, completed, status, cur, verdict, historyVars>>

-----------------------------------------------------------------------------
(* processMessage and processTask: one message of a batch, oldest first.    *)

NextInBatch(th, id) == id \in batch[th] /\ \A j \in batch[th] : id <= j

(* A goroutine whose context is cancelled finishes its batch and returns.   *)
AfterMessage(th, left) ==
    IF status[th[1]] = "closing" /\ left = {} THEN "down" ELSE "ready"

TakeForgets(th, id, where, v) ==   \* mutant
    /\ phase[th] = "ready"
    /\ NextInBatch(th, id)
    /\ batch' = [batch EXCEPT ![th] = @ \ {id}]
    /\ phase' = [phase EXCEPT ![th] = where]
    /\ verdict' = [verdict EXCEPT ![th] = v]
    /\ UNCHANGED cur
Take(th, id, where, v) ==
    /\ phase[th] = "ready"
    /\ NextInBatch(th, id)
    /\ batch' = [batch EXCEPT ![th] = @ \ {id}]
    /\ cur' = [cur EXCEPT ![th] = id]
    /\ phase' = [phase EXCEPT ![th] = where]
    /\ verdict' = [verdict EXCEPT ![th] = v]

AckForgotten(id) == pel   \* mutant
Acked(id) == [w \in Workers |-> pel[w] \ {id}]

(* json.Unmarshal fails: XACK, no XDEL, and the message is dropped.  The    *)
(* error of that XACK is ignored.                                           *)
DropInvalid(th, id) ==
    /\ phase[th] = "ready"
    /\ NextInBatch(th, id)
    /\ ~log[id].ok
    /\ batch' = [batch EXCEPT ![th] = @ \ {id}]
    /\ phase' = [phase EXCEPT ![th] = AfterMessage(th, batch'[th])]
    /\ \/ status[th[1]] # "closing" /\ pel' = Acked(id) /\ UNCHANGED budget
       \/ status[th[1]] = "closing" /\ UNCHANGED <<pel, budget>>
       \/ Spend("fault") /\ UNCHANGED pel
    /\ UNCHANGED <<log, stream, lastDelivered, scheduled, retry, dlq, processed,
                   completed, status, cur, verdict, historyVars>>

(* The idempotency check is for first attempts only. *)
FirstTwoAttempts(id) == log[id].rc <= 1   \* mutant
FirstAttempt(id) == log[id].rc = 0

BeginRetry(th, id) ==
    /\ log[id].ok
    /\ ~FirstAttempt(id)
    /\ Take(th, id, "run", "none")
    /\ UNCHANGED <<redisVars, status, budget, historyVars>>

(* SetProcessed. *)
PlainSet(t) == processed' = processed \cup {t}   \* mutant
SetNX(t) == t \notin processed /\ processed' = processed \cup {t}

(* SET NX succeeds, or finds the key and the task is skipped. *)
BeginFirst(th, id) ==
    LET t == log[id].task
    IN  /\ log[id].ok
        /\ FirstAttempt(id)
        /\ status[th[1]] # "closing"
        /\ SetNX(t)
        /\ starts' = [starts EXCEPT ![t] = @ + 1]
        /\ Take(th, id, "run", "none")
        /\ UNCHANGED <<log, stream, lastDelivered, pel, scheduled, retry, dlq,
                       completed, status, budget, successes, lapses, counted>>

SkipProcessed(th, id) ==
    /\ log[id].ok
    /\ FirstAttempt(id)
    /\ status[th[1]] # "closing"
    /\ log[id].task \in processed
    /\ Take(th, id, "xack", "skip")
    /\ UNCHANGED <<redisVars, status, budget, historyVars>>

(* SetProcessed returns an error and the task is processed all the same:    *)
(* the context is cancelled and nothing was sent, or the connection failed  *)
(* before or after SET NX ran.                                              *)
BeginFailOpen(th, id) ==
    LET t == log[id].task
    IN  /\ log[id].ok
        /\ FirstAttempt(id)
        /\ \/ status[th[1]] = "closing" /\ UNCHANGED <<processed, budget>>
           \/ Spend("fault") /\ processed' \in {processed, processed \cup {t}}
        /\ starts' = [starts EXCEPT ![t] = @ + 1]
        /\ lapses' = [lapses EXCEPT ![t] = @ + 1]
        /\ Take(th, id, "run", "none")
        /\ UNCHANGED <<log, stream, lastDelivered, pel, scheduled, retry, dlq,
                       completed, status, successes, counted>>

(* The handler returns nil, and processMessage will Ack. *)
Succeed(th) ==
    LET t == log[cur[th]].task
    IN  /\ phase[th] = "run"
        /\ t \notin Unhandled
        /\ phase' = [phase EXCEPT ![th] = "xack"]
        /\ verdict' = [verdict EXCEPT ![th] = "done"]
        /\ successes' = [successes EXCEPT ![t] = @ + 1]
        /\ UNCHANGED <<redisVars, status, batch, cur, budget, starts, lapses,
                       counted>>

(* It returns an error, panics, times out or is not registered:             *)
(* handleFailure decides between Retry and MoveToDLQ.                       *)
Fail(th) ==
    /\ phase[th] = "run"
    /\ phase' = [phase EXCEPT ![th] = "xack"]
    /\ verdict' = [verdict EXCEPT ![th] =
                       IF Exhausted(log[cur[th]].rc) THEN "dead" ELSE "retry"]
    /\ UNCHANGED <<redisVars, status, batch, cur, budget, historyVars>>

-----------------------------------------------------------------------------
(* The pipelines.  Ack is XACK, XDEL, HINCRBY completed; Retry is XACK,     *)
(* XDEL, ZADD; MoveToDLQ is XACK, XDEL, XADD.                               *)

XAck(th) ==
    /\ phase[th] = "xack"
    /\ status[th[1]] # "closing"
    /\ pel' = Acked(cur[th])
    /\ phase' = [phase EXCEPT ![th] = "xdel"]
    /\ UNCHANGED <<log, stream, lastDelivered, scheduled, retry, dlq, processed,
                   completed, status, batch, cur, verdict, budget, historyVars>>

NoXDel(th) ==   \* mutant
    /\ phase[th] = "xdel"
    /\ phase' = [phase EXCEPT ![th] = "final"]
    /\ UNCHANGED <<redisVars, status, batch, cur, verdict, budget, historyVars>>
XDel(th) ==
    /\ phase[th] = "xdel"
    /\ stream' = stream \ {cur[th]}
    /\ phase' = [phase EXCEPT ![th] = "final"]
    /\ UNCHANGED <<log, lastDelivered, pel, scheduled, retry, dlq, processed,
                   completed, status, batch, cur, verdict, budget, historyVars>>

Release(th) ==
    /\ phase' = [phase EXCEPT ![th] = AfterMessage(th, batch[th])]
    /\ cur' = [cur EXCEPT ![th] = 0]
    /\ verdict' = [verdict EXCEPT ![th] = "none"]
    /\ UNCHANGED batch

(* The copy handleFailure stores: its StreamMsgID, WorkerID and StartedAt   *)
(* (src, by) make every stored member distinct.                             *)
Copy(th) == [task |-> log[cur[th]].task, rc |-> log[cur[th]].rc + 1,
             src |-> cur[th], by |-> th]

CountCompleted(th) ==
    /\ phase[th] = "final"
    /\ verdict[th] \in {"skip", "done"}
    /\ completed' = completed + 1
    /\ counted' = counted \cup {cur[th]}
    /\ Release(th)
    /\ UNCHANGED <<log, stream, lastDelivered, pel, scheduled, retry, dlq,
                   processed, status, budget, starts, successes, lapses>>

AddRetry(th) ==
    /\ phase[th] = "final"
    /\ verdict[th] = "retry"
    /\ retry' = retry \cup {Copy(th)}
    /\ Release(th)
    /\ UNCHANGED <<log, stream, lastDelivered, pel, scheduled, dlq, processed,
                   completed, status, budget, historyVars>>

AddDead(th) ==
    /\ phase[th] = "final"
    /\ verdict[th] = "dead"
    /\ dlq' = dlq \cup {Copy(th)}
    /\ Release(th)
    /\ UNCHANGED <<log, stream, lastDelivered, pel, scheduled, retry, processed,
                   completed, status, budget, historyVars>>

(* Exec fails before anything ran (under a cancelled context it always      *)
(* does), or with SplitPipelines between two commands.  The error is        *)
(* returned and nobody retries the pipeline.                                *)
PipelineError(th) ==
    /\ \/ phase[th] = "xack" /\ status[th[1]] = "closing" /\ UNCHANGED budget
       \/ phase[th] = "xack" /\ Spend("fault")
       \/ SplitPipelines /\ phase[th] \in {"xdel", "final"} /\ Spend("fault")
    /\ Release(th)
    /\ UNCHANGED <<redisVars, status, historyVars>>

-----------------------------------------------------------------------------
(* Processes.                                                               *)

(* Start: the scheduler, the claimer, and Subscribe with its recovery. *)
Start(w) ==
    /\ status[w] = "off"
    /\ status' = [status EXCEPT ![w] = "recovering"]
    /\ phase' = [th \in Threads |-> IF th[1] = w THEN "ready" ELSE phase[th]]
    /\ UNCHANGED <<redisVars, batch, cur, verdict, budget, historyVars>>

(* Shutdown or a signal cancels the context.  Goroutines between two        *)
(* messages go on with their batch; a blocking XREADGROUP stays in flight.  *)
Shutdown(w) ==
    /\ status[w] \in {"recovering", "consuming"}
    /\ Spend("shutdown")
    /\ status' = [status EXCEPT ![w] = "closing"]
    /\ phase' = [th \in Threads |->
                    IF /\ th[1] = w
                       /\ Idle(th)
                       /\ th = Main(w) => status[w] = "recovering"
                    THEN "down"
                    ELSE phase[th]]
    /\ UNCHANGED <<redisVars, batch, cur, verdict, historyVars>>

(* That read ends without messages. *)
MainStops(w) ==
    /\ status[w] = "closing"
    /\ Idle(Main(w))
    /\ phase' = [phase EXCEPT ![Main(w)] = "down"]
    /\ UNCHANGED <<redisVars, status, batch, cur, verdict, budget, historyVars>>

(* The recovery's read fails, or the loop's read fails for good: Subscribe  *)
(* returns, Start returns and its deferred cancel ends the claimer.         *)
SubscribeFails(w) ==
    /\ status[w] \in {"recovering", "consuming"}
    /\ Idle(Main(w))
    /\ Spend("fault")
    /\ status' = [status EXCEPT ![w] = "closing"]
    /\ phase' = [th \in Threads |->
                    IF th[1] = w /\ Idle(th) THEN "down" ELSE phase[th]]
    /\ UNCHANGED <<redisVars, batch, cur, verdict, historyVars>>

(* The process ends with whatever its goroutines held.  A pipeline that     *)
(* reached Redis runs to its end without the process.                       *)
Terminate(w) ==
    /\ \A th \in Threads :
          th[1] = w => (SplitPipelines \/ phase[th] \notin {"xdel", "final"})
    /\ status' = [status EXCEPT ![w] = IF StableNames THEN "off" ELSE "gone"]
    /\ phase' = [th \in Threads |-> IF th[1] = w THEN "down" ELSE phase[th]]
    /\ batch' = [th \in Threads |-> IF th[1] = w THEN {} ELSE batch[th]]
    /\ cur' = [th \in Threads |-> IF th[1] = w THEN 0 ELSE cur[th]]
    /\ verdict' = [th \in Threads |-> IF th[1] = w THEN "none" ELSE verdict[th]]
    /\ UNCHANGED <<redisVars, historyVars>>

Crash(w) ==
    /\ Live(w)
    /\ Spend("crash")
    /\ Terminate(w)

(* Start does not wait for the goroutines that run handlers: once it has    *)
(* returned, the program may end under them.                                *)
Exit(w) ==
    /\ status[w] = "closing"
    /\ Terminate(w)
    /\ UNCHANGED budget

(* The TTL of a processed key runs out. *)
ExpireProcessed(t) ==
    /\ t \in processed
    /\ Spend("expiry")
    /\ processed' = processed \ {t}
    /\ lapses' = [lapses EXCEPT ![t] = @ + 1]
    /\ UNCHANGED <<log, stream, lastDelivered, pel, scheduled, retry, dlq,
                   completed, status, threadVars, starts, successes,
                   counted>>

-----------------------------------------------------------------------------
Scheduler ==
    \/ \E t \in Tasks : EnqueueScheduled(t)
    \/ \E c \in retry : EnqueueRetry(c)

Fetch(w) == Consume(w) \/ RecoverOwnPending(w) \/ ClaimStale(w)

Begin(th) ==
    \E id \in batch[th] :
        \/ DropInvalid(th, id)
        \/ BeginRetry(th, id)
        \/ BeginFirst(th, id)
        \/ SkipProcessed(th, id)
        \/ BeginFailOpen(th, id)

Pipeline(th) ==
    \/ XAck(th)
    \/ XDel(th)
    \/ CountCompleted(th)
    \/ AddRetry(th)
    \/ AddDead(th)
    \/ PipelineError(th)

ThreadStep(th) == Begin(th) \/ Succeed(th) \/ Fail(th) \/ Pipeline(th)

Process(w) ==
    \/ Start(w)
    \/ Shutdown(w)
    \/ MainStops(w)
    \/ SubscribeFails(w)
    \/ Crash(w)
    \/ Exit(w)

Next ==
    \/ \E t \in Tasks : Enqueue(t) \/ ExpireProcessed(t)
    \/ Scheduler
    \/ \E w \in Workers : Fetch(w) \/ Process(w)
    \/ \E th \in Threads : ThreadStep(th)

Spec == Init /\ [][Next]_vars

(* Goroutines run, handlers return, tickers tick, Redis answers, a program  *)
(* whose Start returned ends, and a supervisor starts one that is not       *)
(* running.  Nothing is assumed of producers, of shutdowns or of faults.    *)
Fairness ==
    /\ WF_vars(Scheduler)
    /\ \A th \in Threads : WF_vars(ThreadStep(th))
    /\ \A w \in Workers :
          /\ WF_vars(Start(w))
          /\ WF_vars(Exit(w))
          /\ WF_vars(RecoverOwnPending(w))
          /\ WF_vars(Consume(w))
          /\ WF_vars(ClaimStale(w))

-----------------------------------------------------------------------------
(* What a run of the workers must never do.                                 *)

Entry     == [task : Tasks, rc : Nat, ok : BOOLEAN]
RetryCopy == [task : Tasks, rc : Nat, src : Nat, by : Threads]

(* Every variable has its type, and IDs that are held or pending exist. *)
TypeOK ==
    /\ log \in Seq(Entry)
    /\ stream \subseteq Ids
    /\ lastDelivered \in 0 .. Len(log)
    /\ pel \in [Workers -> SUBSET Ids]
    /\ scheduled \subseteq Tasks
    /\ retry \subseteq RetryCopy
    /\ dlq \subseteq RetryCopy
    /\ processed \subseteq Tasks
    /\ completed \in Nat
    /\ status \in [Workers -> {"off", "recovering", "consuming", "closing", "gone"}]
    /\ phase \in [Threads -> {"down", "ready", "run", "xack", "xdel", "final"}]
    /\ batch \in [Threads -> SUBSET Ids]
    /\ cur \in [Threads -> 0 .. Len(log)]
    /\ \A th \in Threads : phase[th] \in {"run", "xack", "xdel", "final"} => cur[th] # 0
    /\ verdict \in [Threads -> {"none", "skip", "done", "retry", "dead"}]
    /\ budget \in [EventKinds -> Nat]
    /\ starts \in [Tasks -> Nat]
    /\ successes \in [Tasks -> Nat]
    /\ lapses \in [Tasks -> Nat]
    /\ counted \subseteq Ids

Delivered(id) == id <= lastDelivered

(* No message that is still pending has left the stream: Ack, Retry and     *)
(* MoveToDLQ send XACK before XDEL, so XAUTOCLAIM and the recovery always   *)
(* find the data of what they claim.                                        *)
PendingInStream == Pending \subseteq {id \in stream : Delivered(id)}

(* SET NX lets the first attempt of a task run once, whatever is delivered, *)
(* claimed, recovered or enqueued again; each further run is paid for by a  *)
(* check that failed open or by a key whose TTL ran out.                    *)
FirstAttemptOnce == \A t \in Tasks : starts[t] <= 1 + lapses[t]

(* A task is attempted at most MaxRetry times along every chain of retries, *)
(* and the dead letter queue holds exactly the tasks that exhausted them.   *)
AttemptsBounded ==
    /\ \A id \in Ids : log[id].rc < MaxRetry
    /\ \A c \in retry : c.rc \in 1 .. MaxRetry - 1
    /\ \A c \in dlq : c.rc = MaxRetry

Published(t) == t \in scheduled \/ \E id \in Ids : log[id].task = t

Retried(t) ==
    \/ \E c \in retry : c.task = t
    \/ \E id \in Ids : log[id].task = t /\ log[id].rc > 0

(* The life of a message as MessageLifecycle tells it. *)
MessageState(id) ==
    IF id \notin stream THEN "deleted"
    ELSE IF id \in Pending THEN "pending"
    ELSE IF Delivered(id) THEN "acked" ELSE "waiting"

Messages == [id \in Ids |-> MessageState(id)]

Lifecycle == INSTANCE MessageLifecycle WITH messages <- Messages

(* Whatever the workers do and whatever fails, every message is delivered   *)
(* in the order of its XADD, acknowledged after it was delivered and        *)
(* deleted after it was acknowledged, never twice and never back.           *)
ImplementsLifecycle == Lifecycle!Spec

(* A message that is, or will be, delivered. *)
Deliverable(id) == id \in stream /\ (~Delivered(id) \/ id \in Pending)

(* A goroutine that runs t, or that is on the way to store it again. *)
Carries(th, t) ==
    /\ cur[th] # 0
    /\ log[cur[th]].task = t
    /\ phase[th] = "run" \/ verdict[th] \in {"retry", "dead"}

HasCopy(t) ==
    \/ t \in scheduled
    \/ \E id \in Ids : log[id].task = t /\ Deliverable(id)
    \/ \E c \in retry \cup dlq : c.task = t
    \/ \E th \in Threads : Carries(th, t)

Kept(t) == successes[t] > 0 \/ HasCopy(t)

NoFaultYet == \A k \in EventKinds \ {"publish"} : budget[k] = Budget[k]

(* As long as no worker crashed or was shut down, no command failed and no  *)
(* key expired, every enqueued task has succeeded or still exists: in the   *)
(* stream, a sorted set, the dead letter queue or the hands of a goroutine. *)
(* Claims of messages whose handler is merely slow do not lose tasks.       *)
NoLossWithoutFaults ==
    NoFaultYet => \A t \in Tasks \ Undecodable : Published(t) => Kept(t)

(* Once a task is on a retry it survives crashes, shutdowns and failed      *)
(* commands: the idempotency key, which only first attempts consult, can no *)
(* longer hide it.  A pipeline that fails between two of its commands can   *)
(* lose it, so that case is set aside here.                                 *)
RetriedTasksSurvive ==
    ~SplitPipelines => \A t \in Tasks \ Undecodable : Retried(t) => Kept(t)

(* Without slow handlers, and with consumer names that are not reused, two  *)
(* goroutines never run the same task at the same time.                     *)
NoConcurrentRuns ==
    ~SlowHandlers /\ ~StableNames =>
        \A t \in Tasks : lapses[t] = 0 =>
            \A a, b \in Threads :
                /\ phase[a] = "run" /\ log[cur[a]].task = t
                /\ phase[b] = "run" /\ log[cur[b]].task = t
                => a = b

(* A message that was delivered and is no longer pending is on its way out  *)
(* of the stream: nothing stays in it that no consumer will ever read.      *)
NoStrandedMessage ==
    ~SplitPipelines =>
        \A id \in stream :
            log[id].ok /\ Delivered(id) /\ id \notin Pending =>
            \E th \in Threads : phase[th] = "xdel" /\ cur[th] = id

(* Every increment of the counter "completed" is for another message, that  *)
(* of a skipped task included: no message is acknowledged twice, by two     *)
(* goroutines or by one that is given it again.                             *)
CompletedCountsOnce ==
    ~SlowHandlers /\ ~StableNames => completed = Cardinality(counted)

-----------------------------------------------------------------------------
(* What the documentation and the comments of the code promise, and the     *)
(* code does not keep.                                                      *)

(* README.md:12, "at-least-once delivery, crash recovery", and README.md:18: *)
(* no enqueued task disappears.                                             *)
NoTaskLost == \A t \in Tasks : Published(t) => Kept(t)

-----------------------------------------------------------------------------
(* What must happen.                                                        *)

(* As long as nothing fails, every enqueued task succeeds or reaches the    *)
(* dead letter queue, one without a handler too: server.go:325-327 says it  *)
(* is moved there at once, but it goes through its retries like any other.  *)
Settled(t) == successes[t] > 0 \/ \E c \in dlq : c.task = t
EverySettles == []NoFaultYet => \A t \in Tasks : Published(t) ~> Settled(t)

(* A message that a consumer left pending does not stay pending: a worker   *)
(* that lives claims it, or a restarted one recovers it.                    *)
MaxId == MaxRetry * Budget["publish"]
OrphansRecovered == \A id \in 1 .. MaxId : (id \in Pending) ~> (id \notin Pending)

=============================================================================
