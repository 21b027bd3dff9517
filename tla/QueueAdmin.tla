------------------------------ MODULE QueueAdmin ------------------------------
(***************************************************************************)
(* What an operator does to a queue beside its workers: the pages that     *)
(* count its tasks, one Redis command after the other, and PurgeQueue,     *)
(* whose DEL of the stream takes the consumer group with it.               *)
(*                                                                         *)
(* Code: broker/redis/redis.go (GetQueueInfo, GetScheduledCount,           *)
(* GetRetryCount, GetConsumerGroups, PurgeQueue, and Subscribe where the   *)
(* group is missing) and ui/server.go (handleDashboard, handleQueues,      *)
(* handleQueueDetail, handleAPIQueues, handlePartialQueues).               *)
(*                                                                         *)
(* One page is read at a time: pages do not disturb each other.            *)
(***************************************************************************)
EXTENDS Delivery

CONSTANTS
    MaxCalls    \* bound: pages that are read and calls of PurgeQueue

ASSUME AdminAssumption == MaxCalls \in Nat

VARIABLES
    group,      \* does the stream have its consumer group?
    purge,      \* the call of PurgeQueue: "off", or "stats" between its two DELs
    page,       \* the page that is being read, or that was read last
    calls,      \* pages and purges so far
    purged      \* history: tasks that had a message in a stream that was purged

adminVars == <<group, purge, page, calls, purged>>
qaVars == <<vars, adminVars>>

(* GetQueueInfo in its order: that is what the API and the page of one queue *)
(* show; handleQueues asks again for two of the numbers, and a page of one  *)
(* group first looks for the group.                                         *)
RetryFirst ==   \* mutant
    <<"retry", "stream", "pending", "dlq", "stats", "scheduled">>
QueueInfo == <<"stream", "pending", "dlq", "stats", "scheduled", "retry">>

PageReads == [queues |-> QueueInfo \o <<"scheduled", "retry">>,
              group  |-> <<"groups">> \o QueueInfo]

Counts == [{"groups", "stream", "pending", "dlq", "stats", "scheduled", "retry"} -> Nat]

(* kind and at: what is read next; count: what was read.  The others are    *)
(* history: whether anything but this page touched Redis since it began, or *)
(* a command failed; the tasks that were there all the time, that a         *)
(* scheduler moved, that a worker was about to store when the stream was    *)
(* read, and that were seen.                                                *)
Page == [kind : DOMAIN PageReads, at : Nat, count : Counts,
         quiet : BOOLEAN, failed : BOOLEAN,
         there : SUBSET Tasks, moved : SUBSET Tasks, between : SUBSET Tasks,
         seen : SUBSET Tasks]

NoCounts == [r \in {"groups", "stream", "pending", "dlq", "stats", "scheduled", "retry"} |-> 0]

Closed == [kind |-> "queues", at |-> 0, count |-> NoCounts, quiet |-> TRUE,
           failed |-> FALSE, there |-> {}, moved |-> {}, between |-> {}, seen |-> {}]

Reading == page.at \in 1 .. Len(PageReads[page.kind])
Shown   == page.at > Len(PageReads[page.kind])

QAInit ==
    /\ Init
    /\ group = FALSE
    /\ purge = "off"
    /\ page = Closed
    /\ calls = 0
    /\ purged = {}

-----------------------------------------------------------------------------
(* Where a page finds a task.                                               *)

InStream == {log[id].task : id \in stream}

SeenBy(r) == CASE r = "stream"    -> InStream
               [] r = "dlq"       -> {c.task : c \in dlq}
               [] r = "scheduled" -> scheduled
               [] r = "retry"     -> {c.task : c \in retry}
               [] OTHER           -> {}

Stored == UNION {SeenBy(r) : r \in {"stream", "dlq", "scheduled", "retry"}}

(* Tasks on their way from the stream to another key. *)
Between == {log[cur[th]].task : th \in {x \in Threads :
               phase[x] = "final" /\ verdict[x] \in {"retry", "dead"}}}

(* XPENDING fails without a group, and the failure counts as zero. *)
CountOf(r) == CASE r = "groups"    -> IF group THEN 1 ELSE 0
                [] r = "stream"    -> Cardinality(stream)
                [] r = "pending"   -> Cardinality(Pending)
                [] r = "dlq"       -> Cardinality(dlq)
                [] r = "stats"     -> completed
                [] r = "scheduled" -> Cardinality(scheduled)
                [] r = "retry"     -> Cardinality(retry)

-----------------------------------------------------------------------------
(* The pages.                                                               *)

OpenPage(kind) ==
    /\ ~Reading
    /\ calls < MaxCalls
    /\ calls' = calls + 1
    /\ page' = [Closed EXCEPT !.kind = kind, !.at = 1, !.there = Stored \cup Between]
    /\ UNCHANGED <<vars, group, purge, purged>>

(* A queue without the group is left out of the page. *)
Advance(r) ==
    page' = IF r = "groups" /\ ~group THEN Closed
            ELSE [page EXCEPT
                     !.at = @ + 1,
                     !.count[r] = CountOf(r),
                     !.seen = @ \cup SeenBy(r),
                     !.between = IF r = "stream" THEN Between ELSE @]

(* An error of XINFO GROUPS or XLEN ends the page, any other one leaves a   *)
(* zero.                                                                    *)
ReadFails(r) ==
    /\ Spend("fault")
    /\ page' = IF r \in {"groups", "stream", "dlq"} THEN Closed
               ELSE [page EXCEPT !.at = @ + 1, !.count[r] = 0, !.failed = TRUE]

ReadNext ==
    LET r == PageReads[page.kind][page.at]
    IN  /\ Reading
        /\ \/ Advance(r) /\ UNCHANGED vars
           \/ ReadFails(r) /\ UNCHANGED <<redisVars, status, threadVars, historyVars>>
        /\ UNCHANGED <<group, purge, calls, purged>>

(* What the page shows. *)
WaitingIsLength == page.count["stream"]   \* mutant
WaitingUnclamped == page.count["stream"] - page.count["pending"]   \* mutant
Waiting == IF page.count["stream"] > page.count["pending"]
           THEN page.count["stream"] - page.count["pending"] ELSE 0

(* Whatever touches Redis while a page is read; afterwards the page is old. *)
WatchPage(moved) ==
    page' = IF Reading
            THEN [page EXCEPT !.quiet = @ /\ redisVars' = redisVars,
                              !.there = @ \cap (Stored' \cup Between'),
                              !.moved = @ \cup moved]
            ELSE Closed

Watch(moved) == WatchPage(moved) /\ UNCHANGED <<purge, calls, purged>>

-----------------------------------------------------------------------------
(* PurgeQueue: DEL of the stream, with the group and its pending entries,   *)
(* and DEL of the statistics.  The next group starts from "0" and gets all  *)
(* that is added from now on.                                               *)
PurgeStream ==
    /\ purge = "off"
    /\ calls < MaxCalls
    /\ calls' = calls + 1
    /\ purge' = "stats"
    /\ stream' = {}
    /\ pel' = [w \in Workers |-> {}]
    /\ lastDelivered' = Len(log)
    /\ group' = FALSE
    /\ purged' = purged \cup InStream
    /\ UNCHANGED <<log, scheduled, retry, dlq, processed, completed, status,
                   threadVars, budget, historyVars>>
    /\ WatchPage({})

PurgeStats ==
    /\ purge = "stats"
    /\ purge' = "off"
    /\ \/ completed' = 0 /\ UNCHANGED budget
       \/ Spend("fault") /\ UNCHANGED completed
    /\ UNCHANGED <<log, stream, lastDelivered, pel, scheduled, retry, dlq,
                   processed, status, threadVars, historyVars, group, calls, purged>>
    /\ WatchPage({})

-----------------------------------------------------------------------------
(* The workers, with a group or without.                                    *)

(* XGROUP CREATE MKSTREAM from "0". *)
RestartFromEnd(w) ==   \* mutant
    /\ status[w] = "off"
    /\ status' = [status EXCEPT ![w] = "recovering"]
    /\ phase' = [th \in Threads |-> IF th[1] = w THEN "ready" ELSE phase[th]]
    /\ group' = TRUE
    /\ lastDelivered' = IF group THEN lastDelivered ELSE Len(log)
    /\ UNCHANGED <<log, stream, pel, scheduled, retry, dlq, processed, completed,
                   batch, cur, verdict, budget, historyVars>>
Restart(w) == Start(w) /\ group' = TRUE

(* NOGROUP is not a transient error: Subscribe returns, and Start. *)
NoGroup(w) ==
    /\ ~group
    /\ status[w] \in {"recovering", "consuming"}
    /\ Idle(Main(w))
    /\ status' = [status EXCEPT ![w] = "closing"]
    /\ phase' = [th \in Threads |->
                    IF th[1] = w /\ Idle(th) THEN "down" ELSE phase[th]]
    /\ UNCHANGED <<redisVars, batch, cur, verdict, budget, historyVars, group>>

ProcessStep(w) ==
    \/ Restart(w)
    \/ NoGroup(w)
    \/ group /\ Fetch(w) /\ UNCHANGED group
    \/ /\ Shutdown(w) \/ MainStops(w) \/ SubscribeFails(w) \/ Crash(w) \/ Exit(w)
       /\ UNCHANGED group

QueueStep ==
    \/ /\ \/ \E t \in Tasks : Enqueue(t) \/ ExpireProcessed(t)
          \/ \E th \in Threads : ThreadStep(th)
       /\ Watch({}) /\ UNCHANGED group
    \/ \E t \in Tasks : EnqueueScheduled(t) /\ Watch({t}) /\ UNCHANGED group
    \/ \E c \in retry : EnqueueRetry(c) /\ Watch({c.task}) /\ UNCHANGED group
    \/ \E w \in Workers : ProcessStep(w) /\ Watch({})

AdminStep ==
    \/ \E kind \in DOMAIN PageReads : OpenPage(kind)
    \/ ReadNext
    \/ PurgeStream
    \/ PurgeStats

QANext == QueueStep \/ AdminStep

QASpec == QAInit /\ [][QANext]_qaVars

-----------------------------------------------------------------------------
(* Every variable has its type, and no page shows a negative number,        *)
(* although what is subtracted was read after what it is subtracted from.   *)
QATypeOK ==
    /\ TypeOK
    /\ group \in BOOLEAN
    /\ ~group => Pending = {}
    /\ purge \in {"off", "stats"}
    /\ page \in Page
    /\ calls \in Nat
    /\ purged \subseteq Tasks
    /\ Waiting \in Nat

(* A page that was read while nothing happened counts every task once, and  *)
(* as "pending" (redis.go:733, "waiting to be picked up") what no worker    *)
(* has been given, together with messages a worker dropped or is about to   *)
(* delete.                                                                  *)
QuietPageIsExact ==
    Shown /\ page.quiet /\ ~page.failed =>
        /\ Waiting = Cardinality(Undelivered) +
                     Cardinality({id \in stream : Delivered(id) /\ id \notin Pending})
        /\ page.count["pending"] = Cardinality(Pending)
        /\ page.count["dlq"] = Cardinality(dlq)
        /\ page.count["stats"] = completed
        /\ page.count["scheduled"] = Cardinality(scheduled)
        /\ page.count["retry"] = Cardinality(retry)

(* A page is not a snapshot, but it reads the keys in the order in which    *)
(* workers move tasks: of the tasks that existed all the time, it misses    *)
(* only those that a scheduler moved back to the stream meanwhile, and      *)
(* those that a worker had just taken out of the stream.                    *)
PageMissesOnlyMoved ==
    Shown /\ ~page.failed => page.there \subseteq page.seen \cup page.moved \cup page.between

(* PurgeQueue loses the tasks of the stream and no others: what is          *)
(* scheduled, waits for a retry, is dead, or is published from then on, be  *)
(* it while the group does not exist, is kept.  Where a message is claimed  *)
(* from a slow handler and skipped, only that handler has the task, and a   *)
(* purge that ends its worker can take it after all.  The comments of       *)
(* redis.go:852 and broker.go:78, "removes all tasks from a queue", say     *)
(* otherwise: the code leaves the other keys of the queue alone.            *)
PurgeTakesOnlyTheStream ==
    NoFaultYet /\ ~SlowHandlers =>
        \A t \in Tasks \ (Undecodable \cup purged) : Published(t) => Kept(t)

=============================================================================
