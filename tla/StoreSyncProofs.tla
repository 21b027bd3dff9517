--------------------------- MODULE StoreSyncProofs ---------------------------
(***************************************************************************)
(* Theorems of StoreSync, for every set of tasks, workers and requests:    *)
(* the types; a row never tells more than Redis knows; a unique key admits *)
(* one task at a time; and, while nothing fails, the row of such a task    *)
(* says where the task is once its writers are done.                       *)
(*                                                                         *)
(* Beside the store, Redis and the workers do what they do in DeadLetter,  *)
(* so the first lemma sorts the steps by what they do there.               *)
(***************************************************************************)
EXTENDS StoreSync, DeadLetterProofs, DeliveryKeeps

-----------------------------------------------------------------------------
(* What the steps do to Redis, to the workers and to the requests.          *)

(* The steps of Delivery but for those of the producer. *)
Works ==
    \/ \E t \in Tasks : ExpireProcessed(t)
    \/ Scheduler
    \/ \E w \in Workers : Fetch(w) \/ Process(w)
    \/ \E th \in Threads : ThreadStep(th)

WorkersStep ==
    /\ Works
    /\ raced' \subseteq Tasks
    /\ UNCHANGED <<todo, calls, requests, purged>>

Publishes(t) ==
    /\ producer[t] = "publish"
    /\ producer' = [producer EXCEPT ![t] = "create"]
    /\ Enqueue(t)
    /\ UNCHANGED apiVars

RequestStep ==
    \/ \E q \in Requests : Serve(q)
    \/ \E k \in calls : RetryFromDLQ(k)
    \/ PurgeDLQ

Spends(kind) ==
    /\ Spend(kind)
    /\ UNCHANGED <<redisVars, status, threadVars, historyVars, apiVars>>

EditStep == Receive /\ UNCHANGED <<vars, todo, calls, purged, raced>>

(* The steps of a goroutine are those of Delivery. *)
LEMMA WorkWorks ==
    ASSUME NEW th \in Threads, Work(th) \/ StoreCopy(th)
    PROVE  ThreadStep(th)
<1>1. CASE Work(th)
  BY <1>1 DEF Work, ThreadStep, Begin, Pipeline
<1>2. CASE StoreCopy(th)
  BY <1>2 DEF StoreCopy, ThreadStep, Pipeline
<1>3. QED
  BY <1>1, <1>2

(* So are those of all processes, of the scheduler and of the key's TTL. *)
LEMMA WorkloadWorks == Workload => Works
<1> SUFFICES ASSUME Workload PROVE Works
  OBVIOUS
<1>1. CASE \E th \in Threads : Work(th) \/ StoreCopy(th)
  BY <1>1, WorkWorks DEF Works
<1>2. CASE \E w \in Workers : FetchNext(w) \/ Host(w)
  BY <1>2 DEF Works, FetchNext, Host, Fetch, Process
<1>3. CASE Tick
  BY <1>3 DEF Works, Tick, Scheduler
<1>4. CASE \E t \in Tasks : ExpireProcessed(t)
  BY <1>4 DEF Works
<1>5. QED
  BY <1>1, <1>2, <1>3, <1>4 DEF Workload

(* Every step is one of Delivery or DeadLetter, or leaves both alone but    *)
(* for an event or a request it spends.                                     *)
LEMMA StepKinds ==
    ASSUME DLTypeOK, [SSNext]_ssVars
    PROVE  \/ WorkersStep
           \/ \E t \in Tasks : Publishes(t)
           \/ RequestStep
           \/ \E kind \in EventKinds : Spends(kind)
           \/ EditStep
           \/ UNCHANGED dlVars
<1> DEFINE Goal ==
           \/ WorkersStep
           \/ \E t \in Tasks : Publishes(t)
           \/ RequestStep
           \/ \E kind \in EventKinds : Spends(kind)
           \/ EditStep
           \/ UNCHANGED dlVars
<1>1. CASE Workload
  <2>1. Works
    BY <1>1, WorkloadWorks
  <2>2. /\ raced' = raced \cup {t \in Tasks : Reviving(t) /\ Skips(t)}
        /\ UNCHANGED <<todo, calls, requests, purged>>
    BY <1>1 DEF Workload
  <2>3. QED
    BY <2>1, <2>2 DEF DLTypeOK, WorkersStep
<1>2. CASE Operator
  <2>1. CASE \E q \in Requests : RetryTask(q) \/ RetryAllDead(q) \/ Find(q) \/ Abandon(q)
    BY <2>1 DEF RequestStep, Serve
  <2>2. CASE PurgeDLQ
    BY <2>2 DEF RequestStep
  <2>3. CASE \E k \in calls : Revive(k)
    BY <2>3 DEF RequestStep, Revive, RetryFromDLQ
  <2>4. QED
    BY <1>2, <2>1, <2>2, <2>3 DEF Operator
<1>3. ASSUME NEW m \in marks, MarkPending(m) \/ MarkFails(m) PROVE Goal
  BY <1>3 DEF MarkPending, MarkFails, Spends, EventKinds
<1>4. ASSUME NEW t \in Tasks,
             \/ BeginEnqueue(t) \/ Publish(t) \/ CreateTask(t) \/ EnqueueFails(t)
             \/ Cancel(t) \/ DeleteTask(t)
      PROVE  Goal
  <2>1. CASE BeginEnqueue(t) \/ CreateTask(t)
    BY <2>1 DEF BeginEnqueue, CreateTask
  <2>2. CASE Publish(t)
    BY <2>2 DEF Publish, Publishes
  <2>3. CASE EnqueueFails(t)
    BY <2>3 DEF EnqueueFails, Spends, EventKinds
  <2>4. CASE Cancel(t) \/ DeleteTask(t)
    BY <2>4 DEF Cancel, DeleteTask, Edit, EditStep
  <2>5. QED
    BY <1>4, <2>1, <2>2, <2>3, <2>4
<1>5. ASSUME NEW th \in Threads, UpdateRow(th) \/ InsertRow(th) \/ WriteFails(th) PROVE Goal
  <2>1. CASE UpdateRow(th) \/ InsertRow(th)
    BY <2>1 DEF UpdateRow, InsertRow
  <2>2. CASE WriteFails(th)
    <3>1. CASE UNCHANGED budget
      BY <2>2, <3>1 DEF WriteFails, dlVars, vars
    <3>2. CASE Spend("fault")
      BY <2>2, <3>2 DEF WriteFails, Spends, EventKinds
    <3>3. QED
      BY <2>2, <3>1, <3>2 DEF WriteFails
  <2>3. QED
    BY <1>5, <2>1, <2>2
<1>6. CASE ExpireUnique
  BY <1>6 DEF ExpireUnique, Spends, EventKinds
<1>7. CASE DeleteOldTasks
  BY <1>7 DEF DeleteOldTasks, Edit, EditStep
<1>8. CASE UNCHANGED ssVars
  BY <1>8 DEF ssVars
<1>9. QED
  BY <1>1, <1>2, <1>3, <1>4, <1>5, <1>6, <1>7, <1>8 DEF SSNext

(* Whatever the store does, Redis and the workers keep their types and the  *)
(* attempts stay bounded.                                                   *)
LEMMA RedisStep ==
    ASSUME DLTypeOK, AttemptInv, [SSNext]_ssVars
    PROVE  DLTypeOK' /\ AttemptInv'
<1> TypeOK
  BY DEF DLTypeOK
<1>1. CASE WorkersStep
  <2>1. Next
    BY <1>1 DEF WorkersStep, Works, Next
  <2>2. TypeOK' /\ AttemptInv'
    BY <2>1, TypeStep, AttemptStep
  <2>3. QED
    BY <1>1, <2>2 DEF WorkersStep, DLTypeOK
<1>2. ASSUME NEW t \in Tasks, Publishes(t) PROVE DLTypeOK' /\ AttemptInv'
  <2>1. Next
    BY <1>2 DEF Publishes, Next
  <2>2. TypeOK' /\ AttemptInv'
    BY <2>1, TypeStep, AttemptStep
  <2>3. QED
    BY <1>2, <2>2 DEF Publishes, apiVars, DLTypeOK
<1>3. CASE RequestStep \/ UNCHANGED dlVars
  <2>1. [DLNext]_dlVars
    BY <1>3 DEF RequestStep, DLNext
  <2>2. QED
    BY <2>1, DLTypeStep, DLAttemptStep
<1>4. ASSUME NEW kind \in EventKinds, Spends(kind) PROVE DLTypeOK' /\ AttemptInv'
  <2>1. budget' \in [EventKinds -> Nat]
    BY <1>4, SpendType DEF Spends, TypeOK
  <2>2. /\ UNCHANGED <<redisVars, status, threadVars, historyVars>>
        /\ UNCHANGED <<todo, calls, requests, purged, raced>>
    BY <1>4 DEF Spends, apiVars
  <2>3. TypeOK'
    BY <2>1, <2>2 DEF TypeOK, redisVars, threadVars, historyVars, Ids
  <2>4. AttemptInv'
    BY <2>2 DEF AttemptInv, AttemptsBounded, VerdictsBounded, Ids, redisVars, threadVars
  <2>5. QED
    BY <2>2, <2>3, <2>4 DEF DLTypeOK
<1>5. CASE EditStep
  <2>1. UNCHANGED vars /\ UNCHANGED <<todo, calls, purged, raced>>
    BY <1>5 DEF EditStep
  <2>2. TypeOK' /\ AttemptInv'
    BY <2>1, TypeStep, AttemptStep
  <2>3. requests' \in 0 .. MaxRequests
    BY <1>5, RequestsAssumption DEF EditStep, Receive, DLTypeOK
  <2>4. QED
    BY <2>1, <2>2, <2>3 DEF DLTypeOK
<1>6. QED
  BY <1>1, <1>2, <1>3, <1>4, <1>5, StepKinds

-----------------------------------------------------------------------------
(* Types.                                                                   *)

Jobs == [at : {"update", "insert"}, task : Tasks, state : States \ {"none"}]

StoreTypes ==
    /\ producer \in [Tasks -> {"idle", "publish", "create"}]
    /\ unique \in BOOLEAN
    /\ row \in [Tasks -> [state : States, ended : BOOLEAN]]
    /\ job \in [Threads -> {NoJob} \cup Jobs]
    /\ edited \subseteq Tasks
    /\ single \subseteq Requests
    /\ marks \subseteq [by : Requests, task : Tasks]
    /\ revival \in [Tasks -> SUBSET {"overtaking", "marking", "silent"}]
    /\ expiries \in Nat

(* A goroutine whose write has begun waits for it. *)
LEMMA JobType ==
    ASSUME StoreTypes, NEW th \in Threads, ~AtRest(th)
    PROVE  /\ job[th] \in Jobs
           /\ job[th].at \in {"update", "insert"}
           /\ job[th].task \in Tasks
           /\ job[th].state \in States \ {"none"}
<1>1. job[th] \in Jobs
  BY DEF StoreTypes, AtRest
<1>2. QED
  BY <1>1 DEF Jobs

(* The write a goroutine begins for a message. *)
LEMMA ThenType ==
    ASSUME TypeOK, StoreTypes, NEW th \in Threads, NEW id \in Ids,
           NEW state \in States \ {"none"}, Then(th, log[id].task, state)
    PROVE  job' \in [Threads -> {NoJob} \cup Jobs]
<1>1. Write(log[id].task, state) \in Jobs
  BY EntryType DEF Write, Jobs
<1>2. QED
  BY <1>1 DEF Then, StoreTypes

(* An INSERT leaves the rows well formed. *)
LEMMA InsertType ==
    ASSUME StoreTypes, NEW t \in Tasks, NEW state \in States, Insert(t, state)
    PROVE  row' \in [Tasks -> [state : States, ended : BOOLEAN]]
<1>1. [state |-> state, ended |-> FALSE] \in [state : States, ended : BOOLEAN]
  OBVIOUS
<1>2. QED
  BY <1>1 DEF Insert, StoreTypes

(* The writes that the steps of the workers begin. *)
LEMMA WorkloadJobs ==
    ASSUME TypeOK, StoreTypes, Workload
    PROVE  job' \in [Threads -> {NoJob} \cup Jobs]
<1> DEFINE Goal == job' \in [Threads -> {NoJob} \cup Jobs]
<1>1. CASE UNCHANGED job
  BY <1>1 DEF StoreTypes
<1>2. ASSUME NEW th \in Threads, NEW id \in batch[th], Then(th, log[id].task, "active")
      PROVE  Goal
  <2>1. id \in Ids /\ "active" \in States \ {"none"}
    BY DEF TypeOK, States
  <2>2. QED
    BY <1>2, <2>1, ThenType
<1>3. ASSUME NEW th \in Threads, Succeed(th), Then(th, log[cur[th]].task, "completed")
      PROVE  Goal
  <2>1. cur[th] \in Ids /\ "completed" \in States \ {"none"}
    BY <1>3, CurType DEF Succeed, States, Final
  <2>2. QED
    BY <1>3, <2>1, ThenType
<1>4. ASSUME NEW th \in Threads, StoreCopy(th) PROVE Goal
  <2>1. cur[th] \in Ids /\ {"retry", "dead"} \subseteq States \ {"none"}
    BY <1>4, CurType DEF StoreCopy, AddRetry, AddDead, States, Final
  <2>2. QED
    BY <1>4, <2>1, ThenType DEF StoreCopy
<1>5. ASSUME NEW w \in Workers, Host(w) PROVE Goal
  BY <1>5 DEF Host, StoreTypes
<1>6. ASSUME NEW th \in Threads, Work(th) PROVE Goal
  BY <1>1, <1>2, <1>3, <1>6 DEF Work
<1>7. QED
  BY <1>1, <1>4, <1>5, <1>6 DEF Workload, FetchNext, Tick

(* Every step keeps the types of the store. *)
LEMMA StoreTypeStep ==
    ASSUME DLTypeOK, StoreTypes, [SSNext]_ssVars
    PROVE  StoreTypes'
<1> TypeOK
  BY DEF DLTypeOK
<1>1. CASE Workload
  BY <1>1, WorkloadJobs DEF Workload, StoreTypes, markVars
<1>2. CASE Operator
  <2>1. UNCHANGED <<producer, unique, row, job, edited, expiries>>
    BY <1>2 DEF Operator
  <2>2. /\ single' \subseteq Requests
        /\ marks' \subseteq [by : Requests, task : Tasks]
        /\ revival' \in [Tasks -> SUBSET {"overtaking", "marking", "silent"}]
    <3>1. CASE UNCHANGED markVars
      BY <3>1 DEF StoreTypes, markVars
    <3>2. ASSUME NEW q \in Requests, single' \in {single \cup {q}, single \ {q}},
                 UNCHANGED <<marks, revival>>
          PROVE  <2>2
      BY <3>2 DEF StoreTypes
    <3>3. ASSUME NEW k \in calls, Revive(k), UNCHANGED single PROVE <2>2
      <4>1. k.by \in Requests /\ k.copy.task \in Tasks
        BY DEF DLTypeOK, Call, RetryCopy
      <4>2. Way(k) \in {"overtaking", "marking", "silent"}
        BY DEF Way
      <4>3. QED
        BY <3>3, <4>1, <4>2 DEF Revive, StoreTypes
    <3>4. QED
      BY <1>2, <3>1, <3>2, <3>3 DEF Operator
  <2>3. QED
    BY <2>1, <2>2 DEF StoreTypes
<1>3. ASSUME NEW m \in marks, MarkPending(m) \/ MarkFails(m) PROVE StoreTypes'
  <2>1. "pending" \in States
    BY DEF States
  <2>2. row' \in [Tasks -> [state : States, ended : BOOLEAN]]
    BY <1>3, <2>1 DEF MarkPending, MarkFails, StoreTypes
  <2>3. QED
    BY <1>3, <2>2 DEF MarkPending, MarkFails, StoreTypes
<1>4. ASSUME NEW t \in Tasks, BeginEnqueue(t) \/ Publish(t) \/ EnqueueFails(t)
      PROVE  StoreTypes'
  <2>1. /\ producer' \in [Tasks -> {"idle", "publish", "create"}]
        /\ UNCHANGED <<row, job, edited, markVars, expiries>>
    BY <1>4 DEF BeginEnqueue, Publish, EnqueueFails, StoreTypes
  <2>2. unique' \in BOOLEAN
    BY <1>4 DEF BeginEnqueue, SetUnique, Publish, EnqueueFails, StoreTypes
  <2>3. QED
    BY <2>1, <2>2 DEF StoreTypes, markVars
<1>5. ASSUME NEW t \in Tasks, CreateTask(t) PROVE StoreTypes'
  <2>1. {"scheduled", "pending"} \subseteq States
    BY DEF States
  <2>2. row' \in [Tasks -> [state : States, ended : BOOLEAN]]
    BY <1>5, <2>1, InsertType DEF CreateTask
  <2>3. QED
    BY <1>5, <2>2 DEF CreateTask, StoreTypes, markVars
<1>6. ASSUME NEW t \in Tasks, Cancel(t) \/ DeleteTask(t) PROVE StoreTypes'
  <2>1. {[state |-> "cancelled", ended |-> TRUE], NoRow} \subseteq
            [state : States, ended : BOOLEAN]
    BY DEF States, Final, NoRow
  <2>2. row' \in [Tasks -> [state : States, ended : BOOLEAN]]
    BY <1>6, <2>1 DEF Cancel, DeleteTask, StoreTypes
  <2>3. QED
    BY <1>6, <2>2 DEF Cancel, DeleteTask, Edit, StoreTypes, markVars
<1>7. ASSUME NEW th \in Threads, UpdateRow(th) \/ InsertRow(th) PROVE StoreTypes'
  <2>1. job[th].at \in {"update", "insert"} /\ ~AtRest(th)
    BY <1>7 DEF UpdateRow, InsertRow, AtRest, NoJob
  <2>2. /\ job[th] \in Jobs
        /\ job[th].task \in Tasks
        /\ job[th].state \in States \ {"none"}
    BY <2>1, JobType
  <2>3. row' \in [Tasks -> [state : States, ended : BOOLEAN]]
    <3>1. CASE UpdateRow(th)
      <4> DEFINE new == [state |-> job[th].state, ended |-> job[th].state \in Final]
      <4>1. new \in [state : States, ended : BOOLEAN]
        BY <2>2
      <4>2. row' = row \/ row' = [row EXCEPT ![job[th].task] = new]
        BY <3>1 DEF UpdateRow
      <4> HIDE DEF new
      <4>3. QED
        BY <2>2, <4>1, <4>2 DEF StoreTypes
    <3>2. CASE InsertRow(th)
      BY <2>2, <3>2, InsertType DEF InsertRow
    <3>3. QED
      BY <1>7, <3>1, <3>2
  <2>4. job' \in [Threads -> {NoJob} \cup Jobs]
    <3>1. [job[th] EXCEPT !.at = "insert"] \in Jobs
      BY <2>2 DEF Jobs
    <3>2. job' \in {[job EXCEPT ![th] = NoJob],
                    [job EXCEPT ![th] = [job[th] EXCEPT !.at = "insert"]]}
      BY <1>7 DEF UpdateRow, InsertRow, StoreTypes
    <3>3. QED
      BY <3>1, <3>2 DEF StoreTypes
  <2>5. QED
    BY <1>7, <2>3, <2>4 DEF UpdateRow, InsertRow, StoreTypes, markVars
<1>8. ASSUME NEW th \in Threads, WriteFails(th) PROVE StoreTypes'
  BY <1>8 DEF WriteFails, StoreTypes, markVars
<1>9. CASE ExpireUnique
  <2>1. expiries' \in Nat
    BY <1>9 DEF ExpireUnique, StoreTypes
  <2>2. QED
    BY <1>9, <2>1 DEF ExpireUnique, StoreTypes, markVars
<1>10. CASE DeleteOldTasks
  <2>1. NoRow \in [state : States, ended : BOOLEAN]
    BY DEF NoRow, States
  <2>2. row' \in [Tasks -> [state : States, ended : BOOLEAN]]
    BY <1>10, <2>1 DEF DeleteOldTasks, StoreTypes
  <2>3. QED
    BY <1>10, <2>2 DEF DeleteOldTasks, Edit, StoreTypes, markVars
<1>11. CASE UNCHANGED ssVars
  BY <1>11 DEF ssVars, storeVars, markVars, StoreTypes
<1>12. QED
  BY <1>1, <1>2, <1>3, <1>4, <1>5, <1>6, <1>7, <1>8, <1>9, <1>10, <1>11 DEF SSNext

SSShape == DLTypeOK /\ AttemptInv /\ StoreTypes

(* Nothing is stored, written or asked for at first. *)
LEMMA ShapeInit == SSInit => SSShape
<1> SUFFICES ASSUME SSInit PROVE SSShape
  OBVIOUS
<1>1. DLTypeOK
  BY TypeInit, RequestsAssumption DEF SSInit, DLInit, DLTypeOK
<1>2. AttemptInv
  BY DEF SSInit, DLInit, Init, AttemptInv, AttemptsBounded, VerdictsBounded, Ids
<1>3. "none" \in States
  BY DEF States
<1>4. StoreTypes
  BY <1>3 DEF SSInit, StoreTypes, NoRow
<1>5. QED
  BY <1>1, <1>2, <1>4 DEF SSShape

(* Every step keeps the types and the bounds on attempts. *)
LEMMA ShapeStep == SSShape /\ [SSNext]_ssVars => SSShape'
BY RedisStep, StoreTypeStep DEF SSShape

(* Rows, writes, marks and producers keep their types beside what workers   *)
(* and requests do.                                                         *)
THEOREM StoreTypesHold == SSSpec => []SSTypeOK
<1>1. SSShape => SSTypeOK
  BY DEF SSShape, StoreTypes, Jobs, SSTypeOK
<1>2. QED
  BY <1>1, ShapeInit, ShapeStep, PTL DEF SSSpec

-----------------------------------------------------------------------------
(* What a row may tell of a task.  A write that waits is as old as the row  *)
(* it will become, so that both have to be known to Redis; what Redis knows *)
(* it does not forget, but for deaths that are purged or revived.           *)

Known(t, state) ==
    /\ state = "completed" => successes[t] > 0
    /\ state = "dead" =>
          \/ \E c \in dlq : c.task = t
          \/ t \in purged \/ revival[t] # {}
    /\ state = "retry" => Retried(t)

RowsKnown == \A t \in Tasks : Known(t, row[t].state)
JobsKnown == \A th \in Threads : ~AtRest(th) => Known(job[th].task, job[th].state)

(* The workers, the scheduler and the producer forget no success and no     *)
(* death, and a copy leaves the retry set for the stream.                   *)
LEMMA NothingForgotten ==
    ASSUME TypeOK, [Next]_vars
    PROVE  /\ \A t \in Tasks : successes[t] > 0 => successes'[t] > 0
           /\ dlq \subseteq dlq'
           /\ retry \subseteq retry' \/ \E c \in retry : EnqueueRetry(c)
<1> DEFINE Goal ==
           /\ \A t \in Tasks : successes[t] > 0 => successes'[t] > 0
           /\ dlq \subseteq dlq'
           /\ retry \subseteq retry' \/ \E c \in retry : EnqueueRetry(c)
<1>1. CASE UNCHANGED <<successes, dlq, retry>>
  BY <1>1
<1>2. ASSUME NEW c \in retry, EnqueueRetry(c) PROVE Goal
  BY <1>2 DEF EnqueueRetry, historyVars
<1>3. ASSUME NEW th \in Threads, Succeed(th) PROVE Goal
  <2>1. cur[th] \in Ids /\ log[cur[th]].task \in Tasks
    BY <1>3, CurType, EntryType DEF Succeed
  <2>2. /\ successes' = [successes EXCEPT ![log[cur[th]].task] = @ + 1]
        /\ UNCHANGED <<dlq, retry>>
    BY <1>3 DEF Succeed, redisVars
  <2>3. \A t \in Tasks : successes[t] > 0 => successes'[t] > 0
    BY <2>1, <2>2 DEF TypeOK
  <2>4. QED
    BY <2>2, <2>3
<1>4. ASSUME NEW th \in Threads, AddRetry(th) \/ AddDead(th) PROVE Goal
  BY <1>4 DEF AddRetry, AddDead, historyVars
<1>5. ASSUME NEW t \in Tasks, Enqueue(t) \/ ExpireProcessed(t) \/ EnqueueScheduled(t)
      PROVE  Goal
  BY <1>1, <1>5 DEF Enqueue, ExpireProcessed, EnqueueScheduled, historyVars
<1>6. ASSUME NEW w \in Workers, Fetch(w) \/ Process(w) PROVE Goal
  BY <1>1, <1>6
  DEF Fetch, Consume, RecoverOwnPending, ClaimStale, Process, Start, Shutdown, MainStops,
      SubscribeFails, Crash, Exit, Terminate, redisVars, historyVars
<1>7. ASSUME NEW th \in Threads, Begin(th) PROVE Goal
  BY <1>1, <1>7
  DEF Begin, DropInvalid, BeginRetry, BeginFirst, SkipProcessed, BeginFailOpen,
      redisVars, historyVars
<1>8. ASSUME NEW th \in Threads,
             Fail(th) \/ XAck(th) \/ XDel(th) \/ CountCompleted(th) \/ PipelineError(th)
      PROVE  Goal
  BY <1>1, <1>8 DEF Fail, XAck, XDel, CountCompleted, PipelineError, redisVars, historyVars
<1>9. CASE UNCHANGED vars
  BY <1>1, <1>9 DEF vars, redisVars, historyVars
<1>10. QED
  BY <1>2, <1>3, <1>4, <1>5, <1>6, <1>7, <1>8, <1>9
  DEF Next, Scheduler, ThreadStep, Pipeline

(* A retry leaves the retry set for the log, with its RetryCount. *)
LEMMA RetriedStays ==
    ASSUME TypeOK, AttemptInv, [Next]_vars, NEW t \in Tasks, Retried(t)
    PROVE  Retried(t)'
<1>1. CASE \E id \in Ids : log[id].task = t /\ log[id].rc > 0
  BY <1>1, EntriesStay DEF Retried
<1>2. ASSUME NEW c \in retry, c.task = t PROVE Retried(t)'
  <2>1. CASE retry \subseteq retry'
    BY <1>2, <2>1 DEF Retried
  <2>2. ASSUME NEW d \in retry, EnqueueRetry(d) PROVE Retried(t)'
    <3>1. CASE c # d
      BY <1>2, <2>2, <3>1 DEF EnqueueRetry, Retried
    <3>2. CASE c = d
      <4>1. c.rc \in Nat /\ c.rc > 0
        <5>1. c.rc \in 1 .. MaxRetry - 1
          BY <1>2 DEF AttemptInv, AttemptsBounded
        <5>2. QED
          BY <5>1, ConstantsAssumption
      <4>2. XAdd(t, c.rc, c.task \notin Undecodable) /\ (c.task \notin Undecodable) \in BOOLEAN
        BY <1>2, <2>2, <3>2 DEF EnqueueRetry
      <4>3. /\ Len(log) + 1 \in Ids'
            /\ log'[Len(log) + 1].task = t
            /\ log'[Len(log) + 1].rc = c.rc
        <5>1. /\ Ids' = Ids \cup {Len(log) + 1}
              /\ log'[Len(log) + 1] =
                    [task |-> t, rc |-> c.rc, ok |-> c.task \notin Undecodable]
          BY <4>1, <4>2, XAddType DEF TypeOK
        <5>2. QED
          BY <5>1
      <4>4. QED
        BY <4>1, <4>3 DEF Retried
    <3>3. QED
      BY <3>1, <3>2
  <2>3. QED
    BY <2>1, <2>2, NothingForgotten
<1>3. QED
  BY <1>1, <1>2 DEF Retried

(* Deaths, successes and retries stay known. *)
LEMMA KnownFrame ==
    ASSUME NEW t \in Tasks, NEW s, Known(t, s),
           UNCHANGED <<log, retry, dlq, successes, purged, revival>>
    PROVE  Known(t, s)'
BY DEF Known, Retried, Ids

(* What is known stays known whatever workers, producers, requests and the  *)
(* store do.                                                                *)
LEMMA KnownStays ==
    ASSUME SSShape, [SSNext]_ssVars, NEW t \in Tasks, NEW s, Known(t, s)
    PROVE  Known(t, s)'
<1> TypeOK /\ DLTypeOK /\ AttemptInv /\ StoreTypes
  BY DEF SSShape, DLTypeOK
<1>1. CASE Workload \/ \E u \in Tasks : Publish(u)
  <2>1. Works \/ \E u \in Tasks : Enqueue(u)
    BY <1>1, WorkloadWorks DEF Publish
  <2>2. Next
    BY <2>1 DEF Works, Next
  <2>3. UNCHANGED <<purged, revival>>
    BY <1>1 DEF Workload, Publish, apiVars, markVars
  <2>4. Retried(t) => Retried(t)'
    BY <2>2, RetriedStays
  <2>5. QED
    BY <2>2, <2>3, <2>4, NothingForgotten DEF Known
<1>2. CASE Operator
  <2>1. ASSUME NEW k \in calls, XDelDead(k),
               revival' = [revival EXCEPT ![k.copy.task] = @ \cup {Way(k)}]
        PROVE  Known(t, s)'
    <3>1. /\ UNCHANGED <<log, retry, successes, purged>>
          /\ dlq' = dlq \ {k.copy}
      BY <2>1 DEF XDelDead, historyVars
    <3>2. /\ revival[t] # {} => revival'[t] # {}
          /\ k.copy.task = t => revival'[t] # {}
      BY <2>1 DEF StoreTypes
    <3>3. Retried(t) => Retried(t)'
      BY <3>1 DEF Retried, Ids
    <3>4. QED
      BY <3>1, <3>2, <3>3 DEF Known
  <2>2. ASSUME NEW k \in calls, XAddRevived(k), UNCHANGED revival PROVE Known(t, s)'
    <3>1. /\ UNCHANGED <<retry, dlq, successes, purged>>
          /\ XAdd(k.copy.task, 0, TRUE)
      BY <2>2 DEF XAddRevived, historyVars
    <3>2. k.copy.task \in Tasks
      BY DEF DLTypeOK, Call, RetryCopy
    <3>3. Ids \subseteq Ids' /\ \A id \in Ids : log'[id] = log[id]
      BY <3>1, <3>2, XAddType DEF TypeOK
    <3>4. QED
      BY <2>2, <3>1, <3>3 DEF Known, Retried
  <2>3. ASSUME NEW k \in calls, CallFails(k) \/ ClearProcessed(k), UNCHANGED revival
        PROVE  Known(t, s)'
    BY <2>3, KnownFrame DEF CallFails, ClearProcessed, redisVars, historyVars
  <2>4. ASSUME NEW q \in Requests,
               RetryTask(q) \/ RetryAllDead(q) \/ Find(q) \/ Abandon(q), UNCHANGED revival
        PROVE  Known(t, s)'
    BY <2>4, KnownFrame
    DEF RetryTask, RetryAllDead, Find, Abandon, vars, redisVars, historyVars
  <2>5. CASE PurgeDLQ /\ UNCHANGED revival
    <3>1. /\ UNCHANGED <<log, retry, successes, revival>>
          /\ purged' = purged \cup {c.task : c \in dlq}
      BY <2>5 DEF PurgeDLQ, historyVars
    <3>2. QED
      BY <3>1 DEF Known, Retried, Ids
  <2>6. QED
    BY <1>2, <2>1, <2>2, <2>3, <2>4, <2>5 DEF Operator, Revive, markVars
<1>3. ASSUME NEW m \in marks, MarkPending(m) \/ MarkFails(m) PROVE Known(t, s)'
  BY <1>3, KnownFrame
  DEF MarkPending, MarkFails, dlVars, vars, redisVars, historyVars, apiVars
<1>4. ASSUME NEW u \in Tasks,
             \/ BeginEnqueue(u) \/ CreateTask(u) \/ EnqueueFails(u)
             \/ Cancel(u) \/ DeleteTask(u)
      PROVE  Known(t, s)'
  BY <1>4, KnownFrame
  DEF BeginEnqueue, CreateTask, EnqueueFails, Cancel, DeleteTask, Edit,
      dlVars, vars, redisVars, historyVars, apiVars, markVars
<1>5. ASSUME NEW th \in Threads, UpdateRow(th) \/ InsertRow(th) \/ WriteFails(th)
      PROVE  Known(t, s)'
  BY <1>5, KnownFrame
  DEF UpdateRow, InsertRow, WriteFails, dlVars, vars, redisVars, historyVars, apiVars,
      markVars
<1>6. CASE ExpireUnique \/ DeleteOldTasks
  BY <1>6, KnownFrame
  DEF ExpireUnique, DeleteOldTasks, Edit, vars, redisVars, historyVars, apiVars, markVars
<1>7. CASE UNCHANGED ssVars
  BY <1>7, KnownFrame
  DEF ssVars, dlVars, vars, redisVars, historyVars, apiVars, storeVars, markVars
<1>8. QED
  BY <1>1, <1>2, <1>3, <1>4, <1>5, <1>6, <1>7 DEF SSNext

(* A write that begins tells what the goroutine has just told Redis. *)
LEMMA WritesTell ==
    ASSUME SSShape, JobsKnown, [SSNext]_ssVars, NEW th \in Threads, ~AtRest(th)'
    PROVE  Known(job[th].task, job[th].state)'
<1> TypeOK /\ DLTypeOK /\ StoreTypes
  BY DEF SSShape, DLTypeOK
<1> DEFINE Goal == Known(job[th].task, job[th].state)'
           Kept1 == /\ ~AtRest(th)
                    /\ job'[th].task = job[th].task
                    /\ job'[th].state = job[th].state
<1>1. CASE Kept1
  <2>1. Known(job[th].task, job[th].state) /\ job[th].task \in Tasks
    BY <1>1, JobType DEF JobsKnown
  <2>2. QED
    BY <1>1, <2>1, KnownStays
<1>2. CASE UNCHANGED job
  BY <1>1, <1>2 DEF AtRest
<1>3. CASE Workload
  <2>1. ASSUME NEW u \in Threads, NEW t, NEW s, Then(u, t, s)
        PROVE  /\ th # u => Kept1
               /\ th = u => job'[th].task = t /\ job'[th].state = s
    BY <2>1 DEF Then, Write, StoreTypes, AtRest
  <2>2. ASSUME NEW u \in Threads, NEW t, Then(u, t, "active") PROVE Goal
    BY <1>1, <2>1, <2>2 DEF Known
  <2>3. ASSUME NEW u \in Threads, Succeed(u), Then(u, log[cur[u]].task, "completed")
        PROVE  Goal
    <3>1. cur[u] \in Ids /\ log[cur[u]].task \in Tasks
      BY <2>3, CurType, EntryType DEF Succeed
    <3>2. successes'[log[cur[u]].task] > 0
      BY <2>3, <3>1 DEF Succeed, TypeOK
    <3>3. QED
      BY <1>1, <2>1, <2>3, <3>2 DEF Known
  <2>4. ASSUME NEW u \in Threads, StoreCopy(u) PROVE Goal
    <3>1. CASE AddRetry(u) /\ Then(u, log[cur[u]].task, "retry")
      <4>1. Copy(u) \in retry' /\ Copy(u).task = log[cur[u]].task
        BY <3>1 DEF AddRetry, Copy
      <4>2. \E c \in retry' : c.task = log[cur[u]].task
        BY <4>1
      <4>3. QED
        BY <1>1, <2>1, <3>1, <4>2 DEF Known, Retried
    <3>2. CASE AddDead(u) /\ Then(u, log[cur[u]].task, "dead")
      <4>1. Copy(u) \in dlq' /\ Copy(u).task = log[cur[u]].task
        BY <3>2 DEF AddDead, Copy
      <4>2. \E c \in dlq' : c.task = log[cur[u]].task
        BY <4>1
      <4>3. QED
        BY <1>1, <2>1, <3>2, <4>2 DEF Known
    <3>3. QED
      BY <2>4, <3>1, <3>2 DEF StoreCopy
  <2>5. ASSUME NEW w \in Workers, Host(w) PROVE Goal
    <3>1. CASE job' = [u \in Threads |-> IF u[1] = w THEN NoJob ELSE job[u]]
      BY <1>1, <3>1 DEF AtRest
    <3>2. QED
      BY <1>2, <2>5, <3>1 DEF Host
  <2>6. ASSUME NEW u \in Threads, Work(u) PROVE Goal
    BY <1>2, <2>2, <2>3, <2>6 DEF Work
  <2>7. QED
    BY <1>2, <1>3, <2>4, <2>5, <2>6 DEF Workload, FetchNext, Tick
<1>4. ASSUME NEW u \in Threads, UpdateRow(u) \/ InsertRow(u) \/ WriteFails(u) PROVE Goal
  <2>1. CASE job' = [job EXCEPT ![u] = NoJob]
    BY <1>1, <2>1 DEF StoreTypes, AtRest
  <2>2. CASE UpdateRow(u) /\ job' = [job EXCEPT ![u].at = "insert"]
    <3>1. CASE th = u
      <4>1. ~AtRest(u)
        BY <2>2 DEF UpdateRow, AtRest, NoJob
      <4>2. job[u] \in Jobs
        BY <4>1, JobType
      <4>3. job'[u] = [job[u] EXCEPT !.at = "insert"]
        BY <2>2 DEF StoreTypes
      <4>4. QED
        BY <1>1, <3>1, <4>1, <4>2, <4>3 DEF Jobs
    <3>2. CASE th # u
      BY <1>1, <2>2, <3>2 DEF StoreTypes, AtRest
    <3>3. QED
      BY <3>1, <3>2
  <2>3. QED
    BY <1>2, <1>4, <2>1, <2>2 DEF UpdateRow, InsertRow, WriteFails
<1>5. CASE ~Workload /\ \A u \in Threads : ~UpdateRow(u) /\ ~InsertRow(u) /\ ~WriteFails(u)
  BY <1>2, <1>5
  DEF SSNext, Operator, MarkPending, MarkFails, BeginEnqueue, Publish, CreateTask,
      EnqueueFails, ExpireUnique, Cancel, DeleteTask, DeleteOldTasks, Edit, ssVars, storeVars
<1>6. QED
  BY <1>3, <1>4, <1>5

(* A row changes to what a write that waits says, or to a state that says   *)
(* nothing of Redis.                                                        *)
LEMMA RowSources ==
    ASSUME SSShape, [SSNext]_ssVars, NEW t \in Tasks
    PROVE  \/ row'[t].state = row[t].state
           \/ row'[t].state \in {"none", "pending", "scheduled", "cancelled"}
           \/ \E th \in Threads : /\ ~AtRest(th)
                                  /\ job[th].task = t
                                  /\ row'[t].state = job[th].state
<1> StoreTypes
  BY DEF SSShape
<1> DEFINE Goal ==
           \/ row'[t].state = row[t].state
           \/ row'[t].state \in {"none", "pending", "scheduled", "cancelled"}
           \/ \E th \in Threads : /\ ~AtRest(th)
                                  /\ job[th].task = t
                                  /\ row'[t].state = job[th].state
<1>1. CASE UNCHANGED row
  BY <1>1
<1>2. ASSUME NEW u \in Tasks, NEW s, Insert(u, s)
      PROVE  row'[t].state = row[t].state \/ (u = t /\ row'[t].state = s)
  BY <1>2 DEF Insert, StoreTypes
<1>3. ASSUME NEW m \in marks, MarkPending(m) PROVE Goal
  <2>1. row[m.task] \in [state : States, ended : BOOLEAN]
    BY DEF StoreTypes
  <2>2. row' = row \/ row' = [row EXCEPT ![m.task] = [row[m.task] EXCEPT !.state = "pending"]]
    BY <1>3 DEF MarkPending, StoreTypes
  <2>3. [row[m.task] EXCEPT !.state = "pending"].state = "pending"
    BY <2>1
  <2>4. QED
    BY <2>2, <2>3 DEF StoreTypes
<1>4. ASSUME NEW u \in Tasks, CreateTask(u) PROVE Goal
  BY <1>2, <1>4 DEF CreateTask
<1>5. ASSUME NEW u \in Tasks, Cancel(u) \/ DeleteTask(u) PROVE Goal
  BY <1>5 DEF Cancel, DeleteTask, NoRow, StoreTypes
<1>6. ASSUME NEW th \in Threads, UpdateRow(th) \/ InsertRow(th) PROVE Goal
  <2>1. ~AtRest(th)
    BY <1>6 DEF UpdateRow, InsertRow, AtRest, NoJob
  <2>2. job[th].task \in Tasks
    BY <2>1, JobType
  <2>3. CASE UpdateRow(th)
    <3> DEFINE new == [state |-> job[th].state, ended |-> job[th].state \in Final]
    <3>1. row' = row \/ row' = [row EXCEPT ![job[th].task] = new]
      BY <2>3 DEF UpdateRow
    <3>2. new.state = job[th].state
      OBVIOUS
    <3> HIDE DEF new
    <3>3. QED
      BY <2>1, <3>1, <3>2 DEF StoreTypes
  <2>4. CASE InsertRow(th)
    BY <1>2, <2>1, <2>2, <2>4 DEF InsertRow
  <2>5. QED
    BY <1>6, <2>3, <2>4
<1>7. CASE DeleteOldTasks
  BY <1>7 DEF DeleteOldTasks, NoRow
<1>8. CASE /\ \A m \in marks : ~MarkPending(m)
           /\ \A u \in Tasks : ~CreateTask(u) /\ ~Cancel(u) /\ ~DeleteTask(u)
           /\ \A th \in Threads : ~UpdateRow(th) /\ ~InsertRow(th)
           /\ ~DeleteOldTasks
  BY <1>1, <1>8
  DEF SSNext, Workload, Operator, MarkFails, BeginEnqueue, Publish, EnqueueFails,
      WriteFails, ExpireUnique, ssVars, storeVars
<1>9. QED
  BY <1>3, <1>4, <1>5, <1>6, <1>7, <1>8

(* Rows and writes that wait stay known. *)
LEMMA KnownStep ==
    ASSUME SSShape, RowsKnown, JobsKnown, [SSNext]_ssVars
    PROVE  RowsKnown' /\ JobsKnown'
<1>1. ASSUME NEW t \in Tasks PROVE Known(t, row[t].state)'
  <2>1. CASE row'[t].state = row[t].state
    BY <2>1, KnownStays DEF RowsKnown
  <2>2. CASE row'[t].state \in {"none", "pending", "scheduled", "cancelled"}
    BY <2>2 DEF Known
  <2>3. ASSUME NEW th \in Threads, ~AtRest(th), job[th].task = t,
               row'[t].state = job[th].state
        PROVE  Known(t, row[t].state)'
    BY <2>3, KnownStays DEF JobsKnown
  <2>4. QED
    BY <2>1, <2>2, <2>3, RowSources
<1>2. JobsKnown'
  BY WritesTell DEF JobsKnown
<1>3. QED
  BY <1>1, <1>2 DEF RowsKnown

(* Whoever edits, revives or purges, and whatever fails, no row tells of a  *)
(* success, a retry or a death before Redis has it: processTask and         *)
(* handleFailure write to the store after the handler returned and after    *)
(* the broker took the copy.                                                *)
THEOREM RowsNeverAhead == SSSpec => []RowNeverAhead
<1>1. SSInit => RowsKnown /\ JobsKnown
  BY DEF SSInit, RowsKnown, JobsKnown, Known, AtRest, NoRow
<1>2. RowsKnown => RowNeverAhead
  BY DEF RowsKnown, Known, RowNeverAhead
<1>3. QED
  BY <1>1, <1>2, ShapeInit, ShapeStep, KnownStep, PTL DEF SSSpec

-----------------------------------------------------------------------------
(* The unique key.  Each task that was published under it, or is about to   *)
(* be, took the key when it did not exist: the first one had it for         *)
(* nothing, and every other one paid with a key that ran out.               *)

Held == {t \in Keyed : Published(t) \/ producer[t] = "publish"}

KeyAccount ==
    /\ IsFiniteSet(Held)
    /\ Cardinality(Held) + (IF unique THEN 0 ELSE 1) <= 1 + expiries

(* What is stored again was published before. *)
CopiesPublished ==
    /\ \A c \in retry \cup dlq : Published(c.task)
    /\ \A k \in calls : Published(k.copy.task)

(* An entry for a published task publishes no other. *)
LEMMA PublishedXAdd ==
    ASSUME TypeOK, NEW u \in Tasks, NEW rc \in Nat, NEW ok \in BOOLEAN, XAdd(u, rc, ok),
           Published(u), scheduled' \subseteq scheduled, scheduled \subseteq scheduled' \cup {u}
    PROVE  \A t : Published(t)' <=> Published(t)
<1>1. /\ Ids' = Ids \cup {Len(log) + 1}
      /\ \A id \in Ids : log'[id] = log[id]
      /\ log'[Len(log) + 1] = [task |-> u, rc |-> rc, ok |-> ok]
  BY XAddType DEF TypeOK
<1>2. log'[Len(log) + 1].task = u
  BY <1>1
<1>3. QED
  BY <1>1, <1>2 DEF Published

(* Workers and schedulers store copies of what was published, and publish   *)
(* nothing new.                                                             *)
LEMMA WorksPublished ==
    ASSUME TypeOK, \A c \in retry : Published(c.task), Works
    PROVE  /\ \A t : Published(t)' <=> Published(t)
           /\ \A c \in retry' \cup dlq' : c \in retry \cup dlq \/ Published(c.task)
<1> DEFINE Goal ==
           /\ \A t : Published(t)' <=> Published(t)
           /\ \A c \in retry' \cup dlq' : c \in retry \cup dlq \/ Published(c.task)
<1>1. CASE UNCHANGED <<log, scheduled, retry, dlq>>
  BY <1>1 DEF Published, Ids
<1>2. ASSUME NEW u \in Tasks, EnqueueScheduled(u) PROVE Goal
  <2>1. XAdd(u, 0, u \notin Undecodable) /\ (u \notin Undecodable) \in BOOLEAN
    BY <1>2 DEF EnqueueScheduled
  <2>2. Published(u) /\ scheduled' = scheduled \ {u} /\ UNCHANGED <<retry, dlq>>
    BY <1>2 DEF EnqueueScheduled, Published
  <2>3. \A t : Published(t)' <=> Published(t)
    BY <2>1, <2>2, PublishedXAdd
  <2>4. QED
    BY <2>2, <2>3
<1>3. ASSUME NEW c \in retry, EnqueueRetry(c) PROVE Goal
  <2>1. c.task \in Tasks /\ c.rc \in Nat
    BY DEF TypeOK, RetryCopy
  <2>2. XAdd(c.task, c.rc, c.task \notin Undecodable) /\ (c.task \notin Undecodable) \in BOOLEAN
    BY <1>3 DEF EnqueueRetry
  <2>3. Published(c.task) /\ retry' \subseteq retry /\ UNCHANGED <<scheduled, dlq>>
    BY <1>3 DEF EnqueueRetry
  <2>4. \A t : Published(t)' <=> Published(t)
    BY <2>1, <2>2, <2>3, PublishedXAdd
  <2>5. QED
    BY <2>3, <2>4
<1>4. ASSUME NEW th \in Threads, AddRetry(th) \/ AddDead(th) PROVE Goal
  <2>1. UNCHANGED <<log, scheduled>>
    BY <1>4 DEF AddRetry, AddDead
  <2>2. retry' \cup dlq' = retry \cup dlq \cup {Copy(th)}
    BY <1>4 DEF AddRetry, AddDead
  <2>3. cur[th] \in Ids
    BY <1>4, CurType DEF AddRetry, AddDead
  <2>4. Published(Copy(th).task)
    BY <2>3 DEF Copy, Published
  <2>5. QED
    BY <2>1, <2>2, <2>4 DEF Published, Ids
<1>5. ASSUME NEW t \in Tasks, ExpireProcessed(t) PROVE Goal
  BY <1>1, <1>5 DEF ExpireProcessed
<1>6. ASSUME NEW w \in Workers, Fetch(w) \/ Process(w) PROVE Goal
  BY <1>1, <1>6
  DEF Fetch, Consume, RecoverOwnPending, ClaimStale, Process, Start, Shutdown, MainStops,
      SubscribeFails, Crash, Exit, Terminate, redisVars
<1>7. ASSUME NEW th \in Threads, Begin(th) PROVE Goal
  BY <1>1, <1>7
  DEF Begin, DropInvalid, BeginRetry, BeginFirst, SkipProcessed, BeginFailOpen, redisVars
<1>8. ASSUME NEW th \in Threads,
             \/ Succeed(th) \/ Fail(th) \/ XAck(th) \/ XDel(th)
             \/ CountCompleted(th) \/ PipelineError(th)
      PROVE  Goal
  BY <1>1, <1>8 DEF Succeed, Fail, XAck, XDel, CountCompleted, PipelineError, redisVars
<1>9. QED
  BY <1>2, <1>3, <1>4, <1>5, <1>6, <1>7, <1>8
  DEF Works, Scheduler, ThreadStep, Pipeline

(* Enqueue publishes the one task it is for. *)
LEMMA EnqueuePublishes ==
    ASSUME TypeOK, NEW u \in Tasks, Enqueue(u)
    PROVE  /\ \A t : Published(t) => Published(t)'
           /\ \A t : Published(t)' => Published(t) \/ t = u
           /\ UNCHANGED <<retry, dlq>>
<1>1. CASE scheduled' = scheduled \cup {u} /\ UNCHANGED <<log, stream>>
  BY <1>1 DEF Enqueue, Published, Ids
<1>2. CASE XAdd(u, 0, TRUE) /\ UNCHANGED scheduled
  <2>1. /\ Ids' = Ids \cup {Len(log) + 1}
        /\ \A id \in Ids : log'[id] = log[id]
        /\ log'[Len(log) + 1] = [task |-> u, rc |-> 0, ok |-> TRUE]
    BY <1>2, XAddType DEF TypeOK
  <2>2. log'[Len(log) + 1].task = u
    BY <2>1
  <2>3. QED
    BY <1>2, <2>1, <2>2 DEF Enqueue, Published
<1>3. QED
  BY <1>1, <1>2 DEF Enqueue

(* Requests revive what was published. *)
LEMMA RequestsPublished ==
    ASSUME DLTypeOK, CopiesPublished, RequestStep
    PROVE  (\A t : Published(t)' <=> Published(t)) /\ CopiesPublished'
<1> TypeOK
  BY DEF DLTypeOK
<1>1. ASSUME NEW k \in calls, XAddRevived(k)
      PROVE  (\A t : Published(t)' <=> Published(t)) /\ CopiesPublished'
  <2>1. k.copy.task \in Tasks /\ Published(k.copy.task)
    BY DEF DLTypeOK, Call, RetryCopy, CopiesPublished
  <2>2. XAdd(k.copy.task, 0, TRUE) /\ UNCHANGED <<scheduled, retry, dlq>>
    BY <1>1 DEF XAddRevived
  <2>3. \A t : Published(t)' <=> Published(t)
    BY <2>1, <2>2, PublishedXAdd
  <2>4. calls' = (calls \ {k}) \cup {[k EXCEPT !.at = "del"]}
    BY <1>1 DEF XAddRevived, Advance
  <2>5. [k EXCEPT !.at = "del"].copy = k.copy
    BY DEF DLTypeOK, Call
  <2>6. QED
    BY <2>2, <2>3, <2>4, <2>5 DEF CopiesPublished
<1>2. ASSUME NEW k \in calls, XDelDead(k)
      PROVE  (\A t : Published(t)' <=> Published(t)) /\ CopiesPublished'
  <2>1. UNCHANGED <<log, scheduled, retry>> /\ dlq' \subseteq dlq
    BY <1>2 DEF XDelDead
  <2>2. calls' = (calls \ {k}) \cup {[k EXCEPT !.at = "xadd"]}
    BY <1>2 DEF XDelDead, Advance
  <2>3. [k EXCEPT !.at = "xadd"].copy = k.copy
    BY DEF DLTypeOK, Call
  <2>4. \A t : Published(t)' <=> Published(t)
    BY <2>1 DEF Published, Ids
  <2>5. QED
    BY <2>1, <2>2, <2>3, <2>4 DEF CopiesPublished
<1>3. ASSUME NEW q \in Requests, Find(q)
      PROVE  (\A t : Published(t)' <=> Published(t)) /\ CopiesPublished'
  <2>1. UNCHANGED <<log, scheduled, retry, dlq>>
    BY <1>3 DEF Find, vars, redisVars
  <2>2. \A k \in calls' : k \in calls \/ k.copy \in dlq
    BY <1>3 DEF Find
  <2>3. QED
    BY <2>1, <2>2 DEF CopiesPublished, Published, Ids
<1>4. ASSUME \/ \E q \in Requests : RetryTask(q) \/ RetryAllDead(q) \/ Abandon(q)
             \/ \E k \in calls : ClearProcessed(k) \/ CallFails(k)
             \/ PurgeDLQ
      PROVE  (\A t : Published(t)' <=> Published(t)) /\ CopiesPublished'
  <2>1. /\ UNCHANGED <<log, scheduled, retry>>
        /\ dlq' \subseteq dlq
        /\ calls' \subseteq calls
    BY <1>4
    DEF RetryTask, RetryAllDead, Abandon, ClearProcessed, CallFails, PurgeDLQ,
        vars, redisVars
  <2>2. QED
    BY <2>1 DEF CopiesPublished, Published, Ids
<1>5. QED
  BY <1>1, <1>2, <1>3, <1>4 DEF RequestStep, Serve, RetryFromDLQ

(* Only Enqueue publishes, and only the task its call is for. *)
LEMMA PublishedStep ==
    ASSUME SSShape, CopiesPublished, [SSNext]_ssVars
    PROVE  /\ CopiesPublished'
           /\ \A t : Published(t) => Published(t)'
           /\ \A t : Published(t)' => Published(t) \/ (t \in Tasks /\ Publishes(t))
<1> TypeOK /\ DLTypeOK
  BY DEF SSShape, DLTypeOK
<1>1. CASE WorkersStep
  BY <1>1, WorksPublished DEF WorkersStep, CopiesPublished
<1>2. ASSUME NEW u \in Tasks, Publishes(u)
      PROVE  /\ CopiesPublished'
             /\ \A t : Published(t) => Published(t)'
             /\ \A t : Published(t)' => Published(t) \/ (t \in Tasks /\ Publishes(t))
  BY <1>2, EnqueuePublishes DEF Publishes, apiVars, CopiesPublished
<1>3. CASE RequestStep
  BY <1>3, RequestsPublished
<1>4. CASE (\E kind \in EventKinds : Spends(kind)) \/ EditStep \/ UNCHANGED dlVars
  <2>1. UNCHANGED <<log, scheduled, retry, dlq, calls>>
    BY <1>4 DEF Spends, EditStep, dlVars, vars, redisVars, apiVars
  <2>2. QED
    BY <2>1 DEF CopiesPublished, Published, Ids
<1>5. QED
  BY <1>1, <1>2, <1>3, <1>4, StepKinds

(* A key that is free admits one task; a key that exists, none. *)
LEMMA AccountStep ==
    ASSUME SSShape, CopiesPublished, KeyAccount, [SSNext]_ssVars
    PROVE  KeyAccount'
<1> StoreTypes
  BY DEF SSShape
<1>1. IsFiniteSet(Held) /\ Cardinality(Held) \in Nat /\ expiries \in Nat
  BY FS_CardinalityType DEF KeyAccount, StoreTypes
<1>2. ASSUME Held' \subseteq Held
      PROVE  IsFiniteSet(Held') /\ Cardinality(Held') <= Cardinality(Held)
  BY <1>1, <1>2, FS_Subset, Zenon
<1>3. ASSUME Held' \subseteq Held,
             (unique' = unique /\ expiries' = expiries)
                 \/ (unique' = FALSE /\ expiries' = expiries + 1)
      PROVE  KeyAccount'
  <2>1. IsFiniteSet(Held') /\ Cardinality(Held') <= Cardinality(Held)
    BY <1>2, <1>3
  <2>2. Cardinality(Held') \in Nat
    BY <2>1, FS_CardinalityType
  <2>3. Cardinality(Held) + (IF unique THEN 0 ELSE 1) <= 1 + expiries
    BY DEF KeyAccount
  <2>4. Cardinality(Held') + (IF unique' THEN 0 ELSE 1) <= 1 + expiries'
    BY <1>1, <1>3, <2>1, <2>2, <2>3
  <2>5. QED
    BY <2>1, <2>4 DEF KeyAccount
<1>4. ASSUME NEW t \in Keyed, BeginEnqueue(t) PROVE KeyAccount'
  <2>1. ~unique /\ unique' = TRUE /\ UNCHANGED expiries
    BY <1>4 DEF BeginEnqueue, SetUnique
  <2>2. Held' \subseteq Held \cup {t}
    BY <1>4 DEF Held, BeginEnqueue, StoreTypes, dlVars, vars, redisVars, Published, Ids
  <2>3. /\ IsFiniteSet(Held \cup {t})
        /\ Cardinality(Held \cup {t}) \in {Cardinality(Held), Cardinality(Held) + 1}
    BY <1>1, FS_AddElement
  <2>4. IsFiniteSet(Held') /\ Cardinality(Held') <= Cardinality(Held \cup {t})
    BY <2>2, <2>3, FS_Subset, Zenon
  <2>5. Cardinality(Held') \in Nat
    BY <2>4, FS_CardinalityType
  <2>6. Cardinality(Held) + 1 <= 1 + expiries
    BY <2>1 DEF KeyAccount
  <2>7. Cardinality(Held') + 0 <= 1 + expiries'
    BY <1>1, <2>1, <2>3, <2>4, <2>5, <2>6
  <2>8. QED
    BY <2>1, <2>4, <2>7 DEF KeyAccount
<1>5. CASE \A t \in Keyed : ~BeginEnqueue(t)
  <2>1. \A t \in Keyed : producer'[t] = "publish" => producer[t] = "publish"
    BY <1>5, StoreAssumption
    DEF SSNext, Workload, Operator, MarkPending, MarkFails, BeginEnqueue, Publish,
        CreateTask, EnqueueFails, Cancel, DeleteTask, DeleteOldTasks, Edit, UpdateRow,
        InsertRow, WriteFails, ExpireUnique, ssVars, storeVars, StoreTypes
  <2>2. Held' \subseteq Held
    BY <2>1, PublishedStep DEF Held, Publishes
  <2>3. \/ unique' = unique /\ expiries' = expiries
        \/ unique' = FALSE /\ expiries' = expiries + 1
    BY <1>5
    DEF SSNext, Workload, Operator, MarkPending, MarkFails, BeginEnqueue, Publish,
        CreateTask, EnqueueFails, Cancel, DeleteTask, DeleteOldTasks, Edit, UpdateRow,
        InsertRow, WriteFails, ExpireUnique, ssVars, storeVars
  <2>4. QED
    BY <1>3, <2>2, <2>3
<1>6. QED
  BY <1>4, <1>5

(* Nobody holds the key at first, and nothing is published. *)
LEMMA AccountInit == SSInit => CopiesPublished /\ KeyAccount
<1> SUFFICES ASSUME SSInit PROVE CopiesPublished /\ KeyAccount
  OBVIOUS
<1>1. CopiesPublished
  BY DEF SSInit, DLInit, Init, CopiesPublished
<1>2. Held = {} /\ unique = FALSE /\ expiries = 0
  BY StoreAssumption DEF SSInit, DLInit, Init, Held, Published, Ids
<1>3. QED
  BY <1>1, <1>2, FS_EmptySet DEF KeyAccount

(* SET NX of the unique key admits one task: a second one with the key is   *)
(* published only after the key of the first ran out, whatever producers    *)
(* race, whatever calls fail and whatever is retried or revived.            *)
THEOREM KeyAdmitsOne == SSSpec => []OnePublishedPerKey
<1>1. SSShape /\ KeyAccount => OnePublishedPerKey
  <2> SUFFICES ASSUME SSShape, KeyAccount PROVE Cardinality(Held) <= 1 + expiries
    BY DEF OnePublishedPerKey, Held
  <2>1. Cardinality(Held) \in Nat /\ expiries \in Nat
    BY FS_CardinalityType DEF KeyAccount, SSShape, StoreTypes
  <2>2. QED
    BY <2>1 DEF KeyAccount
<1>2. QED
  BY <1>1, ShapeInit, ShapeStep, AccountInit, PublishedStep, AccountStep, PTL DEF SSSpec

-----------------------------------------------------------------------------
(* Rows that are current.  First what holds while nothing fails, and what   *)
(* the row, the marks and the key say of a task by themselves.              *)

(* What holds as long as nothing failed, whatever the store and the         *)
(* requests do.                                                             *)
Calm ==
    /\ GoroutinesClean
    /\ SpoiltInvalid
    /\ NoneCloses
    /\ HeldInv
    /\ HandsApart

CalmInv ==
    /\ BudgetInv
    /\ StreamInv
    /\ NoFaultYet /\ ~SlowHandlers => Calm

(* A step that leaves the workers alone leaves them calm. *)
LEMMA CalmFrame ==
    ASSUME TypeOK, Calm,
           UNCHANGED <<pel, status, phase, batch, cur, verdict, successes>>,
           \/ UNCHANGED <<log, stream>>
           \/ \E t \in Tasks, rc \in Nat : XAdd(t, rc, TRUE)
    PROVE  Calm'
<1>1. \A id \in Ids : log'[id] = log[id] /\ id \in Ids'
  <2>1. CASE UNCHANGED <<log, stream>>
    BY <2>1 DEF Ids
  <2>2. ASSUME NEW t \in Tasks, NEW rc \in Nat, XAdd(t, rc, TRUE)
        PROVE  \A id \in Ids : log'[id] = log[id] /\ id \in Ids'
    <3>1. PICK ok \in BOOLEAN : ok = TRUE
      OBVIOUS
    <3>2. XAdd(t, rc, ok)
      BY <2>2, <3>1
    <3>3. QED
      BY <3>2, XAddType DEF TypeOK
  <2>3. QED
    BY <2>1, <2>2
<1>2. GoroutinesClean'
  BY <1>1, GoroutinesFrame DEF Calm
<1>3. HeldInv' /\ NoneCloses'
  BY DEF Calm, HeldInv, Holds, Pending, NoneCloses
<1>4. CASE UNCHANGED <<log, stream>>
  <2>1. SpoiltInvalid' /\ HandsApart'
    BY <1>4 DEF Calm, SpoiltInvalid, HandsApart, Ids
  <2>2. QED
    BY <1>2, <1>3, <2>1 DEF Calm
<1>5. ASSUME NEW t \in Tasks, NEW rc \in Nat, XAdd(t, rc, TRUE) PROVE Calm'
  <2>1. PICK ok \in BOOLEAN : ok /\ XAdd(t, rc, ok)
    BY <1>5
  <2>2. /\ Ids' = Ids \cup {Len(log) + 1}
        /\ log'[Len(log) + 1] = [task |-> t, rc |-> rc, ok |-> ok]
    BY <2>1, XAddType DEF TypeOK
  <2>3. SpoiltInvalid'
    BY <1>1, <2>1, <2>2 DEF Calm, SpoiltInvalid
  <2>4. Len(log) + 1 \notin Ids /\ stream' = stream \cup {Len(log) + 1}
    <3>1. Len(log) \in Nat
      BY NumberTypes
    <3>2. QED
      BY <2>1, <3>1 DEF Ids, XAdd
  <2>5. \A u \in Threads : phase[u] = "final" => cur[u] \in Ids
    BY CurType
  <2>6. HandsApart'
    BY <2>4, <2>5 DEF Calm, HandsApart
  <2>7. QED
    BY <1>2, <1>3, <2>3, <2>6 DEF Calm
<1>6. QED
  BY <1>4, <1>5

(* Nothing but faults and the slowness of handlers disturbs it. *)
LEMMA CalmStep ==
    ASSUME SSShape, CalmInv, [SSNext]_ssVars
    PROVE  /\ CalmInv'
           /\ NoFaultYet' => NoFaultYet
<1> TypeOK /\ DLTypeOK /\ BudgetInv /\ StreamInv
  BY DEF SSShape, DLTypeOK, CalmInv
<1>1. CASE [Next]_vars
  <2>1. BudgetInv' /\ (NoFaultYet' => NoFaultYet) /\ StreamInv'
    BY <1>1, BudgetStep, StreamStep
  <2>2. ASSUME NoFaultYet', ~SlowHandlers PROVE Calm'
    <3>1. Calm
      BY <2>1, <2>2 DEF CalmInv
    <3>2. GoroutinesClean' /\ SpoiltInvalid'
      BY <1>1, <2>2, <3>1, GoroutinesStep, SpoiltStep DEF Calm
    <3>3. HeldInv' /\ HandsApart' /\ NoneCloses'
      BY <1>1, <2>2, <3>1, HeldStep, HandsStep, ClosesStep DEF Calm
    <3>4. QED
      BY <3>2, <3>3 DEF Calm
  <2>3. QED
    BY <2>1, <2>2 DEF CalmInv
<1>2. CASE RequestStep
  <2>1. [DLNext]_dlVars
    BY <1>2 DEF RequestStep, DLNext
  <2>2. StreamInv'
    BY <2>1, DLStreamStep
  <2>3. UNCHANGED budget \/ Spend("fault")
    BY <1>2
    DEF RequestStep, Serve, RetryTask, RetryAllDead, Find, Abandon, RetryFromDLQ,
        XDelDead, XAddRevived, ClearProcessed, CallFails, PurgeDLQ, vars
  <2>4. BudgetInv' /\ (NoFaultYet' => NoFaultYet)
    BY <2>3, BudgetSpent DEF EventKinds
  <2>5. UNCHANGED <<pel, status, phase, batch, cur, verdict, successes>>
    BY <1>2
    DEF RequestStep, Serve, RetryTask, RetryAllDead, Find, Abandon, RetryFromDLQ,
        XDelDead, XAddRevived, ClearProcessed, CallFails, PurgeDLQ, vars, redisVars,
        threadVars, historyVars
  <2>6. UNCHANGED <<log, stream>> \/ \E t \in Tasks, rc \in Nat : XAdd(t, rc, TRUE)
    <3>1. \A k \in calls : k.copy.task \in Tasks
      BY DEF DLTypeOK, Call, RetryCopy
    <3>2. CASE \E k \in calls : XAddRevived(k)
      BY <3>1, <3>2 DEF XAddRevived
    <3>3. QED
      BY <1>2, <3>2
      DEF RequestStep, Serve, RetryTask, RetryAllDead, Find, Abandon, RetryFromDLQ,
          XDelDead, ClearProcessed, CallFails, PurgeDLQ, vars, redisVars
  <2>7. QED
    BY <2>2, <2>4, <2>5, <2>6, CalmFrame DEF CalmInv
<1>3. ASSUME UNCHANGED <<redisVars, status, threadVars, historyVars>>,
             UNCHANGED budget \/ \E kind \in EventKinds : Spend(kind)
      PROVE  CalmInv' /\ (NoFaultYet' => NoFaultYet)
  <2>1. BudgetInv' /\ (NoFaultYet' => NoFaultYet)
    BY <1>3, BudgetSpent
  <2>2. UNCHANGED <<log, stream, lastDelivered, pel, status, phase, batch, cur, verdict,
                    successes>>
    BY <1>3 DEF redisVars, threadVars, historyVars
  <2>3. StreamInv'
    BY <2>2, StreamFrame
  <2>4. QED
    BY <2>1, <2>2, <2>3, CalmFrame DEF CalmInv
<1>4. CASE WorkersStep \/ \E t \in Tasks : Publishes(t)
  BY <1>1, <1>4 DEF WorkersStep, Works, Publishes, Next
<1>5. CASE EditStep \/ UNCHANGED dlVars
  BY <1>1, <1>5 DEF EditStep, dlVars
<1>6. CASE \E kind \in EventKinds : Spends(kind)
  BY <1>3, <1>6 DEF Spends
<1>7. QED
  BY <1>2, <1>4, <1>5, <1>6, StepKinds

NoWriter(t) == \A u \in Threads : ~Writing(u, t)

(* There is nothing to tell of a task that was not published. *)
RowsPublished ==
    \A t \in Tasks :
        row[t] # NoRow \/ producer[t] = "create" \/ ~NoWriter(t) => Published(t)

(* A call that is for one task marks it in the end, and is known to. *)
MarksKnown ==
    /\ \A k \in calls : k.at # "xdel" /\ k.by \in single =>
          revival[k.copy.task] \cap {"marking", "overtaking"} # {}
    /\ \A m \in marks : revival[m.task] \cap {"marking", "overtaking"} # {}

(* While no key ran out, one task has the unique key and is published once. *)
KeyOnce ==
    /\ ~unique => Held = {}
    /\ \A t, u \in Held : t = u
    /\ \A t \in Keyed : producer[t] = "publish" => ~Published(t)

(* A write is for a task that the goroutine has a message of. *)
LEMMA JobSources ==
    ASSUME SSShape, [SSNext]_ssVars, NEW th \in Threads, ~AtRest(th)'
    PROVE  \/ ~AtRest(th) /\ job'[th].task = job[th].task
           \/ \E id \in Ids : job'[th].task = log[id].task
<1> TypeOK /\ DLTypeOK /\ StoreTypes
  BY DEF SSShape, DLTypeOK
<1> DEFINE Goal == \/ ~AtRest(th) /\ job'[th].task = job[th].task
                   \/ \E id \in Ids : job'[th].task = log[id].task
<1>1. CASE UNCHANGED job
  BY <1>1 DEF AtRest
<1>2. ASSUME NEW u \in Threads, NEW id \in Ids, NEW s, Then(u, log[id].task, s) PROVE Goal
  BY <1>2 DEF Then, Write, StoreTypes, AtRest
<1>3. ASSUME NEW u \in Threads, Work(u) \/ StoreCopy(u) PROVE Goal
  <2>1. \A id \in batch[u] : id \in Ids
    BY DEF TypeOK
  <2>2. Succeed(u) \/ StoreCopy(u) => cur[u] \in Ids
    BY CurType DEF Succeed, StoreCopy, AddRetry, AddDead
  <2>3. QED
    BY <1>1, <1>2, <1>3, <2>1, <2>2 DEF Work, StoreCopy
<1>4. ASSUME NEW w \in Workers, Host(w) PROVE Goal
  BY <1>1, <1>4 DEF Host, AtRest
<1>5. CASE Workload
  BY <1>1, <1>3, <1>4, <1>5 DEF Workload, FetchNext, Tick
<1>6. ASSUME NEW u \in Threads, UpdateRow(u) \/ InsertRow(u) \/ WriteFails(u) PROVE Goal
  <2>1. CASE job' = [job EXCEPT ![u] = NoJob]
    BY <2>1 DEF StoreTypes, AtRest
  <2>2. CASE UpdateRow(u) /\ job' = [job EXCEPT ![u].at = "insert"]
    <3>1. CASE th = u
      <4>1. ~AtRest(u)
        BY <2>2 DEF UpdateRow, AtRest, NoJob
      <4>2. job[u] \in Jobs
        BY <4>1, JobType
      <4>3. job'[u] = [job[u] EXCEPT !.at = "insert"]
        BY <2>2 DEF StoreTypes
      <4>4. QED
        BY <3>1, <4>1, <4>2, <4>3 DEF Jobs
    <3>2. CASE th # u
      BY <2>2, <3>2 DEF StoreTypes, AtRest
    <3>3. QED
      BY <3>1, <3>2
  <2>3. QED
    BY <1>1, <1>6, <2>1, <2>2 DEF UpdateRow, InsertRow, WriteFails
<1>7. CASE ~Workload /\ \A u \in Threads : ~UpdateRow(u) /\ ~InsertRow(u) /\ ~WriteFails(u)
  BY <1>1, <1>7
  DEF SSNext, Operator, MarkPending, MarkFails, BeginEnqueue, Publish, CreateTask,
      EnqueueFails, ExpireUnique, Cancel, DeleteTask, DeleteOldTasks, Edit, ssVars, storeVars
<1>8. QED
  BY <1>5, <1>6, <1>7

(* Where there was no row there is one after an INSERT only. *)
LEMMA RowsAppear ==
    ASSUME SSShape, [SSNext]_ssVars, NEW t \in Tasks, row[t] = NoRow, row'[t] # NoRow
    PROVE  producer[t] = "create" \/ ~NoWriter(t)
<1> StoreTypes
  BY DEF SSShape
<1> DEFINE Goal == producer[t] = "create" \/ ~NoWriter(t)
<1>1. ASSUME NEW u \in Tasks, NEW s, Insert(u, s) PROVE u = t
  BY <1>1 DEF Insert, StoreTypes
<1>2. ASSUME NEW u \in Tasks, CreateTask(u) PROVE Goal
  BY <1>1, <1>2 DEF CreateTask
<1>3. ASSUME NEW th \in Threads, UpdateRow(th) \/ InsertRow(th) PROVE Goal
  <2>1. ~AtRest(th)
    BY <1>3 DEF UpdateRow, InsertRow, AtRest, NoJob
  <2>2. job[th].task \in Tasks
    BY <2>1, JobType
  <2>3. CASE UpdateRow(th)
    <3>1. row[job[th].task] # NoRow \/ UNCHANGED row
      BY <2>3 DEF UpdateRow
    <3>2. \A u \in Tasks : u # job[th].task => row'[u] = row[u]
      BY <2>3 DEF UpdateRow, StoreTypes
    <3>3. QED
      BY <3>1, <3>2
  <2>4. CASE InsertRow(th)
    BY <1>1, <2>1, <2>2, <2>4 DEF InsertRow, NoWriter, Writing
  <2>5. QED
    BY <1>3, <2>3, <2>4
<1>4. ASSUME NEW m \in marks, MarkPending(m) PROVE Goal
  BY <1>4 DEF MarkPending, StoreTypes
<1>5. ASSUME NEW u \in Tasks, Cancel(u) \/ DeleteTask(u) PROVE Goal
  BY <1>5 DEF Cancel, DeleteTask, StoreTypes
<1>6. CASE DeleteOldTasks
  BY <1>6 DEF DeleteOldTasks
<1>7. CASE UNCHANGED row
  BY <1>7
<1>8. QED
  BY <1>2, <1>3, <1>4, <1>5, <1>6, <1>7
  DEF SSNext, Workload, Operator, MarkFails, BeginEnqueue, Publish, EnqueueFails,
      WriteFails, ExpireUnique, ssVars, storeVars

(* Rows and writes are for published tasks. *)
LEMMA RowsPublishedStep ==
    ASSUME SSShape, CopiesPublished, RowsPublished, [SSNext]_ssVars
    PROVE  RowsPublished'
<1> StoreTypes
  BY DEF SSShape
<1> SUFFICES ASSUME NEW t \in Tasks,
                    row'[t] # NoRow \/ producer'[t] = "create" \/ ~NoWriter(t)'
             PROVE  Published(t)'
  BY DEF RowsPublished
<1>1. Published(t) => Published(t)'
  BY PublishedStep
<1>2. CASE row'[t] # NoRow
  BY <1>1, <1>2, RowsAppear DEF RowsPublished
<1>3. CASE producer'[t] = "create"
  <2>1. CASE producer[t] = "create"
    BY <1>1, <2>1 DEF RowsPublished
  <2>2. CASE Publish(t)
    <3>1. Enqueue(t)
      BY <2>2 DEF Publish
    <3>2. t \in scheduled' \/ \E rc \in Nat, ok \in BOOLEAN : XAdd(t, rc, ok)
      BY <3>1 DEF Enqueue
    <3>3. ASSUME NEW rc \in Nat, NEW ok \in BOOLEAN, XAdd(t, rc, ok) PROVE Published(t)'
      <4>1. Len(log) + 1 \in Ids' /\ log'[Len(log) + 1] = [task |-> t, rc |-> rc, ok |-> ok]
        BY <3>3, XAddType DEF SSShape, DLTypeOK, TypeOK, Ids
      <4>2. log'[Len(log) + 1].task = t
        BY <4>1
      <4>3. QED
        BY <4>1, <4>2 DEF Published
    <3>4. QED
      BY <3>2, <3>3 DEF Published
  <2>3. CASE ~Publish(t)
    <3>1. producer'[t] # "create" \/ producer[t] = "create"
      BY <2>3
      DEF SSNext, Workload, Operator, MarkPending, MarkFails, BeginEnqueue, Publish,
          CreateTask, EnqueueFails, Cancel, DeleteTask, DeleteOldTasks, Edit, UpdateRow,
          InsertRow, WriteFails, ExpireUnique, ssVars, storeVars, StoreTypes
    <3>2. QED
      BY <1>3, <2>1, <3>1
  <2>4. QED
    BY <2>2, <2>3
<1>4. ASSUME NEW th \in Threads, Writing(th, t)' PROVE Published(t)'
  <2>1. ~AtRest(th)' /\ job'[th].task = t
    BY <1>4 DEF Writing
  <2>2. CASE ~AtRest(th) /\ job[th].task = t
    BY <1>1, <2>2 DEF RowsPublished, NoWriter, Writing
  <2>3. CASE \E id \in Ids : log[id].task = t
    BY <1>1, <2>3 DEF Published
  <2>4. QED
    BY <2>1, <2>2, <2>3, JobSources
<1>5. QED
  BY <1>2, <1>3, <1>4 DEF NoWriter

(* The key is taken once. *)
LEMMA KeyOnceStep ==
    ASSUME SSShape, CopiesPublished, KeyOnce, ~ExpireUnique, [SSNext]_ssVars
    PROVE  KeyOnce'
<1> StoreTypes /\ Keyed \subseteq Tasks
  BY StoreAssumption DEF SSShape
<1>1. ASSUME NEW t \in Keyed, BeginEnqueue(t) PROVE KeyOnce'
  <2>1. ~unique /\ unique' = TRUE
    BY <1>1 DEF BeginEnqueue, SetUnique
  <2>2. \A u \in Tasks : Published(u)' <=> Published(u)
    BY <1>1 DEF BeginEnqueue, dlVars, vars, redisVars, Published, Ids
  <2>3. producer' = [producer EXCEPT ![t] = "publish"] /\ Held = {}
    BY <1>1, <2>1 DEF BeginEnqueue, KeyOnce
  <2>4. Held' \subseteq {t}
    BY <2>2, <2>3 DEF Held, StoreTypes
  <2>5. ~Published(t)
    BY <2>3 DEF Held
  <2>6. \A u \in Keyed : producer'[u] = "publish" => ~Published(u)'
    BY <2>2, <2>3, <2>5 DEF KeyOnce, StoreTypes
  <2>7. QED
    BY <2>1, <2>4, <2>6 DEF KeyOnce
<1>2. CASE \A t \in Keyed : ~BeginEnqueue(t)
  <2>1. \A t \in Keyed : producer'[t] = "publish" => producer[t] = "publish" /\ ~Publishes(t)
    <3>1. \A t \in Keyed : producer'[t] = "publish" => producer[t] = "publish"
      BY <1>2
      DEF SSNext, Workload, Operator, MarkPending, MarkFails, BeginEnqueue, Publish,
          CreateTask, EnqueueFails, Cancel, DeleteTask, DeleteOldTasks, Edit, UpdateRow,
          InsertRow, WriteFails, ExpireUnique, ssVars, storeVars, StoreTypes
    <3>2. \A t \in Keyed : Publishes(t) => producer'[t] = "create"
      BY DEF Publishes, StoreTypes
    <3>3. QED
      BY <3>1, <3>2
  <2>2. Held' \subseteq Held
    BY <2>1, PublishedStep DEF Held, Publishes
  <2>3. unique' = unique
    <3>1. \A t \in Tasks : BeginEnqueue(t) => unique' = unique
      BY <1>2 DEF BeginEnqueue
    <3>2. QED
      BY <3>1
      DEF SSNext, Workload, Operator, MarkPending, MarkFails, Publish,
          CreateTask, EnqueueFails, Cancel, DeleteTask, DeleteOldTasks, Edit, UpdateRow,
          InsertRow, WriteFails, ssVars, storeVars
  <2>4. QED
    BY <2>1, <2>2, <2>3, PublishedStep DEF KeyOnce
<1>3. QED
  BY <1>1, <1>2

(* A call says whether it marks; nobody forgets that it will. *)
LEMMA MarksKnownStep ==
    ASSUME SSShape, MarksKnown, [SSNext]_ssVars
    PROVE  MarksKnown'
<1> StoreTypes /\ DLTypeOK
  BY DEF SSShape
<1>1. \A k \in calls : k.copy.task \in Tasks /\ k.by \in Requests
  BY DEF DLTypeOK, Call, RetryCopy
<1>2. CASE UNCHANGED <<calls, single, revival>> /\ marks' \subseteq marks
  BY <1>2 DEF MarksKnown
<1>3. ASSUME NEW q \in Requests, AtHome(q), RetryTask(q) \/ RetryAllDead(q),
             single' \in {single \cup {q}, single \ {q}}, UNCHANGED <<marks, revival>>
      PROVE  MarksKnown'
  <2>1. calls' = calls /\ \A k \in calls : k.by # q
    BY <1>3 DEF RetryTask, RetryAllDead, Free
  <2>2. QED
    BY <1>3, <2>1 DEF MarksKnown
<1>4. CASE /\ (\E q \in Requests : Find(q) \/ Abandon(q)) \/ PurgeDLQ
           /\ UNCHANGED markVars
  <2>1. \A k \in calls' : k \in calls \/ k.at = "xdel"
    BY <1>4 DEF Find, Abandon, PurgeDLQ
  <2>2. QED
    BY <1>4, <2>1 DEF MarksKnown, markVars
<1>5. ASSUME NEW k \in calls, Revive(k), UNCHANGED single PROVE MarksKnown'
  <2>1. CASE XDelDead(k) /\ UNCHANGED marks
             /\ revival' = [revival EXCEPT ![k.copy.task] = @ \cup {Way(k)}]
    <3>1. calls' = (calls \ {k}) \cup {[k EXCEPT !.at = "xadd"]}
      BY <2>1 DEF XDelDead, Advance
    <3>2. [k EXCEPT !.at = "xadd"].copy = k.copy /\ [k EXCEPT !.at = "xadd"].by = k.by
      BY DEF DLTypeOK, Call
    <3>3. \A t \in Tasks : revival[t] \subseteq revival'[t]
      BY <1>1, <2>1 DEF StoreTypes
    <3>4. Way(k) \in revival'[k.copy.task]
      BY <1>1, <2>1 DEF StoreTypes
    <3>5. k.by \in single => Way(k) \in {"marking", "overtaking"}
      BY DEF Way
    <3>6. \A m \in marks : m.task \in Tasks
      BY DEF StoreTypes
    <3>7. QED
      BY <1>1, <1>5, <2>1, <3>1, <3>2, <3>3, <3>4, <3>5, <3>6 DEF MarksKnown
  <2>2. CASE XAddRevived(k) /\ UNCHANGED <<marks, revival>>
    <3>1. calls' = (calls \ {k}) \cup {[k EXCEPT !.at = "del"]} /\ k.at = "xadd"
      BY <2>2 DEF XAddRevived, Advance
    <3>2. [k EXCEPT !.at = "del"].copy = k.copy /\ [k EXCEPT !.at = "del"].by = k.by
      BY DEF DLTypeOK, Call
    <3>3. QED
      BY <1>5, <2>2, <3>1, <3>2 DEF MarksKnown
  <2>3. CASE CallFails(k) /\ UNCHANGED <<marks, revival>>
    BY <1>5, <2>3 DEF CallFails, MarksKnown
  <2>4. CASE ClearProcessed(k)
    <3>1. calls' \subseteq calls /\ k.at = "del"
      BY <2>4 DEF ClearProcessed
    <3>2. CASE UNCHANGED <<marks, revival>>
      BY <1>5, <3>1, <3>2 DEF MarksKnown
    <3>3. CASE /\ marks' = IF k.by \in single
                           THEN marks \cup {[by |-> k.by, task |-> k.copy.task]} ELSE marks
               /\ UNCHANGED revival
      BY <1>5, <3>1, <3>3 DEF MarksKnown
    <3>4. QED
      BY <1>5, <3>1, <3>2, <3>3 DEF Revive, XDelDead
  <2>5. QED
    BY <1>5, <2>1, <2>2, <2>3, <2>4 DEF Revive
<1>6. CASE Operator
  <2>1. CASE \E q \in Requests :
             /\ AtHome(q)
             /\ \/ RetryTask(q) /\ single' = single \cup {q}
                \/ RetryAllDead(q) /\ single' = single \ {q}
             /\ UNCHANGED <<marks, revival>>
    BY <1>3, <2>1
  <2>2. QED
    BY <1>4, <1>5, <1>6, <2>1 DEF Operator
<1>7. QED
  BY <1>2, <1>6
  DEF SSNext, Workload, MarkPending, MarkFails, BeginEnqueue, Publish, CreateTask,
      EnqueueFails, Cancel, DeleteTask, DeleteOldTasks, Edit, UpdateRow, InsertRow,
      WriteFails, ExpireUnique, ssVars, storeVars, markVars, dlVars, apiVars

-----------------------------------------------------------------------------
(* The stages of a task that is enqueued once, each with what its row tells *)
(* or is about to: new, running, on its way to a retry, dead, revived and   *)
(* done.  A step about another task leaves it in its stage.                 *)

(* Where a task is: its messages that nobody has begun, the goroutines at   *)
(* work on one, its copies, and the calls that revive it.                   *)
InStream(t)  == {id \in stream : log[id].task = t /\ \A u \in Threads : cur[u] # id}
Runners(t)   == {u \in Threads : cur[u] # 0 /\ log[cur[u]].task = t}
RetriesOf(t) == {c \in retry : c.task = t}
DeathsOf(t)  == {c \in dlq : c.task = t}
CallsOf(t)   == {k \in calls : k.at # "xdel" /\ k.copy.task = t}

Only(t, M, R, Y, D, K) ==
    /\ InStream(t) = M /\ Runners(t) = R
    /\ RetriesOf(t) = Y /\ DeathsOf(t) = D /\ CallsOf(t) = K

FirstRow(t) ==
    [state |-> IF t \in Delayed THEN "scheduled" ELSE "pending", ended |-> FALSE]

Right(t, s) ==
    \/ row[t] = [state |-> s, ended |-> s \in Final]
    \/ "marking" \in revival[t] /\ row[t].state = "pending"

(* The row tells s, or a goroutine is about to write it.                    *)
Tells(t, s) ==
    /\ row[t] # NoRow
    /\ \A u \in Threads : Writing(u, t) => job[u] = Write(t, s)
    /\ NoWriter(t) => Right(t, s)

(* The stages of a task that is enqueued once, and its row in each.         *)
IsNew(t) ==
    /\ successes[t] = 0 /\ t \notin processed /\ revival[t] = {} /\ ~Retried(t)
    /\ NoWriter(t) /\ row[t] \in {NoRow, FirstRow(t)}
    /\ Published(t) /\ row[t] = NoRow => producer[t] = "create"
    /\ \/ ~Published(t) /\ Only(t, {}, {}, {}, {}, {})
       \/ t \in scheduled /\ Only(t, {}, {}, {}, {}, {})
       \/ t \notin scheduled /\ \E id \in Ids : log[id].rc = 0 /\ Only(t, {id}, {}, {}, {}, {})

IsRevived(t) ==
    /\ t \notin scheduled /\ successes[t] = 0 /\ revival[t] # {}
    /\ NoWriter(t) /\ Tells(t, "dead")
    /\ \E id \in Ids :
          /\ log[id].rc = 0
          /\ \/ t \notin processed /\ Only(t, {id}, {}, {}, {}, {})
             \/ /\ t \in processed
                /\ \E k \in calls : k.at = "del" /\ Only(t, {id}, {}, {}, {}, {k})

Runs(t) ==
    /\ t \notin scheduled /\ successes[t] = 0 /\ t \in processed
    /\ \E u \in Threads :
          /\ Only(t, {}, {u}, {}, {}, {})
          /\ \/ phase[u] = "run"
             \/ phase[u] \in {"xack", "xdel", "final"} /\ verdict[u] \in {"retry", "dead"}
                /\ NoWriter(t)
          /\ \A v \in Threads : Writing(v, t) => v = u /\ job[v].state = "active"
          /\ NoWriter(t) => row[t] # NoRow

OnRetry(t) ==
    /\ t \notin scheduled /\ successes[t] = 0 /\ t \in processed
    /\ Tells(t, "retry")
    /\ \/ \E c \in retry : Only(t, {}, {}, {c}, {}, {})
       \/ NoWriter(t) /\ \E id \in Ids : log[id].rc > 0 /\ Only(t, {id}, {}, {}, {}, {})

IsDead(t) ==
    /\ t \notin scheduled /\ successes[t] = 0 /\ t \in processed
    /\ Tells(t, "dead")
    /\ \/ \E c \in dlq : Only(t, {}, {}, {}, {c}, {})
       \/ /\ NoWriter(t) /\ revival[t] # {}
          /\ \E k \in calls : k.at = "xadd" /\ Only(t, {}, {}, {}, {}, {k})

IsDone(t) ==
    /\ t \notin scheduled /\ successes[t] > 0
    /\ Tells(t, "completed")
    /\ \E R \in SUBSET Threads :
          /\ Only(t, {}, R, {}, {}, {})
          /\ \A u \in R : verdict[u] = "done" /\ phase[u] # "run"
          /\ \A v \in Threads : Writing(v, t) => v \in R

Fate(t) == IsNew(t) \/ IsRevived(t) \/ Runs(t) \/ OnRetry(t) \/ IsDead(t) \/ IsDone(t)

(* A step that concerns other tasks. *)
SameLife(t) ==
    /\ t \in scheduled' <=> t \in scheduled
    /\ t \in processed' <=> t \in processed
    /\ successes'[t] = successes[t]
    /\ InStream(t)' = InStream(t) /\ Runners(t)' = Runners(t)
    /\ RetriesOf(t)' = RetriesOf(t) /\ DeathsOf(t)' = DeathsOf(t)
    /\ CallsOf(t)' = CallsOf(t)
    /\ \A id \in Ids : id \in Ids' /\ log'[id] = log[id]
    /\ Published(t)' <=> Published(t)
    /\ Retried(t)' <=> Retried(t)
    /\ \A u \in Runners(t) : phase'[u] = phase[u] /\ verdict'[u] = verdict[u]

SameWrites(t) ==
    \A u \in Threads : (Writing(u, t)' <=> Writing(u, t))
                       /\ (Writing(u, t) => job'[u] = job[u])

SameRow(t) ==
    /\ row'[t] = row[t] /\ producer'[t] = producer[t] /\ revival'[t] = revival[t]
    /\ SameWrites(t)

(* It leaves the task where it is. *)
LEMMA FateSame ==
    ASSUME NEW t, Fate(t), SameLife(t), SameRow(t)
    PROVE  Fate(t)'
<1>1. \A M, R, Y, D, K : Only(t, M, R, Y, D, K)' <=> Only(t, M, R, Y, D, K)
  BY DEF SameLife, Only
<1>2. NoWriter(t)' <=> NoWriter(t)
  BY DEF SameRow, SameWrites, NoWriter
<1>3. \A s : Tells(t, s)' <=> Tells(t, s)
  BY <1>2 DEF SameRow, SameWrites, Tells, Right
<1>4. \A k : (k \in RetriesOf(t) <=> k \in retry /\ k.task = t)
             /\ (k \in DeathsOf(t) <=> k \in dlq /\ k.task = t)
             /\ (k \in CallsOf(t) <=> k \in calls /\ k.at # "xdel" /\ k.copy.task = t)
  BY DEF RetriesOf, DeathsOf, CallsOf
<1>5. \A k : (k \in RetriesOf(t)' <=> k \in retry' /\ k.task = t)
             /\ (k \in DeathsOf(t)' <=> k \in dlq' /\ k.task = t)
             /\ (k \in CallsOf(t)' <=> k \in calls' /\ k.at # "xdel" /\ k.copy.task = t)
  BY DEF RetriesOf, DeathsOf, CallsOf
<1>6. CASE IsNew(t)
  <2>1. IsNew(t)'
    BY <1>1, <1>2, <1>6 DEF IsNew, SameLife, SameRow, FirstRow
  <2>2. QED
    BY <2>1 DEF Fate
<1>7. CASE IsRevived(t)
  <2>1. IsRevived(t)'
    BY <1>1, <1>2, <1>3, <1>4, <1>5, <1>7 DEF IsRevived, SameLife, SameRow, Only
  <2>2. QED
    BY <2>1 DEF Fate
<1>8. CASE Runs(t)
  <2>1. Runs(t)'
    BY <1>1, <1>2, <1>8 DEF Runs, SameLife, SameRow, SameWrites, Only
  <2>2. QED
    BY <2>1 DEF Fate
<1>9. CASE OnRetry(t)
  <2>1. OnRetry(t)'
    BY <1>1, <1>2, <1>3, <1>4, <1>5, <1>9 DEF OnRetry, SameLife, Only
  <2>2. QED
    BY <2>1 DEF Fate
<1>10. CASE IsDead(t)
  <2>1. IsDead(t)'
    BY <1>1, <1>2, <1>3, <1>4, <1>5, <1>10 DEF IsDead, SameLife, SameRow, Only
  <2>2. QED
    BY <2>1 DEF Fate
<1>11. CASE IsDone(t)
  <2>1. IsDone(t)'
    BY <1>1, <1>3, <1>11 DEF IsDone, SameLife, SameRow, SameWrites, Only
  <2>2. QED
    BY <2>1 DEF Fate
<1>12. QED
  BY <1>6, <1>7, <1>8, <1>9, <1>10, <1>11 DEF Fate

(* What follows from entries that stay and copies that stay.                *)
LEMMA LifeKept ==
    ASSUME UNCHANGED log, NEW t,
           t \in scheduled' <=> t \in scheduled,
           t \in processed' <=> t \in processed,
           successes'[t] = successes[t],
           InStream(t)' = InStream(t), Runners(t)' = Runners(t),
           RetriesOf(t)' = RetriesOf(t), DeathsOf(t)' = DeathsOf(t),
           CallsOf(t)' = CallsOf(t),
           \A u \in Runners(t) : phase'[u] = phase[u] /\ verdict'[u] = verdict[u]
    PROVE  SameLife(t)
<1>1. Published(t)' <=> Published(t)
  BY DEF Published, Ids
<1>2. (\E c \in retry' : c.task = t) <=> (\E c \in retry : c.task = t)
  BY DEF RetriesOf
<1>3. Retried(t)' <=> Retried(t)
  BY <1>2 DEF Retried, Ids
<1>4. QED
  BY <1>1, <1>3 DEF SameLife, Ids

(* A new message of a task. *)
LEMMA NewMessage ==
    ASSUME TypeOK, NEW x \in Tasks, NEW rc \in Nat, NEW ok \in BOOLEAN, XAdd(x, rc, ok),
           UNCHANGED cur
    PROVE  /\ \A id \in Ids : id \in Ids' /\ log'[id] = log[id]
           /\ \A t : Runners(t)' = Runners(t)
           /\ \A t : t # x => InStream(t)' = InStream(t)
           /\ \E n : /\ Ids' = Ids \cup {n} /\ n \notin Ids
                     /\ log'[n].task = x /\ log'[n].rc = rc
                     /\ InStream(x)' = InStream(x) \cup {n}
<1> DEFINE n == Len(log) + 1
<1>1. Len(log) \in Nat /\ n \notin Ids /\ \A u \in Threads : cur[u] # n
  BY NumberTypes DEF Ids, TypeOK
<1>2. /\ Ids' = Ids \cup {n}
      /\ \A id \in Ids : log'[id] = log[id]
      /\ log'[n] = [task |-> x, rc |-> rc, ok |-> ok]
  BY XAddType DEF TypeOK
<1>3. stream' = stream \cup {n} /\ stream \subseteq Ids
  BY DEF XAdd, TypeOK
<1>4. \A u \in Threads : cur[u] # 0 => cur[u] \in Ids
  BY DEF TypeOK, Ids
<1>5. log'[n].task = x /\ log'[n].rc = rc
  BY <1>2
<1> HIDE DEF n
<1>6. \A t : Runners(t)' = Runners(t)
  BY <1>2, <1>4 DEF Runners
<1>7. \A t : t # x => InStream(t)' = InStream(t)
  BY <1>2, <1>3, <1>5 DEF InStream
<1>8. InStream(x)' = InStream(x) \cup {n}
  BY <1>1, <1>2, <1>3, <1>5 DEF InStream
<1>9. QED
  BY <1>1, <1>2, <1>5, <1>6, <1>7, <1>8

(* It is of no concern to another task. *)
LEMMA LifeXAdd ==
    ASSUME TypeOK, NEW x \in Tasks, NEW rc \in Nat, NEW ok \in BOOLEAN, XAdd(x, rc, ok),
           UNCHANGED <<cur, phase, verdict, successes, processed>>,
           NEW t, t # x,
           t \in scheduled' <=> t \in scheduled,
           RetriesOf(t)' = RetriesOf(t), DeathsOf(t)' = DeathsOf(t),
           CallsOf(t)' = CallsOf(t)
    PROVE  SameLife(t)
<1>1. PICK n : /\ Ids' = Ids \cup {n} /\ n \notin Ids
               /\ log'[n].task = x /\ log'[n].rc = rc
  BY NewMessage
<1>2. /\ \A id \in Ids : id \in Ids' /\ log'[id] = log[id]
      /\ Runners(t)' = Runners(t) /\ InStream(t)' = InStream(t)
  BY NewMessage
<1>3. Published(t)' <=> Published(t)
  BY <1>1, <1>2 DEF Published
<1>4. (\E c \in retry' : c.task = t) <=> (\E c \in retry : c.task = t)
  BY DEF RetriesOf
<1>5. Retried(t)' <=> Retried(t)
  BY <1>1, <1>2, <1>4 DEF Retried
<1>6. QED
  BY <1>2, <1>3, <1>5 DEF SameLife

(* A goroutine begins a message. *)
LEMMA TakeMoves ==
    ASSUME TypeOK, Calm, NEW th \in Threads, NEW id \in batch[th], NEW where, NEW v,
           NEW x, log[id].task = x, Take(th, id, where, v), UNCHANGED <<log, stream>>
    PROVE  /\ id \in InStream(x) /\ id \in Ids
           /\ \A t : t # x => InStream(t)' = InStream(t) /\ Runners(t)' = Runners(t)
           /\ InStream(x)' = InStream(x) \ {id}
           /\ Runners(x)' = Runners(x) \cup {th}
           /\ phase' = [phase EXCEPT ![th] = where]
           /\ verdict' = [verdict EXCEPT ![th] = v]
           /\ \A t : th \notin Runners(t)
<1>1. /\ phase[th] = "ready" /\ cur' = [cur EXCEPT ![th] = id]
      /\ phase' = [phase EXCEPT ![th] = where] /\ verdict' = [verdict EXCEPT ![th] = v]
  BY DEF Take
<1>2. cur[th] = 0 /\ cur'[th] = id /\ \A u \in Threads : u # th => cur'[u] = cur[u]
  BY <1>1 DEF TypeOK, Calm, GoroutinesClean
<1>3. id \in Ids /\ id # 0 /\ id \in stream /\ \A u \in Threads : cur[u] # id
  BY NumberTypes DEF TypeOK, Calm, HandsApart
<1>4. 0 \notin Ids
  BY NumberTypes DEF Ids
<1>5. 0 \notin stream
  BY <1>4 DEF TypeOK
<1>6. \A t : InStream(t)' = InStream(t) \ {id}
  BY <1>2, <1>3, <1>5 DEF InStream
<1>7. \A t : t # x => id \notin InStream(t)
  BY DEF InStream
<1>8. id \in InStream(x)
  BY <1>3 DEF InStream
<1>9. \A t : th \notin Runners(t)
  BY <1>2 DEF Runners
<1>10. \A t : t # x => Runners(t)' = Runners(t)
  BY <1>2 DEF Runners
<1>11. Runners(x)' = Runners(x) \cup {th}
  BY <1>2, <1>3 DEF Runners
<1>12. QED
  BY <1>1, <1>3, <1>6, <1>7, <1>8, <1>9, <1>10, <1>11

(* It is done with it: the message has left the stream. *)
LEMMA ReleaseMoves ==
    ASSUME TypeOK, Calm, NEW th \in Threads, NEW x, log[cur[th]].task = x,
           phase[th] = "final", Release(th), UNCHANGED <<log, stream>>
    PROVE  /\ \A t : InStream(t)' = InStream(t)
           /\ \A t : t # x => Runners(t)' = Runners(t) /\ th \notin Runners(t)
           /\ Runners(x)' = Runners(x) \ {th}
           /\ th \in Runners(x)
           /\ \A u \in Threads : u # th => phase'[u] = phase[u] /\ verdict'[u] = verdict[u]
<1>1. /\ cur'[th] = 0
      /\ \A u \in Threads : u # th =>
            cur'[u] = cur[u] /\ phase'[u] = phase[u] /\ verdict'[u] = verdict[u]
  BY DEF TypeOK, Release
<1>2. cur[th] \notin stream /\ cur[th] # 0
  BY DEF Calm, HandsApart, TypeOK
<1>3. 0 \notin Ids
  BY NumberTypes DEF Ids
<1>4. 0 \notin stream
  BY <1>3 DEF TypeOK
<1>5. \A t : InStream(t)' = InStream(t)
  BY <1>1, <1>2, <1>4 DEF InStream
<1>6. \A t : t # x => Runners(t)' = Runners(t) /\ th \notin Runners(t)
  BY <1>1 DEF Runners
<1>7. /\ Runners(x)' = Runners(x) \ {th}
      /\ th \in Runners(x)
  BY <1>1, <1>2 DEF Runners
<1>8. QED
  BY <1>1, <1>5, <1>6, <1>7

(* It works on, in the stream or out of it. *)
LEMMA StayMoves ==
    ASSUME UNCHANGED <<log, cur>>, stream' \subseteq stream,
           \A id \in stream \ stream' : \E u \in Threads : cur[u] = id
    PROVE  \A t : InStream(t)' = InStream(t) /\ Runners(t)' = Runners(t)
BY DEF InStream, Runners

(* The stages of a task with a message that nobody has begun. *)
LEMMA MessageStage ==
    ASSUME NEW t, Fate(t), NEW id \in InStream(t)
    PROVE  /\ t \notin scheduled /\ successes[t] = 0 /\ NoWriter(t)
           /\ \/ log[id].rc = 0 /\ t \notin processed /\ Only(t, {id}, {}, {}, {}, {})
              \/ /\ log[id].rc = 0 /\ t \in processed
                 /\ \E k \in calls : k.at = "del" /\ Only(t, {id}, {}, {}, {}, {k})
              \/ log[id].rc > 0 /\ t \in processed /\ Only(t, {id}, {}, {}, {}, {})
<1>1. CASE IsNew(t)
  BY <1>1 DEF IsNew, Only
<1>2. CASE IsRevived(t)
  BY <1>2 DEF IsRevived, Only
<1>3. CASE OnRetry(t)
  BY <1>3 DEF OnRetry, Only
<1>4. CASE Runs(t) \/ IsDead(t) \/ IsDone(t)
  BY <1>4 DEF Runs, IsDead, IsDone, Only
<1>5. QED
  BY <1>1, <1>2, <1>3, <1>4 DEF Fate

(* The stages of a task that a goroutine works on. *)
LEMMA RunnerStage ==
    ASSUME NEW t, Fate(t), NEW th \in Runners(t)
    PROVE  \/ Runs(t) /\ Only(t, {}, {th}, {}, {}, {})
           \/ IsDone(t) /\ verdict[th] = "done" /\ phase[th] # "run"
<1>1. CASE IsNew(t) \/ IsRevived(t) \/ OnRetry(t) \/ IsDead(t)
  BY <1>1 DEF IsNew, IsRevived, OnRetry, IsDead, Only
<1>2. CASE Runs(t)
  BY <1>2 DEF Runs, Only
<1>3. CASE IsDone(t)
  BY <1>3 DEF IsDone, Only
<1>4. QED
  BY <1>1, <1>2, <1>3 DEF Fate

(* What a goroutine that does not wait for a write begins to write. *)
LEMMA ThenWrites ==
    ASSUME StoreTypes, NEW th \in Threads, AtRest(th), NEW x, NEW s, Then(th, x, s)
    PROVE  /\ \A t : t # x => SameWrites(t)
           /\ job'[th] = Write(x, s) /\ Writing(th, x)'
           /\ \A u \in Threads : u # th => job'[u] = job[u] /\ (Writing(u, x)' <=> Writing(u, x))
<1>1. /\ job'[th] = Write(x, s)
      /\ \A u \in Threads : u # th => job'[u] = job[u]
  BY DEF Then, StoreTypes
<1>2. ~AtRest(th)' /\ job'[th].task = x
  BY <1>1 DEF AtRest, Write, NoJob
<1>3. Writing(th, x)' /\ \A u \in Threads : u # th => (Writing(u, x)' <=> Writing(u, x))
  BY <1>1, <1>2 DEF Writing, AtRest
<1>4. ASSUME NEW t, t # x PROVE SameWrites(t)
  <2>1. ~Writing(th, t) /\ ~Writing(th, t)'
    BY <1>2, <1>4 DEF Writing
  <2>2. \A u \in Threads : u # th => (Writing(u, t)' <=> Writing(u, t))
    BY <1>1 DEF Writing, AtRest
  <2>3. QED
    BY <1>1, <2>1, <2>2 DEF SameWrites
<1>5. QED
  BY <1>1, <1>3, <1>4

(* A goroutine runs the task's message. *)
LEMMA FateBegin ==
    ASSUME SSShape, Calm, NEW t \in Tasks, Fate(t), NEW th \in Threads, AtRest(th),
           NEW id \in batch[th], log[id].task = t, BeginFirst(th, id) \/ BeginRetry(th, id),
           Then(th, t, "active"), UNCHANGED <<calls, row>>
    PROVE  Fate(t)'
<1> TypeOK /\ StoreTypes
  BY DEF SSShape, DLTypeOK
<1>1. /\ Take(th, id, "run", "none")
      /\ UNCHANGED <<log, stream, scheduled, retry, dlq, successes>>
  BY DEF BeginFirst, BeginRetry, redisVars, historyVars
<1>2. /\ id \in InStream(t) /\ id \in Ids
      /\ InStream(t)' = InStream(t) \ {id}
      /\ Runners(t)' = Runners(t) \cup {th}
      /\ phase' = [phase EXCEPT ![th] = "run"]
  BY <1>1, TakeMoves
<1>3. /\ t \notin scheduled /\ successes[t] = 0 /\ NoWriter(t)
      /\ Only(t, {id}, {}, {}, {}, {}) /\ t \in processed'
  <2>1. CASE BeginFirst(th, id)
    <3>1. t \notin processed /\ log[id].rc = 0 /\ t \in processed'
      BY <2>1 DEF BeginFirst, SetNX, FirstAttempt
    <3>2. QED
      BY <1>2, <3>1, MessageStage
  <2>2. CASE BeginRetry(th, id)
    <3>1. log[id].rc # 0 /\ processed' = processed
      BY <2>2 DEF BeginRetry, FirstAttempt, redisVars
    <3>2. QED
      BY <1>2, <3>1, MessageStage
  <2>3. QED
    BY <2>1, <2>2
<1>4. Only(t, {}, {th}, {}, {}, {})'
  BY <1>1, <1>2, <1>3 DEF Only, RetriesOf, DeathsOf, CallsOf
<1>5. /\ job'[th] = Write(t, "active") /\ Writing(th, t)'
      /\ \A u \in Threads : u # th => ~Writing(u, t)'
  BY <1>3, ThenWrites DEF NoWriter
<1>6. job'[th].state = "active" /\ ~NoWriter(t)'
  BY <1>5 DEF Write, NoWriter
<1>7. phase'[th] = "run" /\ t \notin scheduled' /\ successes'[t] = 0
  BY <1>1, <1>2, <1>3 DEF TypeOK
<1>8. Runs(t)'
  BY <1>3, <1>4, <1>5, <1>6, <1>7 DEF Runs
<1>9. QED
  BY <1>8 DEF Fate

(* Its handler fails, and the pipeline takes the message out of the stream. *)
LEMMA FateWork ==
    ASSUME SSShape, Calm, NEW t \in Tasks, Fate(t), NEW th \in Threads, AtRest(th),
           log[cur[th]].task = t, Fail(th) \/ XAck(th) \/ XDel(th),
           UNCHANGED <<calls, row, job, revival>>
    PROVE  Fate(t)'
<1> TypeOK /\ StoreTypes
  BY DEF SSShape, DLTypeOK
<1>1. /\ UNCHANGED <<log, cur, scheduled, retry, dlq, processed, successes>>
      /\ stream' \in {stream, stream \ {cur[th]}}
      /\ phase[th] \in {"run", "xack", "xdel"}
      /\ \/ phase' = [phase EXCEPT ![th] = "xack"]
         \/ phase' = [phase EXCEPT ![th] = "xdel"]
         \/ phase' = [phase EXCEPT ![th] = "final"]
      /\ \/ verdict' = verdict /\ phase[th] # "run"
         \/ /\ phase[th] = "run"
            /\ \E v \in {"dead", "retry"} : verdict' = [verdict EXCEPT ![th] = v]
  BY DEF Fail, XAck, XDel, redisVars, historyVars
<1>2. th \in Runners(t)
  BY <1>1, CurType DEF TypeOK, Runners
<1>3. /\ phase'[th] \in {"xack", "xdel", "final"}
      /\ \/ verdict'[th] = verdict[th] /\ phase[th] # "run"
         \/ verdict'[th] \in {"dead", "retry"} /\ phase[th] = "run"
      /\ \A u \in Threads : u # th => phase'[u] = phase[u] /\ verdict'[u] = verdict[u]
  <2>1. DOMAIN phase = Threads /\ DOMAIN verdict = Threads
    BY DEF TypeOK
  <2>2. /\ phase'[th] \in {"xack", "xdel", "final"}
        /\ \A u \in Threads : u # th => phase'[u] = phase[u]
    BY <1>1, <2>1
  <2>3. CASE verdict' = verdict /\ phase[th] # "run"
    BY <2>2, <2>3
  <2>4. ASSUME NEW v \in {"dead", "retry"}, phase[th] = "run",
               verdict' = [verdict EXCEPT ![th] = v]
        PROVE  /\ verdict'[th] \in {"dead", "retry"}
               /\ \A u \in Threads : u # th => verdict'[u] = verdict[u]
    BY <2>1, <2>4
  <2>5. QED
    BY <1>1, <2>2, <2>3, <2>4
<1>4. InStream(t)' = InStream(t) /\ Runners(t)' = Runners(t)
  BY <1>1, StayMoves
<1>5. /\ RetriesOf(t)' = RetriesOf(t) /\ DeathsOf(t)' = DeathsOf(t)
      /\ CallsOf(t)' = CallsOf(t)
  BY <1>1 DEF RetriesOf, DeathsOf, CallsOf
<1>6. \A u \in Threads : Writing(u, t)' <=> Writing(u, t)
  BY DEF Writing, AtRest
<1>7. CASE Runs(t)
  <2>1. /\ Only(t, {}, {th}, {}, {}, {})
        /\ \A v \in Threads : Writing(v, t) => v = th
        /\ NoWriter(t) => row[t] # NoRow
        /\ phase[th] # "run" => verdict[th] \in {"retry", "dead"}
    BY <1>2, <1>7 DEF Runs, Only
  <2>2. NoWriter(t)
    BY <2>1 DEF NoWriter, Writing
  <2>3. NoWriter(t)' /\ Only(t, {}, {th}, {}, {}, {})'
    BY <1>4, <1>5, <1>6, <2>1, <2>2 DEF NoWriter, Only
  <2>4. phase'[th] \in {"xack", "xdel", "final"} /\ verdict'[th] \in {"retry", "dead"}
    BY <1>3, <2>1
  <2>5. /\ t \notin scheduled' /\ successes'[t] = 0 /\ t \in processed'
        /\ row'[t] # NoRow
        /\ \A v \in Threads : ~Writing(v, t)'
    BY <1>1, <1>6, <1>7, <2>1, <2>2 DEF Runs, NoWriter
  <2>6. Runs(t)'
    BY <2>3, <2>4, <2>5 DEF Runs
  <2>7. QED
    BY <2>6 DEF Fate
<1>8. CASE IsDone(t) /\ verdict[th] = "done" /\ phase[th] # "run"
  <2>1. PICK R \in SUBSET Threads :
              /\ Only(t, {}, R, {}, {}, {})
              /\ \A u \in R : verdict[u] = "done" /\ phase[u] # "run"
              /\ \A v \in Threads : Writing(v, t) => v \in R
    BY <1>8 DEF IsDone
  <2>2. Only(t, {}, R, {}, {}, {})'
    BY <1>4, <1>5, <2>1 DEF Only
  <2>3. \A u \in R : verdict'[u] = "done" /\ phase'[u] # "run"
    BY <1>3, <1>8, <2>1
  <2>4. Tells(t, "completed")' /\ t \notin scheduled' /\ successes'[t] > 0
    BY <1>1, <1>6, <1>8 DEF IsDone, Tells, NoWriter, Right
  <2>5. IsDone(t)'
    BY <1>6, <2>1, <2>2, <2>3, <2>4 DEF IsDone
  <2>6. QED
    BY <2>5 DEF Fate
<1>9. QED
  BY <1>2, <1>7, <1>8, RunnerStage

-----------------------------------------------------------------------------
(* The steps of the workers, of the producer and of the scheduler.          *)

(* A task that runs, in a goroutine that waits for no write: it has a row,  *)
(* and nobody writes it.                                                    *)
LEMMA RunsAlone ==
    ASSUME NEW t, Runs(t), NEW th \in Threads, AtRest(th), Only(t, {}, {th}, {}, {}, {})
    PROVE  /\ t \notin scheduled /\ successes[t] = 0 /\ t \in processed
           /\ NoWriter(t) /\ row[t] # NoRow
           /\ phase[th] = "run" \/ verdict[th] \in {"retry", "dead"}
<1>1. /\ \A v \in Threads : Writing(v, t) => v = th
      /\ NoWriter(t) => row[t] # NoRow
      /\ phase[th] = "run" \/ verdict[th] \in {"retry", "dead"}
      /\ t \notin scheduled /\ successes[t] = 0 /\ t \in processed
  BY DEF Runs, Only
<1>2. NoWriter(t)
  BY <1>1 DEF NoWriter, Writing
<1>3. QED
  BY <1>1, <1>2

(* The first write after that. *)
LEMMA OneWriter ==
    ASSUME StoreTypes, NEW t, NoWriter(t), row[t] # NoRow, NEW th \in Threads, AtRest(th),
           NEW s, Then(th, t, s), UNCHANGED row
    PROVE  /\ Tells(t, s)'
           /\ \A u \in Threads : Writing(u, t)' => u = th
<1>1. /\ job'[th] = Write(t, s) /\ Writing(th, t)'
      /\ \A u \in Threads : u # th => ~Writing(u, t)'
  BY ThenWrites DEF NoWriter
<1>2. ~NoWriter(t)'
  BY <1>1 DEF NoWriter
<1>3. QED
  BY <1>1, <1>2 DEF Tells

(* The handler returns nil. *)
LEMMA FateSucceed ==
    ASSUME SSShape, NEW t \in Tasks, Fate(t), NEW th \in Threads, AtRest(th),
           log[cur[th]].task = t, Succeed(th), Then(th, t, "completed"),
           UNCHANGED <<calls, row>>
    PROVE  Fate(t)'
<1> TypeOK /\ StoreTypes
  BY DEF SSShape, DLTypeOK
<1>1. /\ UNCHANGED <<log, cur, stream, scheduled, retry, dlq>> /\ phase[th] = "run"
      /\ phase' = [phase EXCEPT ![th] = "xack"]
      /\ verdict' = [verdict EXCEPT ![th] = "done"]
      /\ successes' = [successes EXCEPT ![t] = @ + 1]
  BY DEF Succeed, redisVars
<1>2. th \in Runners(t)
  BY <1>1, CurType DEF TypeOK, Runners
<1>3. Runs(t) /\ Only(t, {}, {th}, {}, {}, {})
  BY <1>1, <1>2, RunnerStage
<1>4. t \notin scheduled /\ NoWriter(t) /\ row[t] # NoRow
  BY <1>3, RunsAlone
<1>5. Tells(t, "completed")' /\ \A u \in Threads : Writing(u, t)' => u = th
  BY <1>4, OneWriter
<1>6. phase'[th] = "xack" /\ verdict'[th] = "done"
  BY <1>1 DEF TypeOK
<1>7. successes'[t] > 0
  <2>1. successes[t] \in Nat /\ successes'[t] = successes[t] + 1
    BY <1>1 DEF TypeOK
  <2>2. QED
    BY <2>1
<1>8. Only(t, {}, {th}, {}, {}, {})'
  BY <1>1, <1>3 DEF Only, InStream, Runners, RetriesOf, DeathsOf, CallsOf
<1>9. t \notin scheduled'
  BY <1>1, <1>4
<1>10. IsDone(t)'
  BY <1>5, <1>6, <1>7, <1>8, <1>9 DEF IsDone
<1>11. QED
  BY <1>10 DEF Fate

(* Its Ack ends. *)
LEMMA FateCounted ==
    ASSUME SSShape, Calm, NEW t \in Tasks, Fate(t), NEW th \in Threads, AtRest(th),
           log[cur[th]].task = t, CountCompleted(th), UNCHANGED <<calls, row, job, revival>>
    PROVE  Fate(t)'
<1> TypeOK /\ StoreTypes
  BY DEF SSShape, DLTypeOK
<1>1. /\ UNCHANGED <<log, stream, scheduled, retry, dlq, successes>>
      /\ phase[th] = "final" /\ verdict[th] \in {"skip", "done"} /\ Release(th)
  BY DEF CountCompleted, historyVars
<1>2. /\ InStream(t)' = InStream(t)
      /\ Runners(t)' = Runners(t) \ {th} /\ th \in Runners(t)
      /\ \A u \in Threads : u # th => phase'[u] = phase[u] /\ verdict'[u] = verdict[u]
  BY <1>1, ReleaseMoves
<1>3. CASE Runs(t) /\ Only(t, {}, {th}, {}, {}, {})
  BY <1>1, <1>3, RunsAlone
<1>4. CASE IsDone(t)
  <2>1. PICK R \in SUBSET Threads :
              /\ Only(t, {}, R, {}, {}, {})
              /\ \A u \in R : verdict[u] = "done" /\ phase[u] # "run"
              /\ \A v \in Threads : Writing(v, t) => v \in R
    BY <1>4 DEF IsDone
  <2>2. PICK Q \in SUBSET Threads : Q = R \ {th}
    OBVIOUS
  <2>3. Only(t, {}, Q, {}, {}, {})'
    BY <1>1, <1>2, <2>1, <2>2 DEF Only, RetriesOf, DeathsOf, CallsOf
  <2>4. \A u \in Q : verdict'[u] = "done" /\ phase'[u] # "run"
    BY <1>2, <2>1, <2>2
  <2>5. \A u \in Threads : Writing(u, t)' <=> Writing(u, t)
    BY DEF Writing, AtRest
  <2>6. \A u \in Threads : Writing(u, t)' => u \in Q
    BY <2>1, <2>2, <2>5 DEF Writing
  <2>7. Tells(t, "completed")' /\ t \notin scheduled' /\ successes'[t] > 0
    BY <1>1, <1>4, <2>5 DEF IsDone, Tells, NoWriter, Right
  <2>8. IsDone(t)'
    BY <2>3, <2>4, <2>6, <2>7 DEF IsDone
  <2>9. QED
    BY <2>8 DEF Fate
<1>5. QED
  BY <1>2, <1>3, <1>4, RunnerStage

(* handleFailure has stored it. *)
LEMMA FateStored ==
    ASSUME SSShape, Calm, NEW t \in Tasks, Fate(t), NEW th \in Threads, StoreCopy(th),
           log[cur[th]].task = t, UNCHANGED <<calls, row>>
    PROVE  Fate(t)'
<1> TypeOK /\ StoreTypes
  BY DEF SSShape, DLTypeOK
<1>1. /\ UNCHANGED <<log, stream, scheduled, processed, successes>> /\ AtRest(th)
      /\ phase[th] = "final" /\ verdict[th] \in {"retry", "dead"} /\ Release(th)
  BY DEF StoreCopy, AddRetry, AddDead, historyVars
<1>2. /\ InStream(t)' = InStream(t)
      /\ Runners(t)' = Runners(t) \ {th} /\ th \in Runners(t)
  BY <1>1, ReleaseMoves
<1>3. Runs(t) /\ Only(t, {}, {th}, {}, {}, {})
  BY <1>1, <1>2, RunnerStage
<1>4. /\ t \notin scheduled /\ successes[t] = 0 /\ t \in processed
      /\ NoWriter(t) /\ row[t] # NoRow
  BY <1>1, <1>3, RunsAlone
<1>5. /\ InStream(t)' = {} /\ Runners(t)' = {} /\ CallsOf(t)' = {}
      /\ t \notin scheduled' /\ successes'[t] = 0 /\ t \in processed'
  BY <1>1, <1>2, <1>3, <1>4 DEF Only, CallsOf
<1>6. PICK c : c = Copy(th)
  OBVIOUS
<1>7. c.task = t
  BY <1>6 DEF Copy
<1>8. CASE AddRetry(th) /\ Then(th, t, "retry")
  <2>1. retry' = retry \cup {c} /\ dlq' = dlq
    BY <1>6, <1>8 DEF AddRetry
  <2>2. RetriesOf(t)' = {c} /\ DeathsOf(t)' = {}
    BY <1>3, <1>7, <2>1 DEF Only, RetriesOf, DeathsOf
  <2>3. Only(t, {}, {}, {c}, {}, {})' /\ c \in retry'
    BY <1>5, <2>1, <2>2 DEF Only
  <2>4. Tells(t, "retry")'
    BY <1>1, <1>4, <1>8, OneWriter
  <2>5. OnRetry(t)'
    BY <1>5, <2>3, <2>4 DEF OnRetry
  <2>6. QED
    BY <2>5 DEF Fate
<1>9. CASE AddDead(th) /\ Then(th, t, "dead")
  <2>1. dlq' = dlq \cup {c} /\ retry' = retry
    BY <1>6, <1>9 DEF AddDead
  <2>2. RetriesOf(t)' = {} /\ DeathsOf(t)' = {c}
    BY <1>3, <1>7, <2>1 DEF Only, RetriesOf, DeathsOf
  <2>3. Only(t, {}, {}, {}, {c}, {})' /\ c \in dlq'
    BY <1>5, <2>1, <2>2 DEF Only
  <2>4. Tells(t, "dead")'
    BY <1>1, <1>4, <1>9, OneWriter
  <2>5. IsDead(t)'
    BY <1>5, <2>3, <2>4 DEF IsDead
  <2>6. QED
    BY <2>5 DEF Fate
<1>10. QED
  BY <1>8, <1>9 DEF StoreCopy

(* Only a worker that meets the old key skips the task. *)
LEMMA FateSkipped ==
    ASSUME SSShape, Calm, NEW t \in Tasks, Fate(t), NEW th \in Threads, NEW id \in batch[th],
           log[id].task = t, SkipProcessed(th, id),
           raced' = raced \cup {x \in Tasks : Reviving(x) /\ Skips(x)}
    PROVE  t \in raced'
<1> TypeOK /\ StoreTypes
  BY DEF SSShape, DLTypeOK
<1>1. /\ Take(th, id, "xack", "skip") /\ UNCHANGED <<log, stream>>
      /\ log[id].rc = 0 /\ t \in processed
  BY DEF SkipProcessed, redisVars, FirstAttempt
<1>2. id \in InStream(t)
  BY <1>1, TakeMoves
<1>3. \E k \in calls : k.at = "del" /\ Only(t, {id}, {}, {}, {}, {k})
  <2>1. ~(log[id].rc > 0)
    BY <1>1
  <2>2. QED
    BY <1>1, <1>2, <2>1, MessageStage
<1>4. Reviving(t)
  BY <1>3 DEF Only, CallsOf, Reviving
<1>5. cur'[th] = id /\ verdict'[th] = "skip"
  BY <1>1 DEF Take, TypeOK
<1>6. Skips(t)
  BY <1>5 DEF Skips
<1>7. QED
  BY <1>4, <1>6

(* A task that nobody has published is nowhere. *)
LEMMA Unpublished ==
    ASSUME TypeOK, CopiesPublished, RowsPublished, NEW t \in Tasks, Fate(t), ~Published(t)
    PROVE  IsNew(t) /\ Only(t, {}, {}, {}, {}, {}) /\ t \notin scheduled /\ row[t] = NoRow
<1>1. /\ row[t] = NoRow /\ t \notin scheduled /\ \A id \in Ids : log[id].task # t
      /\ NoWriter(t)
  BY DEF RowsPublished, Published
<1>2. Runners(t) = {}
  BY <1>1 DEF Runners, TypeOK, Ids
<1>3. IsNew(t)
  BY <1>1, <1>2 DEF Fate, IsRevived, Runs, OnRetry, IsDead, IsDone, Only, Tells
<1>4. InStream(t) = {}
  BY <1>1 DEF InStream, TypeOK
<1>5. QED
  BY <1>1, <1>3, <1>4 DEF IsNew, Only

(* The producer's call publishes it. *)
LEMMA FatePublish ==
    ASSUME SSShape, CopiesPublished, RowsPublished, NEW t \in Tasks, Fate(t), ~Published(t),
           Publish(t)
    PROVE  Fate(t)'
<1> TypeOK /\ StoreTypes
  BY DEF SSShape, DLTypeOK
<1>1. /\ IsNew(t) /\ Only(t, {}, {}, {}, {}, {}) /\ t \notin scheduled /\ row[t] = NoRow
  BY Unpublished
<1>2. /\ producer' = [producer EXCEPT ![t] = "create"]
      /\ UNCHANGED <<retry, dlq, processed, cur, phase, verdict, successes, calls, row, job,
                     revival>>
      /\ \/ scheduled' = scheduled \cup {t} /\ UNCHANGED <<log, stream>>
         \/ XAdd(t, 0, TRUE) /\ UNCHANGED scheduled
  BY DEF Publish, Enqueue, threadVars, historyVars, apiVars, markVars
<1>3. producer'[t] = "create"
  BY <1>2 DEF StoreTypes
<1>4. NoWriter(t)' /\ row'[t] \in {NoRow, FirstRow(t)} /\ revival'[t] = {}
  BY <1>1, <1>2 DEF IsNew, NoWriter, Writing, AtRest
<1>5. successes'[t] = 0 /\ t \notin processed'
  BY <1>1, <1>2 DEF IsNew
<1>6. RetriesOf(t)' = {} /\ DeathsOf(t)' = {} /\ CallsOf(t)' = {}
  BY <1>1, <1>2 DEF Only, RetriesOf, DeathsOf, CallsOf
<1>7. CASE scheduled' = scheduled \cup {t} /\ UNCHANGED <<log, stream>>
  <2>1. Only(t, {}, {}, {}, {}, {})'
    BY <1>1, <1>2, <1>6, <1>7 DEF Only, InStream, Runners
  <2>2. ~Retried(t)'
    BY <1>1, <1>2, <1>7 DEF IsNew, Retried, Ids
  <2>3. IsNew(t)'
    BY <1>3, <1>4, <1>5, <1>7, <2>1, <2>2 DEF IsNew
  <2>4. QED
    BY <2>3 DEF Fate
<1>8. CASE XAdd(t, 0, TRUE) /\ UNCHANGED scheduled
  <2>1. /\ \A id \in Ids : id \in Ids' /\ log'[id] = log[id]
        /\ Runners(t)' = Runners(t)
        /\ \E n : /\ Ids' = Ids \cup {n} /\ n \notin Ids
                  /\ log'[n].task = t /\ log'[n].rc = 0
                  /\ InStream(t)' = InStream(t) \cup {n}
    <3>1. PICK ok \in BOOLEAN, rc \in Nat : ok /\ rc = 0
      OBVIOUS
    <3>2. XAdd(t, rc, ok)
      BY <1>8, <3>1
    <3>3. QED
      BY <1>2, <3>1, <3>2, NewMessage
  <2>2. PICK n : /\ Ids' = Ids \cup {n} /\ n \notin Ids
                 /\ log'[n].task = t /\ log'[n].rc = 0
                 /\ InStream(t)' = InStream(t) \cup {n}
    BY <2>1
  <2>3. Only(t, {n}, {}, {}, {}, {})'
    BY <1>1, <1>6, <2>1, <2>2 DEF Only
  <2>4. ~Retried(t)'
    BY <1>1, <1>2, <2>1, <2>2 DEF IsNew, Retried
  <2>5. IsNew(t)'
    BY <1>1, <1>3, <1>4, <1>5, <1>8, <2>2, <2>3, <2>4 DEF IsNew
  <2>6. QED
    BY <2>5 DEF Fate
<1>9. QED
  BY <1>2, <1>7, <1>8

(* The scheduler moves the task to the stream. *)
LEMMA FateDue ==
    ASSUME SSShape, NEW t \in Tasks, Fate(t), EnqueueScheduled(t),
           UNCHANGED <<calls, row, job, revival, producer>>
    PROVE  Fate(t)'
<1> TypeOK /\ StoreTypes
  BY DEF SSShape, DLTypeOK
<1>1. /\ t \in scheduled /\ t \notin scheduled'
      /\ UNCHANGED <<retry, dlq, processed, cur, phase, verdict, successes>>
  BY DEF EnqueueScheduled, threadVars, historyVars
<1>2. PICK ok \in BOOLEAN, rc \in Nat : rc = 0 /\ XAdd(t, rc, ok)
  BY DEF EnqueueScheduled
<1>3. IsNew(t)
  BY <1>1 DEF Fate, IsRevived, Runs, OnRetry, IsDead, IsDone
<1>4. Only(t, {}, {}, {}, {}, {}) /\ Published(t)
  BY <1>1, <1>3 DEF IsNew, Published
<1>5. PICK n : /\ Ids' = Ids \cup {n} /\ n \notin Ids
               /\ log'[n].task = t /\ log'[n].rc = 0
               /\ InStream(t)' = InStream(t) \cup {n}
  BY <1>1, <1>2, NewMessage
<1>6. (\A id \in Ids : id \in Ids' /\ log'[id] = log[id]) /\ Runners(t)' = Runners(t)
  BY <1>1, <1>2, NewMessage
<1>7. Only(t, {n}, {}, {}, {}, {})'
  BY <1>1, <1>4, <1>5, <1>6 DEF Only, RetriesOf, DeathsOf, CallsOf
<1>8. ~Retried(t)'
  BY <1>1, <1>3, <1>5, <1>6 DEF IsNew, Retried
<1>9. /\ NoWriter(t)' /\ successes'[t] = 0 /\ t \notin processed' /\ revival'[t] = {}
      /\ row'[t] \in {NoRow, FirstRow(t)}
      /\ row'[t] = NoRow => producer'[t] = "create"
  BY <1>1, <1>3, <1>4 DEF IsNew, NoWriter, Writing, AtRest
<1>10. IsNew(t)'
  BY <1>1, <1>5, <1>7, <1>8, <1>9 DEF IsNew, FirstRow
<1>11. QED
  BY <1>10 DEF Fate

(* So it does with a retry, whose row has been written by then. *)
LEMMA FateRetried ==
    ASSUME SSShape, NEW t \in Tasks, Fate(t), NEW c \in retry, c.task = t, EnqueueRetry(c),
           NoWriter(t), UNCHANGED <<calls, row, job, revival>>
    PROVE  Fate(t)'
<1> TypeOK /\ StoreTypes
  BY DEF SSShape, DLTypeOK
<1>1. /\ retry' = retry \ {c}
      /\ UNCHANGED <<dlq, scheduled, processed, cur, phase, verdict, successes>>
  BY DEF EnqueueRetry, threadVars, historyVars
<1>2. c.rc \in Nat /\ c.rc > 0
  BY DEF SSShape, AttemptInv, AttemptsBounded, TypeOK, RetryCopy
<1>3. PICK rc \in Nat, ok \in BOOLEAN : rc = c.rc /\ XAdd(t, rc, ok)
  BY <1>2 DEF EnqueueRetry
<1>4. c \in RetriesOf(t)
  BY DEF RetriesOf
<1>5. OnRetry(t) /\ Only(t, {}, {}, {c}, {}, {})
  BY <1>4 DEF Fate, IsNew, IsRevived, Runs, OnRetry, IsDead, IsDone, Only
<1>6. PICK n : /\ Ids' = Ids \cup {n} /\ n \notin Ids
               /\ log'[n].task = t /\ log'[n].rc = rc
               /\ InStream(t)' = InStream(t) \cup {n}
  BY <1>1, <1>3, NewMessage
<1>7. Runners(t)' = Runners(t)
  BY <1>1, <1>3, NewMessage
<1>8. RetriesOf(t)' = {} /\ DeathsOf(t)' = {} /\ CallsOf(t)' = {}
  BY <1>1, <1>5 DEF Only, RetriesOf, DeathsOf, CallsOf
<1>9. Only(t, {n}, {}, {}, {}, {})'
  BY <1>5, <1>6, <1>7, <1>8 DEF Only
<1>10. NoWriter(t)' /\ Tells(t, "retry")'
  BY <1>5 DEF OnRetry, NoWriter, Tells, Right, Writing, AtRest
<1>11. t \notin scheduled' /\ successes'[t] = 0 /\ t \in processed'
  BY <1>1, <1>5 DEF OnRetry
<1>12. OnRetry(t)'
  BY <1>2, <1>3, <1>6, <1>9, <1>10, <1>11 DEF OnRetry
<1>13. QED
  BY <1>12 DEF Fate

-----------------------------------------------------------------------------
(* The steps of the calls that revive a task, and those of the store.       *)

(* The stages of a task with a copy in the dead letter queue.               *)
LEMMA CopyStage ==
    ASSUME NEW t, Fate(t), NEW c \in DeathsOf(t)
    PROVE  IsDead(t) /\ Only(t, {}, {}, {}, {c}, {})
BY DEF Fate, IsNew, IsRevived, Runs, OnRetry, IsDead, IsDone, Only

(* The stages of a task that a call revives.                                *)
LEMMA CallStage ==
    ASSUME NEW t, Fate(t), NEW k \in CallsOf(t)
    PROVE  /\ t \notin scheduled /\ successes[t] = 0 /\ t \in processed
           /\ revival[t] # {} /\ NoWriter(t) /\ Tells(t, "dead")
           /\ \/ k.at = "xadd" /\ Only(t, {}, {}, {}, {}, {k})
              \/ /\ k.at = "del"
                 /\ \E id \in Ids : log[id].rc = 0 /\ Only(t, {id}, {}, {}, {}, {k})
<1>1. CASE IsRevived(t)
  BY <1>1 DEF IsRevived, Only
<1>2. CASE IsDead(t)
  BY <1>2 DEF IsDead, Only
<1>3. CASE IsNew(t) \/ Runs(t) \/ OnRetry(t) \/ IsDone(t)
  BY <1>3 DEF IsNew, Runs, OnRetry, IsDone, Only
<1>4. QED
  BY <1>1, <1>2, <1>3 DEF Fate

(* A row that nobody writes tells the same when the task is revived again. *)
LEMMA TellsStays ==
    ASSUME NEW t, NEW s, Tells(t, s), NoWriter(t), UNCHANGED <<row, job>>,
           revival[t] \subseteq revival'[t]
    PROVE  Tells(t, s)' /\ NoWriter(t)'
BY DEF Tells, Right, NoWriter, Writing, AtRest

(* The call that takes the copy out of the queue. *)
LEMMA FateTaken ==
    ASSUME SSShape, NEW k \in calls, NEW t \in Tasks, Fate(t), k.copy.task = t, XDelDead(k),
           revival' = [revival EXCEPT ![t] = @ \cup {Way(k)}],
           "overtaking" \notin revival'[t], UNCHANGED <<row, job>>
    PROVE  Fate(t)'
<1> TypeOK /\ StoreTypes /\ DLTypeOK
  BY DEF SSShape, DLTypeOK
<1>1. revival'[t] = revival[t] \cup {Way(k)}
  BY DEF StoreTypes
<1>2. k.copy \in dlq /\ NoWriter(t)
  BY <1>1 DEF Way, NoWriter
<1>3. PICK c \in dlq : c = k.copy
  BY <1>2
<1>4. /\ IsDead(t) /\ Only(t, {}, {}, {}, {c}, {})
  BY <1>3, CopyStage DEF DeathsOf
<1>5. PICK j : j = [k EXCEPT !.at = "xadd"]
  OBVIOUS
<1>6. /\ dlq' = dlq \ {c} /\ calls' = (calls \ {k}) \cup {j} /\ k.at = "xdel"
      /\ UNCHANGED <<log, stream, scheduled, retry, processed, cur, successes>>
  BY <1>3, <1>5 DEF XDelDead, Advance, threadVars, historyVars
<1>7. j.at = "xadd" /\ j.copy = k.copy
  BY <1>5 DEF DLTypeOK, Call
<1>8. CallsOf(t)' = {j}
  BY <1>4, <1>6, <1>7 DEF Only, CallsOf
<1>9. Only(t, {}, {}, {}, {}, {j})'
  BY <1>4, <1>6, <1>8 DEF Only, InStream, Runners, RetriesOf, DeathsOf
<1>10. /\ t \notin scheduled' /\ successes'[t] = 0 /\ t \in processed' /\ revival'[t] # {}
  BY <1>1, <1>4, <1>6 DEF IsDead
<1>11. Tells(t, "dead")' /\ NoWriter(t)'
  BY <1>1, <1>2, <1>4, TellsStays DEF IsDead
<1>12. IsDead(t)'
  BY <1>6, <1>7, <1>9, <1>10, <1>11 DEF IsDead
<1>13. QED
  BY <1>12 DEF Fate

(* Its XADD, with the retry count of a new task. *)
LEMMA FateRevived ==
    ASSUME SSShape, NEW k \in calls, NEW t \in Tasks, Fate(t), k.copy.task = t, XAddRevived(k),
           UNCHANGED <<row, job, revival>>
    PROVE  Fate(t)'
<1> TypeOK /\ StoreTypes /\ DLTypeOK
  BY DEF SSShape, DLTypeOK
<1>1. PICK j : j = [k EXCEPT !.at = "del"]
  OBVIOUS
<1>2. /\ calls' = (calls \ {k}) \cup {j} /\ k.at = "xadd"
      /\ UNCHANGED <<scheduled, retry, dlq, processed, cur, successes>>
  BY <1>1 DEF XAddRevived, Advance, threadVars, historyVars
<1>3. j.at = "del" /\ j.copy = k.copy
  BY <1>1 DEF DLTypeOK, Call
<1>4. /\ t \notin scheduled /\ successes[t] = 0 /\ t \in processed /\ revival[t] # {}
      /\ NoWriter(t) /\ Tells(t, "dead") /\ Only(t, {}, {}, {}, {}, {k})
  BY <1>2, CallStage DEF CallsOf
<1>5. PICK rc \in Nat, ok \in BOOLEAN : rc = 0 /\ XAdd(t, rc, ok)
  BY DEF XAddRevived
<1>6. PICK n : /\ Ids' = Ids \cup {n} /\ n \notin Ids
               /\ log'[n].task = t /\ log'[n].rc = 0
               /\ InStream(t)' = InStream(t) \cup {n}
  BY <1>2, <1>5, NewMessage
<1>7. Runners(t)' = Runners(t)
  BY <1>2, <1>5, NewMessage
<1>8. CallsOf(t)' = {j}
  BY <1>2, <1>3, <1>4 DEF Only, CallsOf
<1>9. Only(t, {n}, {}, {}, {}, {j})'
  BY <1>2, <1>4, <1>6, <1>7, <1>8 DEF Only, RetriesOf, DeathsOf
<1>10. Tells(t, "dead")' /\ NoWriter(t)'
  BY <1>4, TellsStays
<1>11. /\ t \notin scheduled' /\ successes'[t] = 0 /\ t \in processed' /\ revival'[t] # {}
       /\ j \in calls' /\ n \in Ids'
  BY <1>2, <1>4, <1>6
<1>12. IsRevived(t)'
  BY <1>3, <1>6, <1>9, <1>10, <1>11 DEF IsRevived
<1>13. QED
  BY <1>12 DEF Fate

(* Its DEL of the old key: the task is as good as new. *)
LEMMA FateCleared ==
    ASSUME SSShape, NEW k \in calls, NEW t \in Tasks, Fate(t), k.copy.task = t,
           ClearProcessed(k), UNCHANGED <<row, job, revival>>
    PROVE  Fate(t)'
<1> TypeOK /\ StoreTypes /\ DLTypeOK
  BY DEF SSShape, DLTypeOK
<1>1. /\ calls' = calls \ {k} /\ k.at = "del" /\ processed' = processed \ {t}
      /\ UNCHANGED <<log, stream, scheduled, retry, dlq, cur, successes>>
  BY DEF ClearProcessed, threadVars
<1>2. /\ t \notin scheduled /\ successes[t] = 0 /\ revival[t] # {}
      /\ NoWriter(t) /\ Tells(t, "dead")
      /\ \E id \in Ids : log[id].rc = 0 /\ Only(t, {id}, {}, {}, {}, {k})
  BY <1>1, CallStage DEF CallsOf
<1>3. PICK id \in Ids : log[id].rc = 0 /\ Only(t, {id}, {}, {}, {}, {k})
  BY <1>2
<1>4. CallsOf(t)' = {}
  BY <1>1, <1>3 DEF Only, CallsOf
<1>5. Only(t, {id}, {}, {}, {}, {})'
  BY <1>1, <1>3, <1>4 DEF Only, InStream, Runners, RetriesOf, DeathsOf
<1>6. Tells(t, "dead")' /\ NoWriter(t)'
  BY <1>2, TellsStays
<1>7. /\ t \notin scheduled' /\ successes'[t] = 0 /\ t \notin processed' /\ revival'[t] # {}
      /\ id \in Ids' /\ log'[id].rc = 0
  BY <1>1, <1>2, <1>3 DEF Ids
<1>8. IsRevived(t)'
  BY <1>5, <1>6, <1>7 DEF IsRevived
<1>9. QED
  BY <1>8 DEF Fate

(* A step of the store is no step in the life of a task. *)
LEMMA StoreLife ==
    ASSUME UNCHANGED <<redisVars, cur, phase, verdict, successes, calls>>, NEW t
    PROVE  SameLife(t)
<1>1. UNCHANGED <<log, stream, scheduled, retry, dlq, processed>>
  BY DEF redisVars
<1>2. /\ InStream(t)' = InStream(t) /\ Runners(t)' = Runners(t)
      /\ RetriesOf(t)' = RetriesOf(t) /\ DeathsOf(t)' = DeathsOf(t)
      /\ CallsOf(t)' = CallsOf(t)
  BY <1>1 DEF InStream, Runners, RetriesOf, DeathsOf, CallsOf
<1>3. QED
  BY <1>1, <1>2, LifeKept

(* What a step of the store has to leave true of a task's row. *)
LEMMA FateRow ==
    ASSUME NEW t, Fate(t), SameLife(t), revival'[t] = revival[t],
           \A u \in Threads : Writing(u, t)' => Writing(u, t),
           IsNew(t) => /\ row'[t] \in {NoRow, FirstRow(t)}
                       /\ Published(t) /\ row'[t] = NoRow => producer'[t] = "create",
           \A s \in {"retry", "dead", "completed"} : Tells(t, s) => Tells(t, s)',
           Runs(t) => /\ \A u \in Threads : Writing(u, t)' => job'[u].state = "active"
                      /\ NoWriter(t)' => row'[t] # NoRow
    PROVE  Fate(t)'
<1>1. \A M, R, Y, D, K : Only(t, M, R, Y, D, K)' <=> Only(t, M, R, Y, D, K)
  BY DEF SameLife, Only
<1>2. NoWriter(t) => NoWriter(t)'
  BY DEF NoWriter
<1>3. \A k : (k \in RetriesOf(t) <=> k \in retry /\ k.task = t)
             /\ (k \in DeathsOf(t) <=> k \in dlq /\ k.task = t)
             /\ (k \in CallsOf(t) <=> k \in calls /\ k.at # "xdel" /\ k.copy.task = t)
  BY DEF RetriesOf, DeathsOf, CallsOf
<1>4. \A k : (k \in RetriesOf(t)' <=> k \in retry' /\ k.task = t)
             /\ (k \in DeathsOf(t)' <=> k \in dlq' /\ k.task = t)
             /\ (k \in CallsOf(t)' <=> k \in calls' /\ k.at # "xdel" /\ k.copy.task = t)
  BY DEF RetriesOf, DeathsOf, CallsOf
<1>5. CASE IsNew(t)
  <2>1. IsNew(t)'
    BY <1>1, <1>2, <1>5 DEF IsNew, SameLife, FirstRow
  <2>2. QED
    BY <2>1 DEF Fate
<1>6. CASE IsRevived(t)
  <2>1. IsRevived(t)'
    BY <1>1, <1>2, <1>3, <1>4, <1>6 DEF IsRevived, SameLife, Only
  <2>2. QED
    BY <2>1 DEF Fate
<1>7. CASE Runs(t)
  <2>1. Runs(t)'
    BY <1>1, <1>2, <1>7 DEF Runs, SameLife, Only
  <2>2. QED
    BY <2>1 DEF Fate
<1>8. CASE OnRetry(t)
  <2>1. OnRetry(t)'
    BY <1>1, <1>2, <1>3, <1>4, <1>8 DEF OnRetry, SameLife, Only
  <2>2. QED
    BY <2>1 DEF Fate
<1>9. CASE IsDead(t)
  <2>1. IsDead(t)'
    BY <1>1, <1>2, <1>3, <1>4, <1>9 DEF IsDead, SameLife, Only
  <2>2. QED
    BY <2>1 DEF Fate
<1>10. CASE IsDone(t)
  <2>1. IsDone(t)'
    BY <1>1, <1>10 DEF IsDone, SameLife, Only
  <2>2. QED
    BY <2>1 DEF Fate
<1>11. QED
  BY <1>5, <1>6, <1>7, <1>8, <1>9, <1>10 DEF Fate

(* Nobody else has the key, so no row is refused. *)
LEMMA NotRefused ==
    ASSUME RowsPublished, KeyOnce, NEW t \in Keyed, Published(t)
    PROVE  ~Refused(t)
<1>1. \A u \in Keyed : row[u] # NoRow => u \in Held
  BY StoreAssumption DEF RowsPublished, Held
<1>2. t \in Held
  BY DEF Held
<1>3. QED
  BY <1>1, <1>2 DEF KeyOnce, Refused

(* The producer's INSERT, which comes late or first. *)
LEMMA FateCreate ==
    ASSUME SSShape, RowsPublished, KeyOnce, NEW t \in Keyed, Fate(t), CreateTask(t)
    PROVE  Fate(t)'
<1> StoreTypes /\ t \in Tasks
  BY StoreAssumption DEF SSShape
<1>1. /\ producer[t] = "create" /\ producer' = [producer EXCEPT ![t] = "idle"]
      /\ UNCHANGED <<redisVars, cur, phase, verdict, successes, calls, job, revival>>
      /\ Insert(t, FirstRow(t).state)
  BY DEF CreateTask, dlVars, vars, threadVars, historyVars, apiVars, markVars, FirstRow
<1>2. SameLife(t)
  BY <1>1, StoreLife
<1>3. ~Refused(t)
  BY <1>1, NotRefused DEF RowsPublished
<1>4. row' = IF row[t] # NoRow THEN row ELSE [row EXCEPT ![t] = FirstRow(t)]
  BY <1>1, <1>3 DEF Insert, FirstRow
<1>5. row'[t] = (IF row[t] # NoRow THEN row[t] ELSE FirstRow(t)) /\ row'[t] # NoRow
  BY <1>4 DEF StoreTypes, FirstRow, NoRow
<1>6. \A u \in Threads : Writing(u, t)' <=> Writing(u, t)
  BY <1>1 DEF Writing, AtRest
<1>7. \A s : Tells(t, s) => Tells(t, s)'
  BY <1>1, <1>5, <1>6 DEF Tells, Right, NoWriter
<1>8. IsNew(t) => row'[t] \in {NoRow, FirstRow(t)}
  BY <1>5 DEF IsNew
<1>9. Runs(t) => \A u \in Threads : Writing(u, t)' => job'[u].state = "active"
  BY <1>1, <1>6 DEF Runs
<1>10. revival'[t] = revival[t]
  BY <1>1
<1>11. QED
  BY <1>2, <1>5, <1>6, <1>7, <1>8, <1>9, <1>10, FateRow

(* UpdateTask: the UPDATE, which finds the row or does not. *)
LEMMA FateUpdate ==
    ASSUME SSShape, NEW t \in Tasks, Fate(t), NEW th \in Threads, UpdateRow(th),
           job[th].task = t
    PROVE  Fate(t)'
<1> StoreTypes
  BY DEF SSShape
<1>1. /\ job[th].at = "update"
      /\ UNCHANGED <<redisVars, cur, phase, verdict, successes, calls, revival>>
  BY DEF UpdateRow, dlVars, vars, threadVars, historyVars, apiVars, markVars
<1>2. ~AtRest(th) /\ Writing(th, t)
  BY <1>1 DEF AtRest, Writing, NoJob
<1>3. job[th] \in Jobs /\ job[th].state # "none"
  BY <1>2, JobType
<1>4. SameLife(t) /\ revival'[t] = revival[t]
  BY <1>1, StoreLife
<1>5. ~IsNew(t)
  BY <1>2 DEF IsNew, NoWriter
<1>6. CASE row[t] # NoRow
  <2>1. /\ row' = [row EXCEPT ![t] = [state |-> job[th].state, ended |-> job[th].state \in Final]]
        /\ job' = [job EXCEPT ![th] = NoJob]
    BY <1>6 DEF UpdateRow
  <2>2. /\ row'[t] = [state |-> job[th].state, ended |-> job[th].state \in Final]
        /\ row'[t] # NoRow
    BY <1>3, <2>1 DEF StoreTypes, NoRow
  <2>3. /\ ~Writing(th, t)'
        /\ \A u \in Threads : u # th => job'[u] = job[u] /\ (Writing(u, t)' <=> Writing(u, t))
    BY <2>1 DEF StoreTypes, Writing, AtRest
  <2>4. ASSUME NEW s, Tells(t, s) PROVE Tells(t, s)'
    <3>1. job[th] = Write(t, s)
      BY <1>2, <2>4 DEF Tells
    <3>2. job[th].state = s
      BY <3>1 DEF Write
    <3>3. Right(t, s)'
      BY <2>2, <3>2 DEF Right
    <3>4. QED
      BY <2>2, <2>3, <2>4, <3>3 DEF Tells
  <2>5. Runs(t) => \A u \in Threads : Writing(u, t)' => job'[u].state = "active"
    BY <2>3 DEF Runs
  <2>6. \A u \in Threads : Writing(u, t)' => Writing(u, t)
    BY <2>3
  <2>7. QED
    BY <1>4, <1>5, <2>2, <2>4, <2>5, <2>6, FateRow
<1>7. CASE row[t] = NoRow
  <2>1. job' = [job EXCEPT ![th].at = "insert"] /\ row' = row
    BY <1>7 DEF UpdateRow
  <2>2. job'[th] = [job[th] EXCEPT !.at = "insert"] /\ \A u \in Threads : u # th => job'[u] = job[u]
    BY <2>1 DEF StoreTypes
  <2>3. job'[th].task = t /\ job'[th].state = job[th].state /\ job'[th].at = "insert"
    BY <1>3, <2>2 DEF Jobs
  <2>4. Writing(th, t)'
    BY <2>3 DEF Writing, AtRest, NoJob
  <2>5. \A u \in Threads : Writing(u, t)' <=> Writing(u, t)
    BY <1>2, <2>2, <2>4 DEF Writing, AtRest
  <2>6. \A s : ~Tells(t, s)
    BY <1>7 DEF Tells
  <2>7. Runs(t) => \A u \in Threads : Writing(u, t)' => job'[u].state = "active"
    BY <2>2, <2>3, <2>5 DEF Runs
  <2>8. ~NoWriter(t)'
    BY <2>4 DEF NoWriter
  <2>9. QED
    BY <1>4, <1>5, <2>5, <2>6, <2>7, <2>8, FateRow
<1>8. QED
  BY <1>6, <1>7

(* The INSERT that follows, unless the producer has come first. *)
LEMMA FateInsert ==
    ASSUME SSShape, RowsPublished, KeyOnce, NEW t \in Keyed, Fate(t),
           NEW th \in Threads, InsertRow(th), job[th].task = t
    PROVE  Fate(t)'
<1> StoreTypes /\ t \in Tasks
  BY StoreAssumption DEF SSShape
<1>1. /\ job[th].at = "insert" /\ Insert(t, job[th].state)
      /\ job' = [job EXCEPT ![th] = NoJob]
      /\ UNCHANGED <<redisVars, cur, phase, verdict, successes, calls, revival>>
  BY DEF InsertRow, dlVars, vars, threadVars, historyVars, apiVars, markVars
<1>2. ~AtRest(th) /\ Writing(th, t)
  BY <1>1 DEF AtRest, Writing, NoJob
<1>3. job[th].state # "none"
  BY <1>2, JobType
<1>4. SameLife(t) /\ revival'[t] = revival[t]
  BY <1>1, StoreLife
<1>5. ~IsNew(t)
  BY <1>2 DEF IsNew, NoWriter
<1>6. ASSUME NEW s PROVE ~Tells(t, s)
  <2>1. Write(t, s).at = "update"
    BY DEF Write
  <2>2. QED
    BY <1>1, <1>2, <2>1 DEF Tells
<1>7. ~Refused(t)
  <2>1. Published(t)
    BY <1>2 DEF RowsPublished, NoWriter
  <2>2. QED
    BY <2>1, NotRefused
<1>8. row' = IF row[t] # NoRow THEN row
             ELSE [row EXCEPT ![t] = [state |-> job[th].state, ended |-> FALSE]]
  BY <1>1, <1>7 DEF Insert
<1>9. row'[t] # NoRow
  BY <1>3, <1>8 DEF StoreTypes, NoRow
<1>10. /\ ~Writing(th, t)'
       /\ \A u \in Threads : u # th => job'[u] = job[u] /\ (Writing(u, t)' <=> Writing(u, t))
  BY <1>1 DEF StoreTypes, Writing, AtRest
<1>11. Runs(t) => \A u \in Threads : Writing(u, t)' => job'[u].state = "active"
  BY <1>10 DEF Runs
<1>12. \A u \in Threads : Writing(u, t)' => Writing(u, t)
  BY <1>10
<1>13. QED
  BY <1>4, <1>5, <1>6, <1>9, <1>11, <1>12, FateRow

(* The mark of handleRetryTask. *)
LEMMA FateMark ==
    ASSUME SSShape, MarksKnown, NEW t \in Tasks, Fate(t), "overtaking" \notin revival[t],
           NEW m \in marks, m.task = t, MarkPending(m)
    PROVE  Fate(t)'
<1> StoreTypes
  BY DEF SSShape
<1>1. /\ row' = IF row[t] = NoRow THEN row ELSE [row EXCEPT ![t].state = "pending"]
      /\ UNCHANGED <<redisVars, cur, phase, verdict, successes, calls, revival, job>>
  BY DEF MarkPending, dlVars, vars, threadVars, historyVars, apiVars
<1>2. "marking" \in revival[t]
  BY DEF MarksKnown
<1>3. row[t] # NoRow => row'[t].state = "pending" /\ row'[t] # NoRow
  <2>1. row[t] \in [state : States, ended : BOOLEAN]
    BY DEF StoreTypes
  <2>2. row[t] # NoRow => row'[t] = [row[t] EXCEPT !.state = "pending"]
    BY <1>1 DEF StoreTypes
  <2>3. QED
    BY <2>1, <2>2 DEF NoRow
<1>4. SameLife(t) /\ revival'[t] = revival[t]
  BY <1>1, StoreLife
<1>5. \A u \in Threads : Writing(u, t)' <=> Writing(u, t)
  BY <1>1 DEF Writing, AtRest
<1>6. ~IsNew(t)
  BY <1>2 DEF IsNew
<1>7. \A s : Tells(t, s) => Tells(t, s)'
  BY <1>1, <1>2, <1>3, <1>5 DEF Tells, Right, NoWriter
<1>8. Runs(t) => /\ \A u \in Threads : Writing(u, t)' => job'[u].state = "active"
                 /\ NoWriter(t)' => row'[t] # NoRow
  BY <1>1, <1>3, <1>5 DEF Runs, NoWriter
<1>9. QED
  BY <1>4, <1>5, <1>6, <1>7, <1>8, FateRow

-----------------------------------------------------------------------------
(* All steps together.                                                      *)

(* A goroutine that begins another task's message. *)
LEMMA OtherBegins ==
    ASSUME SSShape, Calm, NEW t \in Tasks, NEW th \in Threads, NEW id \in batch[th],
           log[id].task # t,
           BeginFirst(th, id) \/ BeginRetry(th, id) \/ SkipProcessed(th, id), UNCHANGED calls
    PROVE  SameLife(t)
<1> TypeOK
  BY DEF SSShape, DLTypeOK
<1>1. /\ UNCHANGED <<log, stream, scheduled, retry, dlq, successes>>
      /\ t \in processed' <=> t \in processed
  BY DEF BeginFirst, BeginRetry, SkipProcessed, SetNX, redisVars, historyVars
<1>2. PICK where, v : Take(th, id, where, v)
  BY DEF BeginFirst, BeginRetry, SkipProcessed
<1>3. /\ InStream(t)' = InStream(t) /\ Runners(t)' = Runners(t) /\ th \notin Runners(t)
      /\ phase' = [phase EXCEPT ![th] = where]
      /\ verdict' = [verdict EXCEPT ![th] = v]
  BY <1>1, <1>2, TakeMoves
<1>4. \A u \in Runners(t) : phase'[u] = phase[u] /\ verdict'[u] = verdict[u]
  BY <1>3 DEF TypeOK, Runners
<1>5. RetriesOf(t)' = RetriesOf(t) /\ DeathsOf(t)' = DeathsOf(t) /\ CallsOf(t)' = CallsOf(t)
  BY <1>1 DEF RetriesOf, DeathsOf, CallsOf
<1>6. QED
  BY <1>1, <1>3, <1>4, <1>5, LifeKept

(* One that works on another task's message, or stores it. *)
LEMMA OtherWorks ==
    ASSUME SSShape, Calm, NEW t \in Tasks, NEW th \in Threads, log[cur[th]].task # t,
           \/ Succeed(th) \/ Fail(th) \/ XAck(th) \/ XDel(th)
           \/ CountCompleted(th) \/ AddRetry(th) \/ AddDead(th),
           UNCHANGED calls
    PROVE  SameLife(t)
<1> TypeOK
  BY DEF SSShape, DLTypeOK
<1>1. th \notin Runners(t)
  BY DEF Runners
<1>2. UNCHANGED <<log, scheduled, processed>>
  BY DEF Succeed, Fail, XAck, XDel, CountCompleted, AddRetry, AddDead, redisVars
<1>3. cur[th] \in Ids
  BY CurType DEF Succeed, Fail, XAck, XDel, CountCompleted, AddRetry, AddDead
<1>4. successes'[t] = successes[t]
  <2>1. CASE Succeed(th)
    <3>1. log[cur[th]].task \in Tasks
      BY <1>3, EntryType
    <3>2. successes' = [successes EXCEPT ![log[cur[th]].task] = @ + 1]
      BY <2>1 DEF Succeed
    <3>3. QED
      BY <3>1, <3>2 DEF TypeOK
  <2>2. CASE UNCHANGED successes
    BY <2>2
  <2>3. QED
    BY <2>1, <2>2 DEF Fail, XAck, XDel, CountCompleted, AddRetry, AddDead, historyVars
<1>5. PICK c : c = Copy(th)
  OBVIOUS
<1>6. c.task # t
  BY <1>5 DEF Copy
<1>7. retry' \in {retry, retry \cup {c}} /\ dlq' \in {dlq, dlq \cup {c}}
  BY <1>5 DEF Succeed, Fail, XAck, XDel, CountCompleted, AddRetry, AddDead, redisVars
<1>8. RetriesOf(t)' = RetriesOf(t) /\ DeathsOf(t)' = DeathsOf(t) /\ CallsOf(t)' = CallsOf(t)
  BY <1>6, <1>7 DEF RetriesOf, DeathsOf, CallsOf
<1>9. /\ InStream(t)' = InStream(t) /\ Runners(t)' = Runners(t)
      /\ \A u \in Threads : u # th => phase'[u] = phase[u] /\ verdict'[u] = verdict[u]
  <2>1. CASE Succeed(th) \/ Fail(th) \/ XAck(th) \/ XDel(th)
    <3>1. cur' = cur /\ stream' \in {stream, stream \ {cur[th]}}
      BY <2>1 DEF Succeed, Fail, XAck, XDel, redisVars
    <3>2. InStream(t)' = InStream(t) /\ Runners(t)' = Runners(t)
      BY <1>2, <3>1, StayMoves
    <3>3. /\ \E p : phase' = [phase EXCEPT ![th] = p]
          /\ \E v : verdict' = [verdict EXCEPT ![th] = v] \/ verdict' = verdict
      BY <2>1 DEF Succeed, Fail, XAck, XDel
    <3>4. QED
      BY <3>2, <3>3 DEF TypeOK
  <2>2. CASE CountCompleted(th) \/ AddRetry(th) \/ AddDead(th)
    <3>1. phase[th] = "final" /\ Release(th) /\ UNCHANGED stream
      BY <2>2 DEF CountCompleted, AddRetry, AddDead
    <3>2. PICK x : log[cur[th]].task = x
      OBVIOUS
    <3>3. QED
      BY <1>2, <3>1, <3>2, ReleaseMoves
  <2>3. QED
    BY <2>1, <2>2
<1>10. \A u \in Runners(t) : phase'[u] = phase[u] /\ verdict'[u] = verdict[u]
  BY <1>1, <1>9 DEF Runners
<1>11. QED
  BY <1>2, <1>4, <1>8, <1>9, <1>10, LifeKept

(* Batches, and who has which, are no matter. *)
LEMMA BatchLife ==
    ASSUME SSShape, Calm, NEW t \in Tasks,
           UNCHANGED <<log, stream, scheduled, retry, dlq, processed, cur, verdict,
                       successes, calls>>,
           \A u \in Threads : phase[u] \notin {"down", "ready"} => phase'[u] = phase[u]
    PROVE  SameLife(t)
<1>1. /\ InStream(t)' = InStream(t) /\ Runners(t)' = Runners(t)
      /\ RetriesOf(t)' = RetriesOf(t) /\ DeathsOf(t)' = DeathsOf(t)
      /\ CallsOf(t)' = CallsOf(t)
  BY DEF InStream, Runners, RetriesOf, DeathsOf, CallsOf
<1>2. \A u \in Runners(t) : phase'[u] = phase[u]
  BY DEF Runners, Calm, GoroutinesClean
<1>3. QED
  BY <1>1, <1>2, LifeKept

(* The steps of the workers, of the schedulers and of the keys.             *)
LEMMA FateWorkload ==
    ASSUME SSShape, BudgetInv, Calm, NoFaultYet', ~SlowStore,
           NEW t \in Tasks, t \notin raced', Fate(t), Workload
    PROVE  Fate(t)'
<1> TypeOK /\ StoreTypes
  BY DEF SSShape, DLTypeOK
<1>1. /\ UNCHANGED <<calls, producer, row, revival>>
      /\ raced' = raced \cup {x \in Tasks : Reviving(x) /\ Skips(x)}
  BY DEF Workload, markVars
<1>2. ASSUME SameLife(t), SameWrites(t) PROVE Fate(t)'
  BY <1>1, <1>2, FateSame DEF SameRow
<1>3. ASSUME UNCHANGED job PROVE SameWrites(t)
  BY <1>3 DEF SameWrites, Writing, AtRest
<1>4. ASSUME NEW th \in Threads, AtRest(th), NEW x, NEW s, x # t, Then(th, x, s)
      PROVE  SameWrites(t)
  BY <1>4, ThenWrites
<1>5. ASSUME NEW th \in Threads, Work(th) PROVE Fate(t)'
  <2>1. AtRest(th)
    BY <1>5 DEF Work
  <2>2. ASSUME NEW id \in batch[th], DropInvalid(th, id), UNCHANGED job PROVE Fate(t)'
    <3>1. /\ UNCHANGED <<log, stream, scheduled, retry, dlq, processed, cur, verdict, successes>>
          /\ phase[th] = "ready"
      BY <2>2 DEF DropInvalid, historyVars
    <3>2. \A u \in Threads : u # th => phase'[u] = phase[u]
      BY <2>2 DEF DropInvalid, TypeOK
    <3>3. QED
      BY <1>1, <1>2, <1>3, <2>2, <3>1, <3>2, BatchLife
  <2>3. ASSUME NEW id \in batch[th], SkipProcessed(th, id), UNCHANGED job PROVE Fate(t)'
    <3>1. log[id].task # t
      BY <1>1, <2>3, FateSkipped
    <3>2. QED
      BY <1>1, <1>2, <1>3, <2>3, <3>1, OtherBegins
  <2>4. ASSUME NEW id \in batch[th], BeginRetry(th, id) \/ BeginFirst(th, id),
               Then(th, log[id].task, "active")
        PROVE  Fate(t)'
    <3>1. CASE log[id].task = t
      BY <1>1, <2>1, <2>4, <3>1, FateBegin
    <3>2. CASE log[id].task # t
      BY <1>1, <1>2, <1>4, <2>1, <2>4, <3>2, OtherBegins
    <3>3. QED
      BY <3>1, <3>2
  <2>5. ASSUME Succeed(th), Then(th, log[cur[th]].task, "completed") PROVE Fate(t)'
    <3>1. CASE log[cur[th]].task = t
      BY <1>1, <2>1, <2>5, <3>1, FateSucceed
    <3>2. CASE log[cur[th]].task # t
      BY <1>1, <1>2, <1>4, <2>1, <2>5, <3>2, OtherWorks
    <3>3. QED
      BY <3>1, <3>2
  <2>6. ASSUME Fail(th) \/ XAck(th) \/ XDel(th), UNCHANGED job PROVE Fate(t)'
    <3>1. CASE log[cur[th]].task = t
      BY <1>1, <2>1, <2>6, <3>1, FateWork
    <3>2. CASE log[cur[th]].task # t
      BY <1>1, <1>2, <1>3, <2>6, <3>2, OtherWorks
    <3>3. QED
      BY <3>1, <3>2
  <2>7. ASSUME CountCompleted(th), UNCHANGED job PROVE Fate(t)'
    <3>1. CASE log[cur[th]].task = t
      BY <1>1, <2>1, <2>7, <3>1, FateCounted
    <3>2. CASE log[cur[th]].task # t
      BY <1>1, <1>2, <1>3, <2>7, <3>2, OtherWorks
    <3>3. QED
      BY <3>1, <3>2
  <2>8. ~PipelineError(th) /\ \A id \in batch[th] : ~BeginFailOpen(th, id)
    BY CleanSteps DEF Calm
  <2>9. QED
    BY <1>5, <2>2, <2>3, <2>4, <2>5, <2>6, <2>7, <2>8 DEF Work
<1>6. ASSUME NEW th \in Threads, StoreCopy(th) PROVE Fate(t)'
  <2>1. CASE log[cur[th]].task = t
    BY <1>1, <1>6, <2>1, FateStored
  <2>2. CASE log[cur[th]].task # t
    <3>1. AtRest(th) /\ (AddRetry(th) \/ AddDead(th))
      BY <1>6 DEF StoreCopy
    <3>2. SameWrites(t)
      BY <1>4, <1>6, <2>2, <3>1 DEF StoreCopy
    <3>3. QED
      BY <1>1, <1>2, <2>2, <3>1, <3>2, OtherWorks
  <2>3. QED
    BY <2>1, <2>2
<1>7. ASSUME NEW w \in Workers, FetchNext(w) PROVE Fate(t)'
  <2>1. /\ UNCHANGED <<log, stream, scheduled, retry, dlq, processed, cur, verdict, successes>>
        /\ UNCHANGED job
    BY <1>7 DEF FetchNext, Consume, RecoverOwnPending, ClaimStale, redisVars, historyVars
  <2>2. \/ UNCHANGED phase
        \/ \E th \in Threads : Idle(th) /\ \E p : phase' = [phase EXCEPT ![th] = p]
    <3>1. Main(w) \in Threads /\ Claimer(w) \in Threads
      BY DEF Threads, Main, Claimer
    <3>2. QED
      BY <1>7, <3>1 DEF FetchNext, Consume, RecoverOwnPending, ClaimStale, Deliver
  <2>3. \A u \in Threads : phase[u] \notin {"down", "ready"} => phase'[u] = phase[u]
    BY <2>2 DEF TypeOK, Idle
  <2>4. QED
    BY <1>1, <1>2, <1>3, <2>1, <2>3, BatchLife
<1>8. ASSUME NEW w \in Workers, Host(w) PROVE Fate(t)'
  <2>1. Start(w) /\ UNCHANGED job
    <3>1. ~Shutdown(w) /\ ~MainStops(w) /\ ~SubscribeFails(w) /\ ~Crash(w)
      BY CleanSteps DEF Calm
    <3>2. ~Exit(w)
      BY DEF Calm, NoneCloses, Exit
    <3>3. QED
      BY <1>8, <3>1, <3>2 DEF Host
  <2>2. UNCHANGED <<log, stream, scheduled, retry, dlq, processed, cur, verdict, successes>>
    BY <2>1 DEF Start, redisVars, historyVars
  <2>3. \A u \in Threads : phase[u] \notin {"down", "ready"} => phase'[u] = phase[u]
    BY <2>1 DEF Start, Calm, GoroutinesClean
  <2>4. QED
    BY <1>1, <1>2, <1>3, <2>1, <2>2, <2>3, BatchLife
<1>9. ASSUME NEW x \in Tasks, EnqueueScheduled(x), UNCHANGED job PROVE Fate(t)'
  <2>1. CASE x = t
    BY <1>1, <1>9, <2>1, FateDue
  <2>2. CASE x # t
    <3>1. PICK ok \in BOOLEAN, rc \in Nat : XAdd(x, rc, ok)
      BY <1>9 DEF EnqueueScheduled
    <3>2. /\ UNCHANGED <<cur, phase, verdict, successes, processed, retry, dlq>>
          /\ scheduled' = scheduled \ {x}
      BY <1>9 DEF EnqueueScheduled, threadVars, historyVars
    <3>3. /\ RetriesOf(t)' = RetriesOf(t) /\ DeathsOf(t)' = DeathsOf(t)
          /\ CallsOf(t)' = CallsOf(t)
      BY <1>1, <3>2 DEF RetriesOf, DeathsOf, CallsOf
    <3>4. SameLife(t)
      BY <2>2, <3>1, <3>2, <3>3, LifeXAdd
    <3>5. QED
      BY <1>2, <1>3, <1>9, <3>4
  <2>3. QED
    BY <2>1, <2>2
<1>10. ASSUME NEW c \in retry, EnqueueRetry(c), \A th \in Threads : ~Writing(th, c.task),
              UNCHANGED job
       PROVE  Fate(t)'
  <2>1. CASE c.task = t
    BY <1>1, <1>10, <2>1, FateRetried DEF NoWriter
  <2>2. CASE c.task # t
    <3>1. c.task \in Tasks /\ c.rc \in Nat
      BY DEF TypeOK, RetryCopy
    <3>2. PICK x \in Tasks, rc \in Nat, ok \in BOOLEAN : x = c.task /\ XAdd(x, rc, ok)
      BY <1>10, <3>1 DEF EnqueueRetry
    <3>3. /\ UNCHANGED <<cur, phase, verdict, successes, processed, scheduled, dlq>>
          /\ retry' = retry \ {c}
      BY <1>10 DEF EnqueueRetry, threadVars, historyVars
    <3>4. /\ RetriesOf(t)' = RetriesOf(t) /\ DeathsOf(t)' = DeathsOf(t)
          /\ CallsOf(t)' = CallsOf(t)
      BY <1>1, <2>2, <3>3 DEF RetriesOf, DeathsOf, CallsOf
    <3>5. SameLife(t)
      BY <2>2, <3>2, <3>3, <3>4, LifeXAdd
    <3>6. QED
      BY <1>2, <1>3, <1>10, <3>5
  <2>3. QED
    BY <2>1, <2>2
<1>11. \A x \in Tasks : ~ExpireProcessed(x)
  BY CleanSteps DEF Calm
<1>12. QED
  BY <1>5, <1>6, <1>7, <1>8, <1>9, <1>10, <1>11 DEF Workload, Tick

(* The steps of the requests and of their calls. *)
LEMMA FateOperator ==
    ASSUME SSShape, BudgetInv, Calm, NoFaultYet', NEW t \in Tasks, t \notin purged',
           "overtaking" \notin revival'[t], Fate(t), Operator
    PROVE  Fate(t)'
<1> TypeOK /\ StoreTypes /\ DLTypeOK
  BY DEF SSShape, DLTypeOK
<1>1. UNCHANGED <<producer, row, job>>
  BY DEF Operator
<1>2. ASSUME SameLife(t), revival'[t] = revival[t] PROVE Fate(t)'
  BY <1>1, <1>2, FateSame DEF SameRow, SameWrites, Writing, AtRest
<1>3. ~Spend("fault")
  BY CleanSteps DEF Calm
<1>4. ASSUME NEW q \in Requests, RetryTask(q) \/ RetryAllDead(q), UNCHANGED revival
      PROVE  Fate(t)'
  <2>1. UNCHANGED <<redisVars, cur, phase, verdict, successes, calls>>
    BY <1>4 DEF RetryTask, RetryAllDead, vars, threadVars, historyVars
  <2>2. QED
    BY <1>2, <1>4, <2>1, StoreLife
<1>5. ASSUME NEW q \in Requests, Find(q), UNCHANGED revival PROVE Fate(t)'
  <2>1. UNCHANGED <<log, stream, scheduled, retry, dlq, processed, cur, phase, verdict,
                    successes>>
    BY <1>5 DEF Find, vars, redisVars, threadVars, historyVars
  <2>2. calls \subseteq calls' /\ \A k \in calls' \ calls : k.at = "xdel"
    BY <1>5 DEF Find
  <2>3. CallsOf(t)' = CallsOf(t)
    BY <2>2 DEF CallsOf
  <2>4. /\ InStream(t)' = InStream(t) /\ Runners(t)' = Runners(t)
        /\ RetriesOf(t)' = RetriesOf(t) /\ DeathsOf(t)' = DeathsOf(t)
    BY <2>1 DEF InStream, Runners, RetriesOf, DeathsOf
  <2>5. SameLife(t)
    BY <2>1, <2>3, <2>4, LifeKept
  <2>6. QED
    BY <1>2, <1>5, <2>5
<1>6. ASSUME PurgeDLQ, UNCHANGED revival PROVE Fate(t)'
  <2>1. /\ UNCHANGED <<log, stream, scheduled, retry, processed, cur, phase, verdict,
                       successes, calls>>
        /\ dlq' = {} /\ purged' = purged \cup {c.task : c \in dlq}
    BY <1>6 DEF PurgeDLQ, threadVars, historyVars
  <2>2. /\ InStream(t)' = InStream(t) /\ Runners(t)' = Runners(t)
        /\ RetriesOf(t)' = RetriesOf(t) /\ DeathsOf(t)' = DeathsOf(t)
        /\ CallsOf(t)' = CallsOf(t)
    BY <2>1 DEF InStream, Runners, RetriesOf, DeathsOf, CallsOf
  <2>3. SameLife(t)
    BY <2>1, <2>2, LifeKept
  <2>4. QED
    BY <1>2, <1>6, <2>3
<1>7. ASSUME NEW k \in calls, XDelDead(k), NEW x, x = k.copy.task,
             revival' = [revival EXCEPT ![x] = @ \cup {Way(k)}]
      PROVE  Fate(t)'
  <2>1. CASE x = t
    BY <1>1, <1>7, <2>1, FateTaken
  <2>2. CASE x # t
    <3>1. PICK j : j = [k EXCEPT !.at = "xadd"]
      OBVIOUS
    <3>2. /\ UNCHANGED <<log, stream, scheduled, retry, processed, cur, phase, verdict,
                         successes>>
          /\ dlq' = dlq \ {k.copy} /\ calls' = (calls \ {k}) \cup {j}
      BY <1>7, <3>1 DEF XDelDead, Advance, threadVars, historyVars
    <3>3. j.copy = k.copy
      BY <3>1 DEF DLTypeOK, Call
    <3>4. /\ InStream(t)' = InStream(t) /\ Runners(t)' = Runners(t)
          /\ RetriesOf(t)' = RetriesOf(t) /\ DeathsOf(t)' = DeathsOf(t)
          /\ CallsOf(t)' = CallsOf(t)
      BY <1>7, <2>2, <3>2, <3>3 DEF InStream, Runners, RetriesOf, DeathsOf, CallsOf
    <3>5. SameLife(t)
      BY <3>2, <3>4, LifeKept
    <3>6. revival'[t] = revival[t]
      BY <1>7, <2>2 DEF StoreTypes
    <3>7. QED
      BY <1>2, <3>5, <3>6
  <2>3. QED
    BY <2>1, <2>2
<1>8. ASSUME NEW k \in calls, XAddRevived(k), UNCHANGED revival PROVE Fate(t)'
  <2>1. CASE k.copy.task = t
    BY <1>1, <1>8, <2>1, FateRevived
  <2>2. CASE k.copy.task # t
    <3>1. PICK j : j = [k EXCEPT !.at = "del"]
      OBVIOUS
    <3>2. /\ UNCHANGED <<scheduled, retry, dlq, processed, cur, phase, verdict, successes>>
          /\ calls' = (calls \ {k}) \cup {j}
      BY <1>8, <3>1 DEF XAddRevived, Advance, threadVars, historyVars
    <3>3. j.copy = k.copy /\ k.copy.task \in Tasks
      BY <3>1 DEF DLTypeOK, Call, RetryCopy
    <3>4. RetriesOf(t)' = RetriesOf(t) /\ DeathsOf(t)' = DeathsOf(t) /\ CallsOf(t)' = CallsOf(t)
      BY <2>2, <3>2, <3>3 DEF RetriesOf, DeathsOf, CallsOf
    <3>5. PICK x \in Tasks, rc \in Nat, ok \in BOOLEAN : x = k.copy.task /\ XAdd(x, rc, ok)
      BY <1>8, <3>3 DEF XAddRevived
    <3>6. SameLife(t)
      BY <2>2, <3>2, <3>4, <3>5, LifeXAdd
    <3>7. QED
      BY <1>2, <1>8, <3>6
  <2>3. QED
    BY <2>1, <2>2
<1>9. ASSUME NEW k \in calls, ClearProcessed(k), UNCHANGED revival PROVE Fate(t)'
  <2>1. CASE k.copy.task = t
    BY <1>1, <1>9, <2>1, FateCleared
  <2>2. CASE k.copy.task # t
    <3>1. /\ UNCHANGED <<log, stream, scheduled, retry, dlq, cur, phase, verdict, successes>>
          /\ calls' = calls \ {k} /\ processed' = processed \ {k.copy.task}
      BY <1>9 DEF ClearProcessed, threadVars
    <3>2. /\ InStream(t)' = InStream(t) /\ Runners(t)' = Runners(t)
          /\ RetriesOf(t)' = RetriesOf(t) /\ DeathsOf(t)' = DeathsOf(t)
          /\ CallsOf(t)' = CallsOf(t)
      BY <2>2, <3>1 DEF InStream, Runners, RetriesOf, DeathsOf, CallsOf
    <3>3. SameLife(t)
      BY <2>2, <3>1, <3>2, LifeKept
    <3>4. QED
      BY <1>2, <1>9, <3>3
  <2>3. QED
    BY <2>1, <2>2
<1>10. ASSUME NEW k \in calls, Revive(k) PROVE Fate(t)'
  BY <1>3, <1>7, <1>8, <1>9, <1>10 DEF Revive, CallFails
<1>11. \A q \in Requests : ~Abandon(q)
  BY <1>3 DEF Abandon
<1>12. QED
  BY <1>4, <1>5, <1>6, <1>10, <1>11 DEF Operator, markVars

(* The producer, the writes of the goroutines and the marks.                *)
LEMMA FateStore ==
    ASSUME SSShape, BudgetInv, Calm, NoFaultYet', CopiesPublished, RowsPublished, KeyOnce,
           MarksKnown, NEW t \in Keyed, "overtaking" \notin revival[t], t \notin edited',
           Fate(t), [SSNext]_ssVars, ~Workload, ~Operator
    PROVE  Fate(t)'
<1> TypeOK /\ StoreTypes /\ t \in Tasks
  BY StoreAssumption DEF SSShape, DLTypeOK
<1>1. ~Spend("fault") /\ ~ExpireUnique
  <2>1. ~Spend("fault") /\ ~Spend("expiry")
    BY NoSpend DEF EventKinds
  <2>2. QED
    BY <2>1 DEF ExpireUnique
<1>2. ASSUME UNCHANGED <<redisVars, cur, phase, verdict, successes, calls, revival>>,
             row'[t] = row[t], producer'[t] = producer[t], SameWrites(t)
      PROVE  Fate(t)'
  BY <1>2, StoreLife, FateSame DEF SameRow
<1>3. ASSUME UNCHANGED job PROVE SameWrites(t)
  BY <1>3 DEF SameWrites, Writing, AtRest
<1>4. ASSUME NEW m \in marks, MarkPending(m) PROVE Fate(t)'
  <2>1. CASE m.task = t
    BY <1>4, <2>1, FateMark
  <2>2. CASE m.task # t
    BY <1>2, <1>3, <1>4, <2>2
    DEF MarkPending, dlVars, vars, threadVars, historyVars, apiVars, StoreTypes
  <2>3. QED
    BY <2>1, <2>2
<1>5. ASSUME NEW x \in Tasks, BeginEnqueue(x) PROVE Fate(t)'
  <2>1. /\ UNCHANGED <<redisVars, cur, phase, verdict, successes, calls, revival, row, job>>
        /\ producer' = [producer EXCEPT ![x] = "publish"]
    BY <1>5 DEF BeginEnqueue, dlVars, vars, threadVars, historyVars, apiVars, markVars
  <2>2. CASE x = t
    <3>1. ~Published(t)
      BY <1>5, <2>2 DEF BeginEnqueue, SetUnique, KeyOnce, Held
    <3>2. SameLife(t)
      BY <2>1, StoreLife
    <3>3. IsNew(t) => row'[t] \in {NoRow, FirstRow(t)}
      BY <2>1 DEF IsNew
    <3>4. \A u \in Threads : Writing(u, t)' <=> Writing(u, t)
      BY <2>1 DEF Writing, AtRest
    <3>5. \A s : Tells(t, s) => Tells(t, s)'
      BY <2>1, <3>4 DEF Tells, Right, NoWriter
    <3>6. Runs(t) => /\ \A u \in Threads : Writing(u, t)' => job'[u].state = "active"
                     /\ NoWriter(t)' => row'[t] # NoRow
      BY <2>1, <3>4 DEF Runs, NoWriter
    <3>7. revival'[t] = revival[t]
      BY <2>1
    <3>8. QED
      BY <3>1, <3>2, <3>3, <3>4, <3>5, <3>6, <3>7, FateRow
  <2>3. CASE x # t
    BY <1>2, <1>3, <2>1, <2>3 DEF StoreTypes
  <2>4. QED
    BY <2>2, <2>3
<1>6. ASSUME NEW x \in Tasks, Publish(x) PROVE Fate(t)'
  <2>1. CASE x = t
    <3>1. ~Published(t)
      BY <1>6, <2>1 DEF Publish, KeyOnce
    <3>2. QED
      BY <1>6, <2>1, <3>1, FatePublish
  <2>2. CASE x # t
    <3>1. /\ UNCHANGED <<cur, phase, verdict, successes, processed, retry, dlq, calls,
                         row, job, revival>>
          /\ producer' = [producer EXCEPT ![x] = "create"]
          /\ \/ scheduled' = scheduled \cup {x} /\ UNCHANGED <<log, stream>>
             \/ XAdd(x, 0, TRUE) /\ UNCHANGED scheduled
      BY <1>6 DEF Publish, Enqueue, threadVars, historyVars, apiVars, markVars
    <3>2. /\ RetriesOf(t)' = RetriesOf(t) /\ DeathsOf(t)' = DeathsOf(t)
          /\ CallsOf(t)' = CallsOf(t)
      BY <3>1 DEF RetriesOf, DeathsOf, CallsOf
    <3>3. CASE scheduled' = scheduled \cup {x} /\ UNCHANGED <<log, stream>>
      <4>1. InStream(t)' = InStream(t) /\ Runners(t)' = Runners(t)
        BY <3>1, <3>3 DEF InStream, Runners
      <4>2. SameLife(t)
        BY <2>2, <3>1, <3>2, <3>3, <4>1, LifeKept
      <4>3. QED
        BY <1>3, <2>2, <3>1, <4>2, FateSame DEF SameRow, StoreTypes
    <3>4. CASE XAdd(x, 0, TRUE) /\ UNCHANGED scheduled
      <4>1. PICK rc \in Nat, ok \in BOOLEAN : XAdd(x, rc, ok)
        BY <3>4
      <4>2. SameLife(t)
        BY <2>2, <3>1, <3>2, <3>4, <4>1, LifeXAdd
      <4>3. QED
        BY <1>3, <2>2, <3>1, <4>2, FateSame DEF SameRow, StoreTypes
    <3>5. QED
      BY <3>1, <3>3, <3>4
  <2>3. QED
    BY <2>1, <2>2
<1>7. ASSUME NEW x \in Tasks, CreateTask(x) PROVE Fate(t)'
  <2>1. CASE x = t
    BY <1>7, <2>1, FateCreate
  <2>2. CASE x # t
    <3>1. UNCHANGED <<redisVars, cur, phase, verdict, successes, calls, revival, job>>
      BY <1>7 DEF CreateTask, dlVars, vars, threadVars, historyVars, apiVars, markVars
    <3>2. row'[t] = row[t] /\ producer'[t] = producer[t]
      BY <1>7, <2>2 DEF CreateTask, Insert, StoreTypes
    <3>3. QED
      BY <1>2, <1>3, <3>1, <3>2
  <2>3. QED
    BY <2>1, <2>2
<1>8. ASSUME NEW th \in Threads, UpdateRow(th) \/ InsertRow(th) PROVE Fate(t)'
  <2>1. CASE job[th].task = t
    BY <1>8, <2>1, FateUpdate, FateInsert
  <2>2. CASE job[th].task # t
    <3>1. /\ UNCHANGED <<redisVars, cur, phase, verdict, successes, calls, revival, producer>>
          /\ row'[t] = row[t]
          /\ job' = [job EXCEPT ![th] = NoJob] \/ job' = [job EXCEPT ![th].at = "insert"]
      <4>1. UNCHANGED <<redisVars, cur, phase, verdict, successes, calls, revival, producer>>
        BY <1>8
        DEF UpdateRow, InsertRow, dlVars, vars, threadVars, historyVars, apiVars, markVars
      <4>2. row'[t] = row[t]
        BY <1>8, <2>2 DEF UpdateRow, InsertRow, Insert, StoreTypes
      <4>3. job' = [job EXCEPT ![th] = NoJob] \/ job' = [job EXCEPT ![th].at = "insert"]
        BY <1>8 DEF UpdateRow, InsertRow
      <4>4. QED
        BY <4>1, <4>2, <4>3
    <3>2. ~AtRest(th)
      BY <1>8 DEF UpdateRow, InsertRow, AtRest, NoJob
    <3>3. job[th] \in Jobs
      BY <3>2, JobType
    <3>4. AtRest(th)' \/ job'[th].task = job[th].task
      BY <3>1, <3>3 DEF StoreTypes, AtRest, Jobs
    <3>5. \A u \in Threads : u # th => job'[u] = job[u]
      BY <3>1 DEF StoreTypes
    <3>6. SameWrites(t)
      BY <2>2, <3>4, <3>5 DEF SameWrites, Writing, AtRest
    <3>7. QED
      BY <1>2, <2>2, <3>1, <3>6
  <2>3. QED
    BY <2>1, <2>2
<1>9. ASSUME NEW x \in Tasks, Cancel(x) \/ DeleteTask(x) PROVE Fate(t)'
  <2>1. x # t /\ row'[t] = row[t]
    BY <1>9 DEF Cancel, DeleteTask, Edit, StoreTypes
  <2>2. UNCHANGED <<redisVars, cur, phase, verdict, successes, calls, revival, job, producer>>
    BY <1>9 DEF Cancel, DeleteTask, Edit, vars, threadVars, historyVars, markVars
  <2>3. QED
    BY <1>2, <1>3, <2>1, <2>2
<1>10. CASE DeleteOldTasks
  <2>1. row'[t] = row[t]
    BY <1>10 DEF DeleteOldTasks, Edit
  <2>2. UNCHANGED <<redisVars, cur, phase, verdict, successes, calls, revival, job, producer>>
    BY <1>10 DEF DeleteOldTasks, Edit, vars, threadVars, historyVars, markVars
  <2>3. QED
    BY <1>2, <1>3, <2>1, <2>2
<1>11. ASSUME NEW th \in Threads PROVE ~WriteFails(th)
  <2>1. th[1] \in Workers
    BY DEF Threads
  <2>2. QED
    BY <1>1, <2>1 DEF WriteFails, Calm, NoneCloses
<1>12. (\A m \in marks : ~MarkFails(m)) /\ (\A x \in Tasks : ~EnqueueFails(x))
  BY <1>1 DEF MarkFails, EnqueueFails
<1>13. CASE UNCHANGED ssVars
  BY <1>2, <1>3, <1>13
  DEF ssVars, dlVars, vars, threadVars, historyVars, apiVars, storeVars, markVars
<1>14. QED
  BY <1>1, <1>4, <1>5, <1>6, <1>7, <1>8, <1>9, <1>10, <1>11, <1>12, <1>13 DEF SSNext

(* What was purged, edited, raced or revived stays so. *)
LEMMA MarksGrow ==
    ASSUME SSShape, [SSNext]_ssVars, NEW t \in Tasks
    PROVE  /\ purged \subseteq purged' /\ raced \subseteq raced' /\ edited \subseteq edited'
           /\ revival[t] \subseteq revival'[t]
<1> StoreTypes
  BY DEF SSShape
<1>1. raced \subseteq raced' /\ edited \subseteq edited'
  <2>1. raced' = raced \/ raced \subseteq raced'
    BY DEF SSNext, Workload, Operator, RetryTask, RetryAllDead, Find, Abandon, PurgeDLQ, Revive,
        XDelDead, XAddRevived, ClearProcessed, CallFails, MarkPending, MarkFails,
        BeginEnqueue, Publish, CreateTask, EnqueueFails, Cancel, DeleteTask, DeleteOldTasks,
        Edit, UpdateRow, InsertRow, WriteFails, ExpireUnique, ssVars, dlVars, apiVars
  <2>2. edited' = edited \/ edited \subseteq edited'
    BY DEF SSNext, Workload, Operator, MarkPending, MarkFails, BeginEnqueue, Publish,
        CreateTask, EnqueueFails, Cancel, DeleteTask, DeleteOldTasks, Edit, UpdateRow,
        InsertRow, WriteFails, ExpireUnique, ssVars, storeVars
  <2>3. QED
    BY <2>1, <2>2
<1>2. purged \subseteq purged'
  BY DEF SSNext, Workload, Operator, RetryTask, RetryAllDead, Find, Abandon, PurgeDLQ, Revive,
      XDelDead, XAddRevived, ClearProcessed, CallFails, MarkPending, MarkFails,
      BeginEnqueue, Publish, CreateTask, EnqueueFails, Cancel, DeleteTask, DeleteOldTasks,
      Edit, UpdateRow, InsertRow, WriteFails, ExpireUnique, ssVars, dlVars, apiVars
<1>3. CASE UNCHANGED revival
  BY <1>1, <1>2, <1>3
<1>4. ASSUME NEW k \in calls, revival' = [revival EXCEPT ![k.copy.task] = @ \cup {Way(k)}]
      PROVE  revival[t] \subseteq revival'[t]
  <2>1. revival'[t] = revival[t] \/ revival'[t] = revival[t] \cup {Way(k)}
    BY <1>4 DEF StoreTypes
  <2>2. QED
    BY <2>1
<1>5. CASE ~UNCHANGED revival
  <2>1. \E k \in calls : revival' = [revival EXCEPT ![k.copy.task] = @ \cup {Way(k)}]
    BY <1>5
    DEF SSNext, Workload, Operator, Revive, MarkPending, MarkFails, BeginEnqueue, Publish,
        CreateTask, EnqueueFails, Cancel, DeleteTask, DeleteOldTasks, Edit, UpdateRow,
        InsertRow, WriteFails, ExpireUnique, ssVars, storeVars, markVars
  <2>2. QED
    BY <1>1, <1>2, <1>4, <2>1
<1>6. QED
  BY <1>3, <1>5

(* The tasks that RowIsCurrent speaks of. *)
Undisturbed(t) == t \notin purged \cup raced \cup edited /\ "overtaking" \notin revival[t]

Fates ==
    NoFaultYet /\ ~SlowStore /\ ~SlowHandlers => \A t \in Keyed : Undisturbed(t) => Fate(t)

CurrentInv ==
    /\ CalmInv /\ CopiesPublished /\ RowsPublished /\ MarksKnown
    /\ NoFaultYet => KeyOnce
    /\ Fates

(* Whatever step is next, an undisturbed task goes from a stage to a stage. *)
LEMMA CurrentStep ==
    ASSUME SSShape, CurrentInv, [SSNext]_ssVars
    PROVE  CurrentInv'
<1>1. CalmInv' /\ (NoFaultYet' => NoFaultYet)
  BY CalmStep DEF CurrentInv
<1>2. CopiesPublished' /\ RowsPublished' /\ MarksKnown'
  BY PublishedStep, RowsPublishedStep, MarksKnownStep DEF CurrentInv
<1>3. ASSUME NoFaultYet' PROVE KeyOnce'
  <2>1. BudgetInv /\ NoFaultYet /\ TypeOK
    BY <1>1, <1>3 DEF CurrentInv, CalmInv, SSShape, DLTypeOK
  <2>2. ~Spend("expiry")
    BY <1>3, <2>1, NoSpend DEF EventKinds
  <2>3. QED
    BY <2>1, <2>2, KeyOnceStep DEF CurrentInv, ExpireUnique
<1>4. ASSUME NoFaultYet', ~SlowStore, ~SlowHandlers, NEW t \in Keyed, Undisturbed(t)'
      PROVE  Fate(t)'
  <2>1. t \in Tasks /\ NoFaultYet /\ BudgetInv /\ Calm /\ KeyOnce
    BY <1>1, <1>4, StoreAssumption DEF CurrentInv, CalmInv
  <2>2. /\ t \notin purged' /\ t \notin raced' /\ t \notin edited'
        /\ "overtaking" \notin revival'[t]
    BY <1>4 DEF Undisturbed
  <2>3. "overtaking" \notin revival[t] /\ Fate(t)
    BY <1>4, <2>1, <2>2, MarksGrow DEF Undisturbed, CurrentInv, Fates
  <2>4. CASE Workload
    BY <1>4, <2>1, <2>2, <2>3, <2>4, FateWorkload
  <2>5. CASE Operator
    BY <1>4, <2>1, <2>2, <2>3, <2>5, FateOperator
  <2>6. CASE ~Workload /\ ~Operator
    BY <1>4, <2>1, <2>2, <2>3, <2>6, FateStore DEF CurrentInv
  <2>7. QED
    BY <2>4, <2>5, <2>6
<1>5. QED
  BY <1>1, <1>2, <1>3, <1>4 DEF CurrentInv, Fates

(* Nothing is published at first, and everybody is idle. *)
LEMMA CurrentInit == SSInit => CurrentInv
<1> SUFFICES ASSUME SSInit PROVE CurrentInv
  OBVIOUS
<1> SSShape /\ TypeOK
  BY ShapeInit DEF SSShape, DLTypeOK
<1>1. Init /\ Ids = {}
  BY DEF SSInit, DLInit, Init, Ids
<1>2. BudgetInv
  BY <1>1 DEF Init, BudgetInv, TypeOK
<1>3. StreamInv
  BY <1>1, StreamInit
<1>4. Calm
  <2>1. /\ GoroutinesClean /\ SpoiltInvalid
    BY <1>1 DEF Init, GoroutinesClean, VerdictsTrue, SpoiltInvalid
  <2>2. NoneCloses /\ HeldInv /\ HandsApart
    BY <1>1 DEF Init, NoneCloses, HeldInv, HandsApart, Pending, Claimer, Threads
  <2>3. QED
    BY <2>1, <2>2 DEF Calm
<1>5. \A t \in Tasks : row[t] = NoRow /\ producer[t] = "idle" /\ NoWriter(t)
  BY DEF SSInit, NoWriter, Writing, AtRest
<1>6. CopiesPublished /\ RowsPublished
  BY <1>5, AccountInit DEF RowsPublished
<1>7. MarksKnown
  BY DEF SSInit, DLInit, MarksKnown
<1>8. KeyOnce
  BY <1>1, <1>5, StoreAssumption DEF SSInit, DLInit, Init, KeyOnce, Held, Published
<1>9. ASSUME NEW t \in Tasks PROVE Fate(t)
  <2>1. ~Published(t) /\ ~Retried(t) /\ Only(t, {}, {}, {}, {}, {})
    BY <1>1
    DEF SSInit, DLInit, Init, Published, Retried, Only, InStream, Runners, RetriesOf, DeathsOf,
        CallsOf
  <2>2. IsNew(t)
    BY <1>1, <1>5, <2>1 DEF SSInit, Init, IsNew
  <2>3. QED
    BY <2>2 DEF Fate
<1>10. QED
  BY <1>2, <1>3, <1>4, <1>6, <1>7, <1>8, <1>9, StoreAssumption DEF CurrentInv, CalmInv, Fates

(* In every stage, the row of a task that nobody is at work on is current.  *)
LEMMA FateCurrent ==
    ASSUME NEW t \in Tasks, SSShape, Fate(t), Published(t), Quiet(t)
    PROVE  \/ row[t] = [state |-> CurrentState(t), ended |-> CurrentState(t) \in Final]
           \/ "marking" \in revival[t] /\ row[t].state = "pending"
<1> StoreTypes /\ TypeOK
  BY DEF SSShape, DLTypeOK
<1> DEFINE Goal ==
           \/ row[t] = [state |-> CurrentState(t), ended |-> CurrentState(t) \in Final]
           \/ "marking" \in revival[t] /\ row[t].state = "pending"
<1>1. NoWriter(t) /\ Runners(t) = {} /\ CallsOf(t) = {} /\ producer[t] # "create"
  BY DEF Quiet, NoWriter, Runners, CallsOf
<1>2. \A id \in stream : log[id].task = t => id \in InStream(t)
  <2>1. 0 \notin stream
    BY DEF TypeOK, Ids
  <2>2. QED
    BY <2>1 DEF Quiet, InStream
<1>3. ASSUME NEW s, Tells(t, s), CurrentState(t) = s PROVE Goal
  BY <1>1, <1>3 DEF Tells, Right
<1>4. CASE IsNew(t)
  <2>1. /\ row[t] = FirstRow(t)
        /\ successes[t] = 0 /\ revival[t] = {} /\ ~Retried(t) /\ DeathsOf(t) = {}
    BY <1>1, <1>4 DEF IsNew, Only
  <2>2. CurrentState(t) = IF t \in Delayed THEN "scheduled" ELSE "pending"
    BY <2>1 DEF CurrentState, Waits, DeathsOf
  <2>3. (CurrentState(t) \in Final) = FALSE
    BY <2>2 DEF Final
  <2>4. row[t] = [state |-> CurrentState(t), ended |-> FALSE]
    BY <2>1, <2>2 DEF FirstRow
  <2>5. QED
    BY <2>3, <2>4, Zenon
<1>5. CASE IsRevived(t)
  <2>1. PICK id \in InStream(t) : log[id].rc = 0
    BY <1>5 DEF IsRevived, Only
  <2>2. Waits(t) /\ successes[t] = 0
    BY <1>5, <2>1 DEF IsRevived, Waits, InStream, FirstAttempt
  <2>3. CurrentState(t) = "dead"
    BY <2>2 DEF CurrentState
  <2>4. QED
    BY <1>3, <1>5, <2>3 DEF IsRevived
<1>6. CASE Runs(t)
  BY <1>1, <1>6 DEF Runs, Only
<1>7. CASE OnRetry(t)
  <2>1. /\ successes[t] = 0 /\ DeathsOf(t) = {}
        /\ \/ RetriesOf(t) # {} /\ InStream(t) = {}
           \/ \E id \in Ids : log[id].rc > 0 /\ InStream(t) = {id}
    BY <1>7 DEF OnRetry, Only
  <2>2. Retried(t)
    <3>1. \A id \in InStream(t) : log[id].task = t
      BY DEF InStream
    <3>2. QED
      BY <2>1, <3>1 DEF Retried, RetriesOf
  <2>3. ~Waits(t)
    <3>1. \A n : n > 0 => n # 0
      OBVIOUS
    <3>2. QED
      BY <1>2, <2>1, <3>1 DEF Waits, FirstAttempt
  <2>4. CurrentState(t) = "retry"
    BY <2>1, <2>2, <2>3 DEF CurrentState, DeathsOf
  <2>5. QED
    BY <1>3, <1>7, <2>4 DEF OnRetry
<1>8. CASE IsDead(t)
  <2>1. successes[t] = 0 /\ DeathsOf(t) # {}
    BY <1>1, <1>8 DEF IsDead, Only
  <2>2. CurrentState(t) = "dead"
    BY <2>1 DEF CurrentState, DeathsOf
  <2>3. QED
    BY <1>3, <1>8, <2>2 DEF IsDead
<1>9. CASE IsDone(t)
  <2>1. CurrentState(t) = "completed"
    BY <1>9 DEF IsDone, CurrentState
  <2>2. QED
    BY <1>3, <1>9, <2>1 DEF IsDone
<1>10. QED
  BY <1>4, <1>5, <1>6, <1>7, <1>8, <1>9 DEF Fate

(* RowIsCurrent.  As long as nothing fails and stores and handlers are not  *)
(* slow, the row of a task with a unique key is what the task is in Redis   *)
(* once its writers are done, whichever of producer and workers inserted    *)
(* it; tasks that were edited, purged, lost in the race of RetryFromDLQ or  *)
(* revived before a write of their row ended are left out, and the mark of  *)
(* a revival may come last.                                                 *)
THEOREM RowsAreCurrent == SSSpec => []RowIsCurrent
<1>1. SSShape /\ CurrentInv => RowIsCurrent
  <2> SUFFICES ASSUME SSShape, CurrentInv, NoFaultYet, ~SlowStore, ~SlowHandlers,
                      NEW t \in Keyed, t \notin purged \cup raced \cup edited,
                      Published(t), Quiet(t), "overtaking" \notin revival[t]
               PROVE  \/ row[t] = [state |-> CurrentState(t),
                                   ended |-> CurrentState(t) \in Final]
                      \/ "marking" \in revival[t] /\ row[t].state = "pending"
    BY DEF RowIsCurrent
  <2>1. t \in Tasks /\ Fate(t)
    BY StoreAssumption DEF CurrentInv, Fates, Undisturbed
  <2>2. QED
    BY <2>1, FateCurrent
<1>2. QED
  BY <1>1, ShapeInit, ShapeStep, CurrentInit, CurrentStep, PTL DEF SSSpec

=============================================================================
