------------------------------ MODULE StoreSync ------------------------------
(***************************************************************************)
(* The optional PostgreSQL store beside the workers of Delivery and the    *)
(* requests of DeadLetter: the row of a task under the producer's          *)
(* CreateTask, the workers' UpdateTask, the UpdateTaskState of             *)
(* handleRetryTask, and the edits of Cancel, DeleteTask and                *)
(* DeleteOldTasks; and the unique keys that Client.Enqueue takes before it *)
(* publishes.                                                              *)
(*                                                                         *)
(* An SQL statement is one step.  UpdateTask is an UPDATE and, when that   *)
(* finds no row, the INSERT of CreateTask.  A goroutine that writes to the *)
(* store does nothing else until the write has ended; a write that fails   *)
(* is logged and forgotten.                                                *)
(***************************************************************************)
EXTENDS DeadLetter

CONSTANTS
    Keyed,          \* tasks that are enqueued with the same unique key
    SlowStore       \* may a write last longer than the delay of a retry?

ASSUME StoreAssumption ==
    /\ Keyed \subseteq Tasks
    /\ SlowStore \in BOOLEAN

VARIABLES
    producer,       \* where the producer's call of Enqueue is, for each task
    unique,         \* does the key strego:unique:<key> exist?
    row,            \* the task's row: its state and whether completed_at is set
    job,            \* the write a goroutine waits for
    edited,         \* history: tasks whose row somebody has edited
    single,         \* requests of handleRetryTask (the others are for all)
    marks,          \* rows that such requests are about to mark as pending
    revival,        \* history: the ways in which each task was revived
    expiries        \* history: times the unique key ran out

markVars  == <<single, marks, revival>>
storeVars == <<producer, unique, row, job, edited, markVars, expiries>>
ssVars    == <<dlVars, storeVars>>

NoRow == [state |-> "none", ended |-> FALSE]
NoJob == [at |-> "none"]

Final == {"completed", "dead", "cancelled"}

Write(t, state) == [at |-> "update", task |-> t, state |-> state]

AtRest(th) == job[th] = NoJob
Writing(th, t) == ~AtRest(th) /\ job[th].task = t

SSInit ==
    /\ DLInit
    /\ producer = [t \in Tasks |-> "idle"]
    /\ unique = FALSE
    /\ row = [t \in Tasks |-> NoRow]
    /\ job = [th \in Threads |-> NoJob]
    /\ edited = {}
    /\ single = {}
    /\ marks = {}
    /\ revival = [t \in Tasks |-> {}]
    /\ expiries = 0

-----------------------------------------------------------------------------
(* Client.Enqueue: SetUnique, Publish or Schedule, CreateTask.              *)

PlainSetUnique == unique' = TRUE   \* mutant
SetUnique == ~unique /\ unique' = TRUE

(* A second task with the key is refused (ErrDuplicateTask). *)
BeginEnqueue(t) ==
    /\ producer[t] = "idle"
    /\ budget["publish"] > 0
    /\ IF t \in Keyed THEN SetUnique ELSE UNCHANGED unique
    /\ producer' = [producer EXCEPT ![t] = "publish"]
    /\ UNCHANGED <<dlVars, row, job, edited, markVars, expiries>>

Publish(t) ==
    /\ producer[t] = "publish"
    /\ Enqueue(t)
    /\ producer' = [producer EXCEPT ![t] = "create"]
    /\ UNCHANGED <<apiVars, unique, row, job, edited, markVars, expiries>>

(* ON CONFLICT (id) DO NOTHING; the unique index on unique_key refuses the  *)
(* row of a second task with the key.                                       *)
Refused(t) == t \in Keyed /\ \E u \in Keyed \ {t} : row[u] # NoRow

InsertOverwrites(t, state) ==   \* mutant
    IF Refused(t) THEN UNCHANGED row
    ELSE row' = [row EXCEPT ![t] = [state |-> state, ended |-> FALSE]]
Insert(t, state) ==
    IF row[t] # NoRow \/ Refused(t) THEN UNCHANGED row
    ELSE row' = [row EXCEPT ![t] = [state |-> state, ended |-> FALSE]]

CreateTask(t) ==
    /\ producer[t] = "create"
    /\ Insert(t, IF t \in Delayed THEN "scheduled" ELSE "pending")
    /\ producer' = [producer EXCEPT ![t] = "idle"]
    /\ UNCHANGED <<dlVars, unique, job, edited, markVars, expiries>>

(* The broker refuses, and the key stays; or the store does, and the call       *)
(* succeeds without a row.                                                  *)
EnqueueFails(t) ==
    /\ producer[t] # "idle"
    /\ Spend("fault")
    /\ producer' = [producer EXCEPT ![t] = "idle"]
    /\ UNCHANGED <<redisVars, status, threadVars, historyVars, apiVars,
                   unique, row, job, edited, markVars, expiries>>

ExpireUnique ==
    /\ unique
    /\ Spend("expiry")
    /\ unique' = FALSE
    /\ expiries' = expiries + 1
    /\ UNCHANGED <<redisVars, status, threadVars, historyVars, apiVars,
                   producer, row, job, edited, markVars>>

-----------------------------------------------------------------------------
(* UpdateTask, from processTask and handleFailure.                          *)

UpdateRow(th) ==
    LET j == job[th]
    IN  /\ j.at = "update"
        /\ IF row[j.task] # NoRow
           THEN /\ row' = [row EXCEPT ![j.task] =
                              [state |-> j.state, ended |-> j.state \in Final]]
                /\ job' = [job EXCEPT ![th] = NoJob]
           ELSE /\ job' = [job EXCEPT ![th].at = "insert"]
                /\ UNCHANGED row
        /\ UNCHANGED <<dlVars, producer, unique, edited, markVars, expiries>>

InsertRow(th) ==
    /\ job[th].at = "insert"
    /\ Insert(job[th].task, job[th].state)
    /\ job' = [job EXCEPT ![th] = NoJob]
    /\ UNCHANGED <<dlVars, producer, unique, edited, markVars, expiries>>

(* Under a cancelled context, or when the database does not answer. *)
WriteFails(th) ==
    /\ ~AtRest(th)
    /\ \/ status[th[1]] = "closing" /\ UNCHANGED budget
       \/ Spend("fault")
    /\ job' = [job EXCEPT ![th] = NoJob]
    /\ UNCHANGED <<redisVars, status, threadVars, historyVars, apiVars,
                   producer, unique, row, edited, markVars, expiries>>

(* Client.Cancel (UpdateTaskState), the web server's DeleteTask, and        *)
(* DeleteOldTasks: requests like those of DeadLetter.                       *)
Edit(S) ==
    /\ Receive
    /\ edited' = edited \cup S
    /\ UNCHANGED <<vars, todo, calls, purged, raced,
                   producer, unique, job, markVars, expiries>>

Cancel(t) ==
    /\ row[t] # NoRow
    /\ row' = [row EXCEPT ![t] = [state |-> "cancelled", ended |-> TRUE]]
    /\ Edit({t})

DeleteTask(t) ==
    /\ row[t] # NoRow
    /\ row' = [row EXCEPT ![t] = NoRow]
    /\ Edit({t})

DeleteOldTasks ==
    LET old == {t \in Tasks : row[t].state \in Final /\ row[t].ended}
    IN  /\ old # {}
        /\ row' = [t \in Tasks |-> IF t \in old THEN NoRow ELSE row[t]]
        /\ Edit(old)

-----------------------------------------------------------------------------
(* The steps of Delivery, with the writes they begin.                       *)

Then(th, t, state) == job' = [job EXCEPT ![th] = Write(t, state)]

(* processTask writes "active" before the handler runs, and "completed"     *)
(* before it returns to processMessage.                                     *)
Work(th) ==
    /\ AtRest(th)
    /\ \/ \E id \in batch[th] :
             \/ DropInvalid(th, id) /\ UNCHANGED job
             \/ SkipProcessed(th, id) /\ UNCHANGED job
             \/ /\ BeginRetry(th, id) \/ BeginFirst(th, id) \/ BeginFailOpen(th, id)
                /\ Then(th, log[id].task, "active")
       \/ Succeed(th) /\ Then(th, log[cur[th]].task, "completed")
       \/ Fail(th) /\ UNCHANGED job
       \/ XAck(th) /\ UNCHANGED job
       \/ XDel(th) /\ UNCHANGED job
       \/ CountCompleted(th) /\ UNCHANGED job
       \/ PipelineError(th) /\ UNCHANGED job

(* handleFailure writes "retry" and "dead" after the broker has the copy.   *)
StoreFirst(th) ==   \* mutant
    /\ AtRest(th)
    /\ \/ AddRetry(th) /\ Then(th, log[cur[th]].task, "retry")
       \/ /\ phase[th] = "final" /\ verdict[th] = "dead" /\ batch[th] = {}
          /\ UNCHANGED vars
          /\ Then(th, log[cur[th]].task, "dead")
StoreCopy(th) ==
    /\ AtRest(th)
    /\ \/ AddRetry(th) /\ Then(th, log[cur[th]].task, "retry")
       \/ AddDead(th) /\ Then(th, log[cur[th]].task, "dead")

FetchNext(w) ==
    /\ \/ (Consume(w) \/ RecoverOwnPending(w)) /\ AtRest(Main(w))
       \/ ClaimStale(w) /\ AtRest(Claimer(w))
    /\ UNCHANGED job

(* The writes of a process end with it. *)
Host(w) ==
    \/ (Start(w) \/ Shutdown(w)) /\ UNCHANGED job
    \/ (MainStops(w) \/ SubscribeFails(w)) /\ AtRest(Main(w)) /\ UNCHANGED job
    \/ /\ Crash(w) \/ Exit(w)
       /\ job' = [th \in Threads |-> IF th[1] = w THEN NoJob ELSE job[th]]

(* A retry is due no earlier than the base delay after handleFailure.       *)
Tick ==
    /\ \/ \E t \in Tasks : EnqueueScheduled(t)
       \/ \E c \in retry :
             /\ EnqueueRetry(c)
             /\ SlowStore \/ \A th \in Threads : ~Writing(th, c.task)
    /\ UNCHANGED job

Workload ==
    /\ \/ \E th \in Threads : Work(th) \/ StoreCopy(th)
       \/ \E w \in Workers : FetchNext(w) \/ Host(w)
       \/ Tick
       \/ (\E t \in Tasks : ExpireProcessed(t)) /\ UNCHANGED job
    /\ raced' = raced \cup {t \in Tasks : Reviving(t) /\ Skips(t)}
    /\ UNCHANGED <<todo, calls, requests, purged,
                   producer, unique, row, edited, markVars, expiries>>

-----------------------------------------------------------------------------
(* The steps of DeadLetter.  handleRetryTask tells the store when its call  *)
(* has succeeded; the other requests leave the rows alone.                  *)

AtHome(q) == \A m \in marks : m.by # q

(* How a call revives a task: with a write to come, its own mark or one of  *)
(* a goroutine; when another call has already; or alone.                    *)
Way(k) ==
    IF k.copy \notin dlq \/ \E th \in Threads : Writing(th, k.copy.task)
    THEN "overtaking" ELSE IF k.by \in single THEN "marking" ELSE "silent"

Revive(k) ==
    \/ /\ XDelDead(k)
       /\ revival' = [revival EXCEPT ![k.copy.task] = @ \cup {Way(k)}]
       /\ UNCHANGED marks
    \/ XAddRevived(k) /\ UNCHANGED <<marks, revival>>
    \/ CallFails(k) /\ UNCHANGED <<marks, revival>>
    \/ /\ ClearProcessed(k)
       /\ marks' = IF k.by \in single
                   THEN marks \cup {[by |-> k.by, task |-> k.copy.task]}
                   ELSE marks
       /\ UNCHANGED revival

Operator ==
    /\ \/ \E q \in Requests :
             /\ AtHome(q)
             /\ \/ RetryTask(q) /\ single' = single \cup {q}
                \/ RetryAllDead(q) /\ single' = single \ {q}
             /\ UNCHANGED <<marks, revival>>
       \/ /\ \/ \E q \in Requests : Find(q) \/ Abandon(q)
             \/ PurgeDLQ
          /\ UNCHANGED markVars
       \/ (\E k \in calls : Revive(k)) /\ UNCHANGED single
    /\ UNCHANGED <<producer, unique, row, job, edited, expiries>>

(* UpdateTaskState(..., "pending"): completed_at stays, and so does a row   *)
(* that does not exist.                                                     *)
MarkPending(m) ==
    /\ row' = IF row[m.task] = NoRow THEN row
              ELSE [row EXCEPT ![m.task].state = "pending"]
    /\ marks' = marks \ {m}
    /\ UNCHANGED <<dlVars, producer, unique, job, edited, single, revival, expiries>>

(* The context of the request is cancelled, or the database fails. *)
MarkFails(m) ==
    /\ Spend("fault")
    /\ marks' = marks \ {m}
    /\ UNCHANGED <<redisVars, status, threadVars, historyVars, apiVars,
                   producer, unique, row, job, edited, single, revival, expiries>>

SSNext ==
    \/ Workload
    \/ Operator
    \/ \E m \in marks : MarkPending(m) \/ MarkFails(m)
    \/ \E t \in Tasks :
          \/ BeginEnqueue(t)
          \/ Publish(t)
          \/ CreateTask(t)
          \/ EnqueueFails(t)
          \/ Cancel(t)
          \/ DeleteTask(t)
    \/ \E th \in Threads : UpdateRow(th) \/ InsertRow(th) \/ WriteFails(th)
    \/ ExpireUnique
    \/ DeleteOldTasks

SSSpec == SSInit /\ [][SSNext]_ssVars

-----------------------------------------------------------------------------
States == {"none", "pending", "scheduled", "active", "retry"} \cup Final

(* The store's variables are well formed, beside the types of DeadLetter.   *)
SSTypeOK ==
    /\ DLTypeOK
    /\ producer \in [Tasks -> {"idle", "publish", "create"}]
    /\ unique \in BOOLEAN
    /\ row \in [Tasks -> [state : States, ended : BOOLEAN]]
    /\ job \in [Threads -> {NoJob} \cup [at : {"update", "insert"}, task : Tasks,
                                        state : States \ {"none"}]]
    /\ edited \subseteq Tasks
    /\ single \subseteq Requests
    /\ marks \subseteq [by : Requests, task : Tasks]
    /\ revival \in [Tasks -> SUBSET {"overtaking", "marking", "silent"}]
    /\ expiries \in Nat

(* The producer, the goroutines and the requests have nothing left to do.   *)
Quiet(t) ==
    /\ producer[t] = "idle"
    /\ \A th \in Threads : ~Writing(th, t)
    /\ \A th \in Threads : cur[th] # 0 => log[cur[th]].task # t
    /\ \A k \in calls : k.copy.task # t
    /\ \A m \in marks : m.task # t

(* A revived task whose next life nobody has begun. *)
Waits(t) ==
    revival[t] # {} /\ \E id \in stream : log[id].task = t /\ FirstAttempt(id)

CurrentState(t) ==
    IF successes[t] > 0 THEN "completed"
    ELSE IF Waits(t) \/ \E c \in dlq : c.task = t THEN "dead"
    ELSE IF Retried(t) THEN "retry"
    ELSE IF t \in Delayed THEN "scheduled"
    ELSE "pending"

(* As long as nothing fails, handlers are quicker than claims and writes    *)
(* than retries, and nobody edits the row or purges the task, the row of a  *)
(* task with a unique key, which is enqueued once, says where the task is   *)
(* once its writers are done, although the producer inserts it after the    *)
(* workers may have begun.  Revived tasks have exceptions: the row stays    *)
(* dead until a worker begins; the mark of handleRetryTask may come after   *)
(* what the workers wrote and stay for good; and nothing is said of a task  *)
(* that was lost in the race with RetryFromDLQ, or whose revival overtook   *)
(* a write of the row that was still under way, or repeated another.        *)
RowIsCurrent ==
    NoFaultYet /\ ~SlowStore /\ ~SlowHandlers =>
        \A t \in Keyed \ (purged \cup raced \cup edited) :
            Published(t) /\ Quiet(t) /\ "overtaking" \notin revival[t] =>
                \/ row[t] = [state |-> CurrentState(t),
                             ended |-> CurrentState(t) \in Final]
                \/ "marking" \in revival[t] /\ row[t].state = "pending"

(* Whatever fails, and whoever edited, revives or purges: a row never tells  *)
(* of a success, a retry or a death that Redis does not know, but for the   *)
(* deaths of tasks that were purged or revived.                             *)
RowNeverAhead ==
    \A t \in Tasks :
        /\ row[t].state = "completed" => successes[t] > 0
        /\ row[t].state = "dead" =>
              \/ \E c \in dlq : c.task = t
              \/ t \in purged \/ revival[t] # {}
        /\ row[t].state = "retry" => Retried(t)

(* Of the tasks with one unique key, no second one is published before the  *)
(* key of the first ran out, whatever producers race and calls fail.        *)
OnePublishedPerKey ==
    Cardinality({t \in Keyed : Published(t) \/ producer[t] = "publish"}) <= 1 + expiries

=============================================================================
