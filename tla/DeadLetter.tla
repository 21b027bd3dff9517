------------------------------ MODULE DeadLetter ------------------------------
(***************************************************************************)
(* The operations an operator has on the dead letter queue, beside the     *)
(* workers of Delivery: the web server's handleRetryTask,                  *)
(* handleRetryAllDead and handlePurgeDead, and the broker's GetDLQ,        *)
(* RetryFromDLQ and PurgeDLQ they call.                                    *)
(*                                                                         *)
(* RetryFromDLQ reads the queue (XRANGE) and then sends a pipeline of      *)
(* XDEL, XADD to the task's stream and DEL of its processed key.  Each     *)
(* command is a step: workers, and other requests, run in between.         *)
(***************************************************************************)
EXTENDS Delivery

CONSTANTS
    Requests,       \* HTTP requests that may be served at the same time
    MaxRequests     \* how many requests a behaviour may contain

ASSUME RequestsAssumption == MaxRequests \in Nat

VARIABLES
    todo,           \* dead tasks a request has still to call RetryFromDLQ for
    calls,          \* the calls of RetryFromDLQ that found their task
    requests,       \* requests left
    purged,         \* history: tasks that a purge removed
    raced           \* history: tasks skipped by a worker that met the old key

apiVars == <<todo, calls, requests, purged, raced>>
dlVars  == <<vars, apiVars>>

DLInit ==
    /\ Init
    /\ todo = [q \in Requests |-> {}]
    /\ calls = {}
    /\ requests = MaxRequests
    /\ purged = {}
    /\ raced = {}

Free(q) == todo[q] = {} /\ \A k \in calls : k.by # q

Receive ==
    /\ requests > 0
    /\ requests' = requests - 1

(* handleRetryTask is for one task of the queue the page showed, and        *)
(* handleRetryAllDead for everything GetDLQ returns.  A task that is dead   *)
(* twice is in the list twice.  (GetDLQ's limit of 1000 is left out.)       *)
RetryTask(q) ==
    /\ Free(q)
    /\ Receive
    /\ \E c \in dlq : todo' = [todo EXCEPT ![q] = {c}]
    /\ UNCHANGED <<vars, calls, purged, raced>>

RetryAllDead(q) ==
    /\ Free(q)
    /\ dlq # {}
    /\ Receive
    /\ todo' = [todo EXCEPT ![q] = dlq]
    /\ UNCHANGED <<vars, calls, purged, raced>>

FindInParallel(q) ==   \* mutant
    /\ \E c \in todo[q] : \E d \in dlq :
          /\ d.task = c.task
          /\ todo' = [todo EXCEPT ![q] = @ \ {c}]
          /\ calls' = calls \cup {[by |-> q, at |-> "xdel", copy |-> d]}
    /\ UNCHANGED <<vars, requests, purged, raced>>
(* RetryFromDLQ, its XRANGE: a copy with the task's ID, the first of the    *)
(* stream, or "not found".                                                  *)
Find(q) ==
    /\ \A k \in calls : k.by # q
    /\ \E c \in todo[q] :
          LET found == {d \in dlq : d.task = c.task}
          IN  /\ todo' = [todo EXCEPT ![q] = @ \ {c}]
              /\ IF found = {}
                 THEN UNCHANGED calls
                 ELSE \E d \in found :
                         calls' = calls \cup {[by |-> q, at |-> "xdel", copy |-> d]}
    /\ UNCHANGED <<vars, requests, purged, raced>>

Advance(k, where) == calls' = (calls \ {k}) \cup {[k EXCEPT !.at = where]}

XDelDead(k) ==
    /\ k.at = "xdel"
    /\ dlq' = dlq \ {k.copy}
    /\ Advance(k, "xadd")
    /\ UNCHANGED <<log, stream, lastDelivered, pel, scheduled, retry, processed,
                   completed, status, threadVars, budget, historyVars,
                   todo, requests, purged, raced>>

XAddKeepsCount(k) ==   \* mutant
    /\ k.at = "xadd"
    /\ XAdd(k.copy.task, k.copy.rc, TRUE)
    /\ Advance(k, "del")
    /\ UNCHANGED <<lastDelivered, pel, scheduled, retry, dlq, processed,
                   completed, status, threadVars, budget, historyVars,
                   todo, requests, purged, raced>>
(* The task starts over: its RetryCount is zero again. *)
XAddRevived(k) ==
    /\ k.at = "xadd"
    /\ XAdd(k.copy.task, 0, TRUE)
    /\ Advance(k, "del")
    /\ UNCHANGED <<lastDelivered, pel, scheduled, retry, dlq, processed,
                   completed, status, threadVars, budget, historyVars,
                   todo, requests, purged, raced>>

KeepProcessed(k) ==   \* mutant
    /\ k.at = "del"
    /\ calls' = calls \ {k}
    /\ UNCHANGED <<vars, todo, requests, purged, raced>>
(* DEL of the processed key, so that the task can be processed again. *)
ClearProcessed(k) ==
    LET t == k.copy.task
    IN  /\ k.at = "del"
        /\ processed' = processed \ {t}
        /\ lapses' = IF t \in processed THEN [lapses EXCEPT ![t] = @ + 1] ELSE lapses
        /\ calls' = calls \ {k}
        /\ UNCHANGED <<log, stream, lastDelivered, pel, scheduled, retry, dlq,
                       completed, status, threadVars, budget, starts, successes, counted,
                       todo, requests, purged, raced>>

(* Exec fails before anything ran, or with SplitPipelines between two       *)
(* commands.  handleRetryAllDead goes on with the next task.                *)
CallFails(k) ==
    /\ k.at = "xdel" \/ SplitPipelines
    /\ Spend("fault")
    /\ calls' = calls \ {k}
    /\ UNCHANGED <<redisVars, status, threadVars, historyVars,
                   todo, requests, purged, raced>>

(* The client disconnects, which cancels the request's context, or the web  *)
(* server ends: what was not sent yet never is.                             *)
Abandon(q) ==
    /\ ~Free(q)
    /\ Spend("fault")
    /\ todo' = [todo EXCEPT ![q] = {}]
    /\ calls' = {k \in calls : k.by = q => k.at # "xdel"}
    /\ UNCHANGED <<redisVars, status, threadVars, historyVars,
                   requests, purged, raced>>

(* PurgeDLQ deletes the key of the queue. *)
PurgeDLQ ==
    /\ Receive
    /\ dlq' = {}
    /\ purged' = purged \cup {c.task : c \in dlq}
    /\ UNCHANGED <<log, stream, lastDelivered, pel, scheduled, retry, processed,
                   completed, status, threadVars, budget, historyVars,
                   todo, calls, raced>>

-----------------------------------------------------------------------------
(* A step of Delivery, with a note of the tasks that a worker skips while a *)
(* call has added them and not yet removed their key.                       *)
Reviving(t) == \E k \in calls : k.at = "del" /\ k.copy.task = t

Skips(t) ==
    \E th \in Threads : \E id \in batch[th] :
        log[id].task = t /\ cur'[th] = id /\ verdict'[th] = "skip"

DeliveryStep ==
    /\ Next
    /\ raced' = raced \cup {t \in Tasks : Reviving(t) /\ Skips(t)}
    /\ UNCHANGED <<todo, calls, requests, purged>>

RetryFromDLQ(k) == XDelDead(k) \/ XAddRevived(k) \/ ClearProcessed(k) \/ CallFails(k)

Serve(q) == RetryTask(q) \/ RetryAllDead(q) \/ Find(q) \/ Abandon(q)

DLNext ==
    \/ DeliveryStep
    \/ \E q \in Requests : Serve(q)
    \/ \E k \in calls : RetryFromDLQ(k)
    \/ PurgeDLQ

DLSpec == DLInit /\ [][DLNext]_dlVars

-----------------------------------------------------------------------------
Call == [by : Requests, at : {"xdel", "xadd", "del"}, copy : RetryCopy]

(* The requests and their calls are well formed, beside the types of        *)
(* Delivery; a request makes one call at a time.                            *)
DLTypeOK ==
    /\ TypeOK
    /\ todo \in [Requests -> SUBSET RetryCopy]
    /\ calls \subseteq Call
    /\ \A j, k \in calls : j.by = k.by => j = k
    /\ requests \in 0 .. MaxRequests
    /\ purged \subseteq Tasks
    /\ raced \subseteq Tasks

(* A call that has removed the task from the queue holds it until its XADD. *)
InCall(t) == \E k \in calls : k.at = "xadd" /\ k.copy.task = t

KeptOrRevived(t) == Kept(t) \/ InCall(t)

(* As long as nothing failed, a task gets lost in one way only, apart from  *)
(* a purge: a worker takes the revived message before the DEL of the old    *)
(* key and skips it.  Requests for the same task at the same time, a        *)
(* request for a task that another has revived already, a task that is dead *)
(* twice and a retry-all that reads an old list lose nothing.               *)
LostOnlyInTheRace ==
    NoFaultYet =>
        \A t \in Tasks \ (Undecodable \cup purged \cup raced) :
            Published(t) => KeptOrRevived(t)

(* redis.go:692, "Clear processed key so task can be processed again": a    *)
(* task that was taken from the queue is processed again.                   *)
RevivedIsProcessed ==
    NoFaultYet =>
        \A t \in Tasks \ (Undecodable \cup purged) : Published(t) => KeptOrRevived(t)

=============================================================================
