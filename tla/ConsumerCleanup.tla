--------------------------- MODULE ConsumerCleanup ---------------------------
(***************************************************************************)
(* The removal of dead consumers from the group, beside the workers of     *)
(* Delivery: cleanupDeadConsumers, which every worker runs on a ticker,    *)
(* and the web server's handleCleanupConsumers.                            *)
(*                                                                         *)
(* A cleaner reads XINFO CONSUMERS and then sends XGROUP DELCONSUMER for   *)
(* each consumer that it saw idle and without pending entries.  Redis      *)
(* removes a consumer together with the entries it has by then.            *)
(***************************************************************************)
EXTENDS Delivery

CONSTANTS
    Web,            \* the cleaner that is not a worker
    MaxCleanups     \* how many cleanups a behaviour may contain

ASSUME CleanupAssumption == Web \notin Workers /\ MaxCleanups \in Nat

VARIABLES
    consumers,      \* consumers the group has
    found,          \* consumers a cleaner has still to remove
    cleanups,       \* cleanups left
    dropped,        \* history: pending entries that went with their consumer
    restarted       \* history: workers started after a cleaner had found them

cleanupVars == <<consumers, found, cleanups, dropped, restarted>>
ccVars      == <<vars, cleanupVars>>

Cleaners == Workers \cup {Web}

CCInit ==
    /\ Init
    /\ consumers = {}
    /\ found = [k \in Cleaners |-> {}]
    /\ cleanups = MaxCleanups
    /\ dropped = {}
    /\ restarted = {}

-----------------------------------------------------------------------------
(* A consumer is idle while its process sends neither XREADGROUP nor        *)
(* XAUTOCLAIM: there is none, or its goroutines are in handlers that        *)
(* outlast the threshold.                                                   *)
Idles(w) ==
    \/ ~Live(w)
    \/ SlowHandlers /\ \A th \in Threads : th[1] = w => ~Idle(th)

IdlesLong(w) == Idles(w)   \* mutant
Removable(w) == pel[w] = {} /\ Idles(w)

Running(w) == status[w] \in {"recovering", "consuming"}

(* A worker would skip itself, but compares the name with its workerID,     *)
(* which lacks the prefix of the consumer's name.                           *)
Inspect(k) ==
    LET names == {w \in consumers : Removable(w)}
    IN  /\ k \in Workers => Running(k)
        /\ found[k] = {}
        /\ names # {}
        /\ cleanups > 0
        /\ cleanups' = cleanups - 1
        /\ found' = [found EXCEPT ![k] = names]
        /\ UNCHANGED <<vars, consumers, dropped, restarted>>

RemoveConsumer(k, w) ==
    /\ w \in found[k]
    /\ found' = [found EXCEPT ![k] = @ \ {w}]
    /\ consumers' = consumers \ {w}
    /\ pel' = [pel EXCEPT ![w] = {}]
    /\ dropped' = dropped \cup ({w} \X pel[w])
    /\ UNCHANGED <<log, stream, lastDelivered, scheduled, retry, dlq, processed,
                   completed, status, threadVars, budget, historyVars,
                   cleanups, restarted>>

(* An error is logged, and the loop goes on with the next consumer; a       *)
(* request whose client disconnects sends no more.                          *)
RemoveFails(k, w) ==
    /\ w \in found[k]
    /\ Spend("fault")
    /\ \/ found' = [found EXCEPT ![k] = @ \ {w}]
       \/ k = Web /\ found' = [found EXCEPT ![k] = {}]
    /\ UNCHANGED <<redisVars, status, threadVars, historyVars,
                   consumers, cleanups, dropped, restarted>>

-----------------------------------------------------------------------------
(* The steps of Delivery.                                                   *)

(* XREADGROUP and XAUTOCLAIM create the consumer if the group has none.     *)
FetchStep(w) ==
    /\ Fetch(w)
    /\ consumers' = consumers \cup {w}
    /\ UNCHANGED <<found, cleanups, dropped, restarted>>

StartStep(w) ==
    /\ Start(w)
    /\ restarted' = IF \E k \in Cleaners : w \in found[k]
                    THEN restarted \cup {w} ELSE restarted
    /\ UNCHANGED <<consumers, found, cleanups, dropped>>

(* A cleanup ends with the context of its worker. *)
GoesOn(w) == UNCHANGED found   \* mutant
Stops(w)  == found' = [found EXCEPT ![w] = {}]

StopStep(w) ==
    /\ Shutdown(w) \/ MainStops(w) \/ SubscribeFails(w) \/ Crash(w) \/ Exit(w)
    /\ Stops(w)
    /\ UNCHANGED <<consumers, cleanups, dropped, restarted>>

OtherStep ==
    /\ \/ \E t \in Tasks : Enqueue(t) \/ ExpireProcessed(t)
       \/ Scheduler
       \/ \E th \in Threads : ThreadStep(th)
    /\ UNCHANGED cleanupVars

CleanerStep(k) ==
    \/ Inspect(k)
    \/ \E w \in found[k] : RemoveConsumer(k, w) \/ RemoveFails(k, w)

CCNext ==
    \/ \E w \in Workers : FetchStep(w) \/ StartStep(w) \/ StopStep(w)
    \/ \E k \in Cleaners : CleanerStep(k)
    \/ OtherStep

CCSpec == CCInit /\ [][CCNext]_ccVars

(* Nothing is assumed of the cleaners. *)
CCFairSpec == CCSpec /\ Fairness

-----------------------------------------------------------------------------
(* The cleaners' variables are well formed, beside the types of Delivery,   *)
(* and a worker that does not run cleans nothing up.                        *)
CCTypeOK ==
    /\ TypeOK
    /\ consumers \subseteq Workers
    /\ found \in [Cleaners -> SUBSET Workers]
    /\ \A w \in Workers : ~Running(w) => found[w] = {}
    /\ cleanups \in 0 .. MaxCleanups
    /\ dropped \subseteq Workers \X Ids
    /\ restarted \subseteq Workers

(* Unless handlers outlast the threshold, a cleanup takes pending entries   *)
(* away from a restarted worker only, one that was dead when the cleaner    *)
(* looked.  Where names are not reused it never does.                       *)
DropsOnlyRestarted == ~SlowHandlers => \A d \in dropped : d[1] \in restarted

DroppedTasks == {log[d[2]].task : d \in dropped}

(* Whatever crashes and restarts: of the tasks that are on a retry, only    *)
(* those with a message that a cleanup dropped can get lost.                *)
RetriedLostOnlyByDrop ==
    ~SplitPipelines =>
        \A t \in Tasks \ (Undecodable \cup DroppedTasks) : Retried(t) => Kept(t)

(* Only a message that a cleanup dropped stays in the stream with no        *)
(* consumer that will ever read it again.                                   *)
StrandedOnlyByDrop ==
    ~SplitPipelines =>
        \A id \in stream :
            log[id].ok /\ Delivered(id) /\ id \notin Pending =>
                \/ \E th \in Threads : phase[th] = "xdel" /\ cur[th] = id
                \/ \E d \in dropped : d[2] = id

=============================================================================
