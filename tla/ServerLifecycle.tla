--------------------------- MODULE ServerLifecycle ---------------------------
(***************************************************************************)
(* The life of one strego.Server in one process: calls of Start and        *)
(* Shutdown, termination signals, the goroutines a Start launches, the     *)
(* WaitGroup and the channels that tie them together, and how Subscribe    *)
(* waits for, or gives up on, a Redis that does not answer.                *)
(*                                                                         *)
(* Code: server.go (Start, Shutdown, runScheduler, runConsumerCleanup) and *)
(* broker/redis/redis.go (Subscribe, backgroundClaimer, isTransientError). *)
(*                                                                         *)
(* What the goroutines do to the queue is the subject of Delivery and of   *)
(* ConsumerCleanup; here they run, and end.  A call of Start is known by   *)
(* its number, and so are its context, its done and signal channels, and   *)
(* the shutdown channel it makes.  The shutdown timeout may strike at any  *)
(* time.                                                                   *)
(***************************************************************************)
EXTENDS Integers, FiniteSets

CONSTANTS
    MaxStarts,      \* bound: calls of Start
    MaxShutdowns,   \* bound: calls of Shutdown
    MaxSignals,     \* bound: SIGTERM or SIGINT sent to the process
    MaxErrors,      \* bound: errors Redis answers to Subscribe with
    MaxRetries,     \* consecutive transient errors Subscribe puts up with
    BackoffCap,     \* its longest sleep, in seconds
    CleanupEnabled  \* WithConsumerCleanup

ASSUME LifecycleAssumption ==
    /\ {MaxStarts, MaxShutdowns, MaxSignals, MaxErrors} \subseteq Nat
    /\ {MaxRetries, BackoffCap} \subseteq Nat \ {0}
    /\ CleanupEnabled \in BOOLEAN

Calls == 1 .. MaxStarts

VARIABLES
    \* the Server
    running,    \* s.running
    shutdown,   \* s.shutdown: the call that made it, 0 for NewServer
    closed,     \* the shutdown channels that are closed
    \* each call of Start
    pc,         \* where it is, or how it returned
    cancelled,  \* the calls whose context is cancelled
    sigCh,      \* its signal channel, of capacity one
    errCh,      \* how its Subscribe returned
    waiter,     \* the goroutine that waits for the WaitGroup and closes done
    routines,   \* the goroutines it launched that still run
    \* Subscribe
    sub,        \* where it is
    retryCount, \* its transient errors in a row
    \* the process and the environment
    process,    \* "up", or how it ended
    spent,      \* calls of Shutdown, signals and errors so far
    \* history, read only by the properties
    asked,      \* calls of Shutdown that found the Start of this call running
    slept,      \* seconds Subscribe has slept since Redis last answered
    late        \* batches it has begun under a cancelled context

serverVars == <<running, shutdown, closed>>
callVars   == <<pc, cancelled, sigCh, errCh, waiter>>
subVars    == <<sub, retryCount, slept, late>>
vars == <<serverVars, callVars, routines, subVars, process, spent, asked>>

LCInit ==
    /\ running = FALSE
    /\ shutdown = 0
    /\ closed = {}
    /\ pc = [c \in Calls |-> "idle"]
    /\ cancelled = {}
    /\ sigCh = [c \in Calls |-> "none"]
    /\ errCh = [c \in Calls |-> "none"]
    /\ waiter = [c \in Calls |-> "none"]
    /\ routines = [c \in Calls |-> {}]
    /\ sub = [c \in Calls |-> "none"]
    /\ retryCount = [c \in Calls |-> 0]
    /\ process = "up"
    /\ spent = [shutdown |-> 0, signal |-> 0, error |-> 0]
    /\ asked = [c \in Calls |-> 0]
    /\ slept = [c \in Calls |-> 0]
    /\ late = [c \in Calls |-> 0]

Spend(kind, bound) ==
    /\ spent[kind] < bound
    /\ spent' = [spent EXCEPT ![kind] = @ + 1]

(* The goroutines that s.wg counts; Subscribe and the claimer are not. *)
SchedulerOnly == {"scheduler"}   \* mutant
Counted == {"scheduler"} \cup (IF CleanupEnabled THEN {"cleanup"} ELSE {})

WaitCount == Cardinality({p \in Calls \X Counted : p[2] \in routines[p[1]]})

Returned == {"graceful", "forced", "failed", "refused"}

-----------------------------------------------------------------------------
(* Start.                                                                   *)

(* Under s.mu.  Calls are numbered in the order they take it. *)
LockKeepsChannel(c) ==   \* mutant
    /\ pc[c] = "idle"
    /\ \A d \in Calls : d < c => pc[d] # "idle"
    /\ IF running THEN pc' = [pc EXCEPT ![c] = "refused"] /\ UNCHANGED running
                  ELSE pc' = [pc EXCEPT ![c] = "launch"] /\ running' = TRUE
    /\ UNCHANGED <<shutdown, closed, cancelled, sigCh, errCh, waiter, routines, subVars,
                   process, spent, asked>>
Lock(c) ==
    /\ pc[c] = "idle"
    /\ \A d \in Calls : d < c => pc[d] # "idle"
    /\ \/ /\ running
          /\ pc' = [pc EXCEPT ![c] = "refused"]
          /\ UNCHANGED <<running, shutdown>>
       \/ /\ ~running
          /\ pc' = [pc EXCEPT ![c] = "launch"]
          /\ running' = TRUE
          /\ shutdown' = c
    /\ UNCHANGED <<closed, cancelled, sigCh, errCh, waiter, routines, subVars,
                   process, spent, asked>>

(* wg.Add and the goroutines, signal.Notify, Subscribe. *)
Launch(c) ==
    /\ pc[c] = "launch"
    /\ pc' = [pc EXCEPT ![c] = "select"]
    /\ routines' = [routines EXCEPT ![c] = {"subscribe", "scheduler"} \cup
                        (IF CleanupEnabled THEN {"cleanup"} ELSE {})]
    /\ sigCh' = [sigCh EXCEPT ![c] = "empty"]
    /\ sub' = [sub EXCEPT ![c] = "group"]
    /\ UNCHANGED <<serverVars, cancelled, errCh, waiter, retryCount, slept,
                   late, process, spent, asked>>

(* The select: cancel, and a goroutine that waits for the WaitGroup.  No    *)
(* one else cancels the context, so no context.Canceled comes from errCh.   *)
SignalOnly(c) == sigCh[c] = "full"   \* mutant
AskedToStop(c) == sigCh[c] = "full" \/ shutdown \in closed

Stop(c) ==
    /\ pc[c] = "select"
    /\ AskedToStop(c)
    /\ pc' = [pc EXCEPT ![c] = "wait"]
    /\ cancelled' = cancelled \cup {c}
    /\ waiter' = [waiter EXCEPT ![c] = IF WaitCount = 0 THEN "done" ELSE "waiting"]
    /\ \/ sigCh[c] = "full" /\ sigCh' = [sigCh EXCEPT ![c] = "empty"]
       \/ shutdown \in closed /\ UNCHANGED sigCh
    /\ UNCHANGED <<serverVars, errCh, routines, subVars, process, spent, asked>>

(* Subscribe failed: Start returns its error, the deferred cancel runs, and *)
(* s.running stays true.                                                    *)
FailWithoutCancel(c) ==   \* mutant
    /\ pc[c] = "select"
    /\ errCh[c] \in {"fatal", "gave up"}
    /\ pc' = [pc EXCEPT ![c] = "failed"]
    /\ errCh' = [errCh EXCEPT ![c] = "none"]
    /\ UNCHANGED <<serverVars, cancelled, sigCh, waiter, routines, subVars,
                   process, spent, asked>>
Fail(c) ==
    /\ pc[c] = "select"
    /\ errCh[c] \in {"fatal", "gave up"}
    /\ pc' = [pc EXCEPT ![c] = "failed"]
    /\ errCh' = [errCh EXCEPT ![c] = "none"]
    /\ cancelled' = cancelled \cup {c}
    /\ UNCHANGED <<serverVars, sigCh, waiter, routines, subVars,
                   process, spent, asked>>

(* done is closed, or the shutdown timeout strikes; then s.running = false. *)
(* When both are ready only the line that is logged differs.                *)
ReturnRunning(c) ==   \* mutant
    /\ pc[c] = "wait"
    /\ \/ waiter[c] = "done" /\ pc' = [pc EXCEPT ![c] = "graceful"]
       \/ waiter[c] # "done" /\ pc' = [pc EXCEPT ![c] = "forced"]
    /\ UNCHANGED <<serverVars, cancelled, sigCh, errCh, waiter, routines,
                   subVars, process, spent, asked>>
Return(c) ==
    /\ pc[c] = "wait"
    /\ \/ waiter[c] = "done" /\ pc' = [pc EXCEPT ![c] = "graceful"]
       \/ waiter[c] # "done" /\ pc' = [pc EXCEPT ![c] = "forced"]
    /\ running' = FALSE
    /\ UNCHANGED <<shutdown, closed, cancelled, sigCh, errCh, waiter, routines,
                   subVars, process, spent, asked>>

-----------------------------------------------------------------------------
(* The goroutines.                                                          *)

(* The scheduler, the cleanup and the claimer see ctx.Done between two      *)
(* ticks.  The last wg.Done wakes everybody in wg.Wait.                     *)
RoutineEnds(c, r) ==
    /\ c \in cancelled
    /\ r \in routines[c] \ {"subscribe"}
    /\ routines' = [routines EXCEPT ![c] = @ \ {r}]
    /\ waiter' = [d \in Calls |->
                     IF waiter[d] = "waiting" /\ r \in Counted /\ WaitCount = 1
                     THEN "woken" ELSE waiter[d]]
    /\ UNCHANGED <<serverVars, pc, cancelled, sigCh, errCh, subVars, process,
                   spent, asked>>

(* A goroutine that comes back from wg.Wait panics when the counter is in   *)
(* use again.                                                               *)
WaitReturns(c) ==
    /\ waiter[c] = "woken"
    /\ \/ WaitCount = 0 /\ waiter' = [waiter EXCEPT ![c] = "done"] /\ UNCHANGED process
       \/ WaitCount > 0 /\ process' = "WaitGroup panic" /\ UNCHANGED waiter
    /\ UNCHANGED <<serverVars, pc, cancelled, sigCh, errCh, routines, subVars,
                   spent, asked>>

-----------------------------------------------------------------------------
(* Subscribe.                                                               *)

SubscribeReturns(c, err) ==
    /\ sub' = [sub EXCEPT ![c] = "returned"]
    /\ errCh' = [errCh EXCEPT ![c] = err]
    /\ routines' = [routines EXCEPT ![c] = @ \ {"subscribe"}]
    /\ retryCount' = [retryCount EXCEPT ![c] = 0]
    /\ slept' = [slept EXCEPT ![c] = IF err = "gave up" THEN @ ELSE 0]
    /\ late' = [late EXCEPT ![c] = 0]

(* A command under a cancelled context fails at once; one that is in flight *)
(* goes on, and its error is then taken for the end of the context.         *)
Cancelled(c) ==
    /\ c \in cancelled
    /\ SubscribeReturns(c, "cancelled")
    /\ UNCHANGED spent

Broken(c) ==
    /\ c \notin cancelled
    /\ Spend("error", MaxErrors)
    /\ SubscribeReturns(c, "fatal")

(* The next XREADGROUP is in flight: of recoverOwnPending, or of the loop. *)
InFlight == {"own read", "read"}

ReadAnyway(c, read) ==   \* mutant
    /\ sub' = [sub EXCEPT ![c] = read]
    /\ UNCHANGED <<errCh, late, spent>>
Read(c, read) ==
    /\ c \notin cancelled
    /\ sub' = [sub EXCEPT ![c] = read]
    /\ UNCHANGED <<errCh, late, spent>>

(* XGROUP CREATE, then the claimer, which ends at once if the context has   *)
(* ended meanwhile.                                                         *)
CreateGroup(c) ==
    /\ sub[c] = "group"
    /\ \/ /\ Read(c, "own read")
          /\ routines' = [routines EXCEPT ![c] = @ \cup {"claimer"}]
          /\ UNCHANGED <<retryCount, slept>>
       \/ Cancelled(c)
       \/ Broken(c)
    /\ UNCHANGED <<serverVars, pc, cancelled, sigCh, waiter, process, asked>>

(* Redis answers: messages to process, or none, which ends the recovery.    *)
Batch(c) ==
    /\ sub' = [sub EXCEPT ![c] = IF @ = "read" THEN "away" ELSE "recovering"]
    /\ late' = [late EXCEPT ![c] = IF c \in cancelled THEN @ + 1 ELSE @]
    /\ UNCHANGED <<errCh, routines, spent>>

NoBatch(c) ==
    \/ Read(c, "read") /\ UNCHANGED routines
    \/ Cancelled(c)

AnswerKeepsCount(c) ==   \* mutant
    /\ sub[c] \in InFlight
    /\ Batch(c) \/ NoBatch(c)
    /\ retryCount' = [retryCount EXCEPT ![c] = IF sub'[c] = "read" THEN @ ELSE 0]
    /\ slept' = [slept EXCEPT ![c] = 0]
    /\ UNCHANGED <<serverVars, pc, cancelled, sigCh, waiter, process, asked>>
Answer(c) ==
    /\ sub[c] \in InFlight
    /\ Batch(c) \/ NoBatch(c)
    /\ retryCount' = [retryCount EXCEPT ![c] = 0]
    /\ slept' = [slept EXCEPT ![c] = 0]
    /\ UNCHANGED <<serverVars, pc, cancelled, sigCh, waiter, process, asked>>

(* 1, 2, 4, ... seconds. *)
Backoff(n) == LET seconds == 2 ^ (n - 1)
              IN  IF seconds > BackoffCap THEN BackoffCap ELSE seconds

(* An error that isTransientError knows, in the loop. *)
TransientError(c) ==
    LET n == retryCount[c] + 1
    IN  /\ sub[c] = "read"
        /\ c \notin cancelled
        /\ Spend("error", MaxErrors)
        /\ \/ /\ n > MaxRetries
              /\ SubscribeReturns(c, "gave up")
           \/ /\ n <= MaxRetries
              /\ sub' = [sub EXCEPT ![c] = "away"]
              /\ retryCount' = [retryCount EXCEPT ![c] = n]
              /\ slept' = [slept EXCEPT ![c] = @ + Backoff(n)]
              /\ UNCHANGED <<errCh, routines, late>>
        /\ UNCHANGED <<serverVars, pc, cancelled, sigCh, waiter, process, asked>>

(* Any other; in recoverOwnPending any at all. *)
OtherError(c) ==
    /\ sub[c] \in InFlight
    /\ Cancelled(c) \/ Broken(c)
    /\ UNCHANGED <<serverVars, pc, cancelled, sigCh, waiter, process, asked>>

(* time.Sleep ends, or the last message of the batch does: neither looks at *)
(* the context.                                                             *)
Resume(c) ==
    /\ sub[c] \in {"away", "recovering"}
    /\ \/ /\ Read(c, IF sub[c] = "away" THEN "read" ELSE "own read")
          /\ UNCHANGED <<routines, retryCount, slept>>
       \/ Cancelled(c)
    /\ UNCHANGED <<serverVars, pc, cancelled, sigCh, waiter, process, asked>>

-----------------------------------------------------------------------------
(* The rest of the program.                                                 *)

(* Under s.mu.  A Shutdown that finds no Start running does nothing; a      *)
(* second one closes a closed channel.                                      *)
Shutdown ==
    /\ Spend("shutdown", MaxShutdowns)
    /\ running
    /\ asked' = [asked EXCEPT ![shutdown] = @ + 1]
    /\ \/ /\ shutdown \notin closed
          /\ closed' = closed \cup {shutdown}
          /\ UNCHANGED process
       \/ /\ shutdown \in closed
          /\ process' = "close panic"
          /\ UNCHANGED closed
    /\ UNCHANGED <<running, shutdown, callVars, routines, subVars>>

(* A signal goes to every channel registered so far, those of calls that    *)
(* returned included; a full channel drops it.  It kills a process that has *)
(* not registered any.                                                      *)
Signal ==
    /\ Spend("signal", MaxSignals)
    /\ \/ /\ \A c \in Calls : sigCh[c] = "none"
          /\ process' = "killed"
          /\ UNCHANGED sigCh
       \/ /\ \E c \in Calls : sigCh[c] # "none"
          /\ sigCh' = [c \in Calls |->
                          IF sigCh[c] = "none" THEN "none" ELSE "full"]
          /\ UNCHANGED process
    /\ UNCHANGED <<serverVars, pc, cancelled, errCh, waiter, routines, subVars,
                   asked>>

-----------------------------------------------------------------------------
SubscribeStep(c) ==
    \/ CreateGroup(c)
    \/ Answer(c)
    \/ TransientError(c)
    \/ OtherError(c)
    \/ Resume(c)

Progress(c) ==
    \/ Launch(c) \/ Stop(c) \/ Fail(c) \/ Return(c)
    \/ WaitReturns(c)
    \/ \E r \in routines[c] : RoutineEnds(c, r)

LCNext ==
    /\ process = "up"
    /\ \/ \E c \in Calls : Lock(c) \/ Progress(c) \/ SubscribeStep(c)
       \/ Shutdown
       \/ Signal

LCSpec == LCInit /\ [][LCNext]_vars

(* Goroutines run, a blocking read ends, and so do handlers and sleeps.     *)
(* Nobody has to call Start or Shutdown, and Redis need not fail.  The      *)
(* steps of Progress are finite in number, so that one condition for all of *)
(* them is as good as one for each.                                         *)
Up(A) == process = "up" /\ A

LCFairSpec ==
    /\ LCSpec
    /\ WF_vars(Up(\E c \in Calls : Progress(c)))
    /\ \A c \in Calls : WF_vars(Up(SubscribeStep(c)))

-----------------------------------------------------------------------------
(* Every variable has its type, and a call of Start that is under way owns   *)
(* s.running and s.shutdown.                                                *)
LCTypeOK ==
    /\ running \in BOOLEAN
    /\ shutdown \in 0 .. MaxStarts
    /\ closed \subseteq Calls
    /\ pc \in [Calls -> {"idle", "launch", "select", "wait"} \cup Returned]
    /\ cancelled \subseteq Calls
    /\ sigCh \in [Calls -> {"none", "empty", "full"}]
    /\ errCh \in [Calls -> {"none", "cancelled", "fatal", "gave up"}]
    /\ waiter \in [Calls -> {"none", "waiting", "woken", "done"}]
    /\ routines \in [Calls -> SUBSET {"scheduler", "cleanup", "subscribe", "claimer"}]
    /\ sub \in [Calls -> {"none", "group", "own read", "recovering", "read", "away",
                          "returned"}]
    /\ retryCount \in [Calls -> Nat]
    /\ process \in {"up", "killed", "close panic", "WaitGroup panic"}
    /\ spent \in [{"shutdown", "signal", "error"} -> Nat]
    /\ asked \in [Calls -> Nat]
    /\ slept \in [Calls -> Int]
    /\ late \in [Calls -> Nat]
    /\ \A c \in Calls : pc[c] \in {"launch", "select", "wait"} => running /\ shutdown = c

(* Start returns without waiting for its Subscribe, which may go on handling *)
(* messages beside the Subscribe of the next Start.  But whatever it was     *)
(* doing when its context was cancelled, recovering, reading, sleeping or    *)
(* in a handler, it begins no more than one batch after that: the reply to   *)
(* the read that was in flight.                                              *)
OldSubscribesDrain == \A c \in Calls : late[c] <= 1

(* Shutdown may be called at any moment of any run, before, during or after *)
(* a signal, an error or a restart: only the second call that finds the     *)
(* same Start running panics, and only a Start after a forced shutdown can  *)
(* find the WaitGroup still waited for.                                     *)
PanicsOnlyIf ==
    /\ process = "close panic" => \E c \in Calls : asked[c] > 1
    /\ process = "WaitGroup panic" =>
          \E c, d \in Calls : c < d /\ pc[c] = "forced" /\ pc[d] # "idle"

(* A graceful return means that no scheduler and no cleanup is left, not    *)
(* even of an earlier Start that was forced to return.                      *)
GracefulLeavesNone ==
    \A c \in Calls : pc[c] = "graceful" =>
        \A d \in 1 .. c : routines[d] \cap {"scheduler", "cleanup"} = {}

(* The loop of Subscribe gives up on transient errors only when Redis has   *)
(* not answered for as long as all its sleeps take (with the values of the  *)
(* code, three minutes): every answer in between, be it empty, starts the   *)
(* count and the doubling again.  Its start-up has no such patience: there  *)
(* one error, transient or not, ends it (redis.go:153-168).                 *)
Patience[n \in 0 .. MaxRetries] ==
    IF n = 0 THEN 0 ELSE Patience[n - 1] + Backoff(n)
LoopIsPatient ==
    \A c \in Calls : errCh[c] = "gave up" => slept[c] = Patience[MaxRetries]

(* Start says "server is already running" while another call runs, or for   *)
(* ever after one whose Subscribe failed; a stopped server starts again.    *)
RefusedOnlyIf ==
    [][\A c \in Calls : pc[c] # "refused" /\ pc'[c] = "refused" =>
          \E d \in Calls : pc[d] \in {"launch", "select", "wait", "failed"}]_vars

(* A Start that a Shutdown or a signal finds running returns, wherever it,  *)
(* its goroutines and its Subscribe are: none is for ever about to stop.    *)
Stopping(c) ==
    \/ pc[c] = "wait"
    \/ pc[c] \in {"launch", "select"} /\ (c \in closed \/ sigCh[c] = "full")
StopsWhenAsked == []<>(process = "up" => \A c \in Calls : ~Stopping(c))

(* Nothing that a Start launched runs for ever after it has returned,       *)
(* however it returned: not the claimer, and not a Subscribe that sleeps,   *)
(* is blocked in a read or runs handlers.                                   *)
NothingLeftRunning ==
    []<>(process = "up" => \A c \in Calls : pc[c] \in Returned => routines[c] = {})

=============================================================================
