--------------------------- MODULE DeliveryKeeps ---------------------------
(***************************************************************************)
(* What no step takes away: as long as nothing failed, no task is lost;    *)
(* and whatever fails, a task that is on a retry survives and no message   *)
(* is stranded.  The inductive invariants behind NoLossWithoutFaults,      *)
(* RetriedTasksSurvive and NoStrandedMessage, and their proofs.            *)
(*                                                                         *)
(* The heart of the first is who answers for a task.  Until its key        *)
(* is set, an entry that will still be delivered does, or the scheduled    *)
(* set.  From then on first attempts are skipped, so that entries of first *)
(* attempts no longer count: a goroutine, a stored copy or the entry of a  *)
(* retry has to.                                                           *)
(***************************************************************************)
EXTENDS DeliveryProofs

Fresh(t) ==
    \/ t \in scheduled
    \/ \E id \in Ids : log[id].task = t /\ Deliverable(id)

Safe(t) ==
    \/ successes[t] > 0
    \/ \E c \in retry \cup dlq : c.task = t
    \/ \E u \in Threads : Carries(u, t)
    \/ \E id \in Ids : log[id].task = t /\ log[id].rc > 0 /\ Deliverable(id)

TasksKept(S) ==
    \A t \in S : IF t \in processed THEN Safe(t) ELSE Published(t) => Fresh(t)

(* A goroutine that is done with a message has the verdict it earned. *)
VerdictsTrue ==
    \A u \in Threads : phase[u] \in {"xack", "xdel", "final"} =>
        \/ verdict[u] \in {"retry", "dead"}
        \/ verdict[u] = "skip" /\ log[cur[u]].rc = 0
        \/ verdict[u] = "done" /\ successes[log[cur[u]].task] > 0

(* Nobody works in a process that does not run. *)
OffIsDown == \A u \in Threads : status[u[1]] = "off" => phase[u] = "down"

(* Only what cjson spoils is invalid. *)
SpoiltInvalid == \A id \in Ids : ~log[id].ok => log[id].task \in Undecodable

(* Without faults, goroutines are what the code expects them to be: whoever *)
(* works has a context that was not cancelled.                              *)
GoroutinesClean ==
    /\ \A u \in Threads : phase[u] # "down" => status[u[1]] \in {"recovering", "consuming"}
    /\ \A u \in Threads :
          phase[u] \in {"down", "ready"} => cur[u] = 0 /\ verdict[u] = "none"
    /\ VerdictsTrue

(* Whatever was begun has its key. *)
KeysClean ==
    /\ \A u \in Threads : cur[u] # 0 => log[cur[u]].task \in processed
    /\ \A id \in Ids : log[id].rc > 0 => log[id].task \in processed
    /\ SpoiltInvalid
    /\ \A c \in retry : c.task \in processed

BudgetInv == \A k \in EventKinds : budget[k] <= Budget[k]

KeepInv ==
    /\ BudgetInv
    /\ NoFaultYet => GoroutinesClean /\ KeysClean /\ TasksKept(Tasks \ Undecodable)

Shape == TypeOK /\ StreamInv /\ AttemptInv

-----------------------------------------------------------------------------
(* The budget.                                                              *)

(* A fault that is spent shows. *)
LEMMA NoSpend ==
    ASSUME TypeOK, BudgetInv, NEW k \in EventKinds \ {"publish"},
           Spend(k), NoFaultYet'
    PROVE  FALSE
<1>1. budget[k] \in Nat /\ Budget[k] \in Nat
  BY ConstantsAssumption DEF TypeOK
<1>2. budget'[k] = budget[k] - 1
  BY DEF TypeOK, Spend
<1>3. budget'[k] = Budget[k] /\ budget[k] <= Budget[k]
  BY DEF NoFaultYet, BudgetInv
<1>4. QED
  BY <1>1, <1>2, <1>3

(* A step spends one event at most. *)
LEMMA BudgetSteps ==
    ASSUME [Next]_vars
    PROVE  UNCHANGED budget \/ \E k \in EventKinds : Spend(k)
<1> DEFINE Goal == UNCHANGED budget \/ \E k \in EventKinds : Spend(k)
<1>1. ASSUME NEW t \in Tasks, Enqueue(t) PROVE Goal
  BY <1>1 DEF Enqueue, EventKinds
<1>2. ASSUME NEW t \in Tasks, ExpireProcessed(t) PROVE Goal
  BY <1>2 DEF ExpireProcessed, EventKinds
<1>3. ASSUME NEW t \in Tasks, EnqueueScheduled(t) PROVE Goal
  BY <1>3 DEF EnqueueScheduled
<1>4. ASSUME NEW c \in retry, EnqueueRetry(c) PROVE Goal
  BY <1>4 DEF EnqueueRetry
<1>5. ASSUME NEW w \in Workers, Consume(w) PROVE Goal
  BY <1>5 DEF Consume, Deliver, EventKinds
<1>6. ASSUME NEW w \in Workers, RecoverOwnPending(w) PROVE Goal
  BY <1>6 DEF RecoverOwnPending
<1>7. ASSUME NEW w \in Workers, ClaimStale(w) PROVE Goal
  BY <1>7 DEF ClaimStale, Deliver, EventKinds
<1>8. ASSUME NEW w \in Workers, Start(w) PROVE Goal
  BY <1>8 DEF Start
<1>9. ASSUME NEW w \in Workers, Shutdown(w) PROVE Goal
  BY <1>9 DEF Shutdown, EventKinds
<1>10. ASSUME NEW w \in Workers, MainStops(w) PROVE Goal
  BY <1>10 DEF MainStops
<1>11. ASSUME NEW w \in Workers, SubscribeFails(w) PROVE Goal
  BY <1>11 DEF SubscribeFails, EventKinds
<1>12. ASSUME NEW w \in Workers, Crash(w) PROVE Goal
  BY <1>12 DEF Crash, EventKinds
<1>13. ASSUME NEW w \in Workers, Exit(w) PROVE Goal
  BY <1>13 DEF Exit
<1>14. ASSUME NEW th \in Threads, NEW id \in batch[th], DropInvalid(th, id) PROVE Goal
  BY <1>14 DEF DropInvalid, EventKinds
<1>15. ASSUME NEW th \in Threads, NEW id \in batch[th], BeginRetry(th, id) PROVE Goal
  BY <1>15 DEF BeginRetry
<1>16. ASSUME NEW th \in Threads, NEW id \in batch[th], BeginFirst(th, id) PROVE Goal
  BY <1>16 DEF BeginFirst
<1>17. ASSUME NEW th \in Threads, NEW id \in batch[th], SkipProcessed(th, id) PROVE Goal
  BY <1>17 DEF SkipProcessed
<1>18. ASSUME NEW th \in Threads, NEW id \in batch[th], BeginFailOpen(th, id) PROVE Goal
  BY <1>18 DEF BeginFailOpen, EventKinds
<1>19. ASSUME NEW th \in Threads, Succeed(th) PROVE Goal
  BY <1>19 DEF Succeed
<1>20. ASSUME NEW th \in Threads, Fail(th) PROVE Goal
  BY <1>20 DEF Fail
<1>21. ASSUME NEW th \in Threads, XAck(th) PROVE Goal
  BY <1>21 DEF XAck
<1>22. ASSUME NEW th \in Threads, XDel(th) PROVE Goal
  BY <1>22 DEF XDel
<1>23. ASSUME NEW th \in Threads, CountCompleted(th) PROVE Goal
  BY <1>23 DEF CountCompleted
<1>24. ASSUME NEW th \in Threads, AddRetry(th) PROVE Goal
  BY <1>24 DEF AddRetry
<1>25. ASSUME NEW th \in Threads, AddDead(th) PROVE Goal
  BY <1>25 DEF AddDead
<1>26. ASSUME NEW th \in Threads, PipelineError(th) PROVE Goal
  BY <1>26 DEF PipelineError, EventKinds
<1>27. CASE UNCHANGED vars
  BY <1>27 DEF vars
<1>28. QED
  BY <1>1, <1>2, <1>3, <1>4, <1>5, <1>6, <1>7, <1>8, <1>9, <1>10, <1>11,
     <1>12, <1>13, <1>14, <1>15, <1>16, <1>17, <1>18, <1>19, <1>20, <1>21,
     <1>22, <1>23, <1>24, <1>25, <1>26, <1>27
  DEF Next, Scheduler, Fetch, Process, ThreadStep, Begin, Pipeline

(* The budget only shrinks, and what was spent stays spent. *)
LEMMA BudgetSpent ==
    ASSUME TypeOK, BudgetInv, UNCHANGED budget \/ \E k \in EventKinds : Spend(k)
    PROVE  BudgetInv' /\ (NoFaultYet' => NoFaultYet)
<1>1. CASE UNCHANGED budget
  BY <1>1 DEF BudgetInv, NoFaultYet
<1>2. ASSUME NEW k \in EventKinds, Spend(k) PROVE BudgetInv' /\ (NoFaultYet' => NoFaultYet)
  <2>1. budget' = [budget EXCEPT ![k] = @ - 1]
    BY <1>2 DEF Spend
  <2>2. \A j \in EventKinds : budget[j] \in Nat /\ Budget[j] \in Nat
    BY ConstantsAssumption DEF TypeOK
  <2>3. \A j \in EventKinds : budget'[j] <= budget[j]
    BY <2>1, <2>2 DEF TypeOK
  <2>4. \A j \in EventKinds : budget'[j] \in Int
    BY <2>1, <2>2 DEF TypeOK
  <2>5. BudgetInv'
    BY <2>2, <2>3, <2>4 DEF BudgetInv
  <2>6. NoFaultYet' => NoFaultYet
    <3>1. ASSUME NoFaultYet', NEW j \in EventKinds \ {"publish"} PROVE budget[j] = Budget[j]
      <4>1. budget'[j] = Budget[j] /\ budget'[j] <= budget[j] /\ budget[j] <= Budget[j]
        BY <2>3, <3>1 DEF NoFaultYet, BudgetInv
      <4>2. QED
        BY <2>2, <2>4, <4>1
    <3>2. QED
      BY <3>1 DEF NoFaultYet
  <2>7. QED
    BY <2>5, <2>6
<1>3. QED
  BY <1>1, <1>2

(* So it does in every step. *)
LEMMA BudgetStep ==
    ASSUME TypeOK, BudgetInv, [Next]_vars
    PROVE  BudgetInv' /\ (NoFaultYet' => NoFaultYet)
BY BudgetSteps, BudgetSpent

-----------------------------------------------------------------------------
(* Steps without faults.                                                    *)

(* The actions that a behaviour without faults does not take, and the       *)
(* branches of the others that it does not take.                            *)
LEMMA CleanSteps ==
    ASSUME TypeOK, BudgetInv, NoFaultYet', GoroutinesClean
    PROVE  /\ \A t \in Tasks : ~ExpireProcessed(t)
           /\ \A w \in Workers : /\ ~Shutdown(w) /\ ~MainStops(w)
                                 /\ ~SubscribeFails(w) /\ ~Crash(w)
           /\ \A u \in Threads : /\ ~PipelineError(u)
                                 /\ phase[u] # "down" => status[u[1]] # "closing"
                                 /\ \A id \in batch[u] : ~BeginFailOpen(u, id)
           /\ ~Spend("fault")
<1>1. \A u \in Threads : phase[u] # "down" => status[u[1]] # "closing"
  BY DEF GoroutinesClean
<1>2. \A w \in Workers : status[w] = "closing" => ~Idle(Main(w))
  BY <1>1 DEF Threads, Main, Idle
<1>3. ~Spend("fault") /\ ~Spend("crash") /\ ~Spend("shutdown") /\ ~Spend("expiry")
  BY NoSpend DEF EventKinds
<1>4. \A t \in Tasks : ~ExpireProcessed(t)
  BY <1>3 DEF ExpireProcessed
<1>5. \A w \in Workers : ~Shutdown(w) /\ ~MainStops(w) /\ ~SubscribeFails(w) /\ ~Crash(w)
  BY <1>2, <1>3 DEF Shutdown, MainStops, SubscribeFails, Crash
<1>6. \A u \in Threads : ~PipelineError(u) /\ \A id \in batch[u] : ~BeginFailOpen(u, id)
  BY <1>1, <1>3 DEF PipelineError, BeginFailOpen, Take
<1>7. QED
  BY <1>1, <1>3, <1>4, <1>5, <1>6

(* A worker that ends has nothing left to lose. *)
LEMMA CleanExit ==
    ASSUME TypeOK, GoroutinesClean, NEW w \in Workers, Exit(w)
    PROVE  /\ UNCHANGED <<redisVars, phase, cur, verdict, budget, historyVars>>
           /\ status[w] = "closing" /\ \A v \in Workers : v = w \/ status'[v] = status[v]
           /\ \A u \in Threads : u[1] = w => phase[u] = "down"
<1>1. /\ status[w] = "closing"
      /\ status' = [status EXCEPT ![w] = IF StableNames THEN "off" ELSE "gone"]
      /\ phase' = [u \in Threads |-> IF u[1] = w THEN "down" ELSE phase[u]]
      /\ cur' = [u \in Threads |-> IF u[1] = w THEN 0 ELSE cur[u]]
      /\ verdict' = [u \in Threads |-> IF u[1] = w THEN "none" ELSE verdict[u]]
      /\ UNCHANGED <<redisVars, budget, historyVars>>
  BY DEF Exit, Terminate
<1>2. \A u \in Threads : u[1] = w => phase[u] = "down" /\ cur[u] = 0 /\ verdict[u] = "none"
  BY <1>1 DEF GoroutinesClean
<1>3. /\ \A u \in Threads : phase'[u] = phase[u]
      /\ \A u \in Threads : cur'[u] = cur[u]
      /\ \A u \in Threads : verdict'[u] = verdict[u]
  BY <1>1, <1>2
<1>4. phase' = phase /\ cur' = cur /\ verdict' = verdict
  BY <1>1, <1>3 DEF TypeOK
<1>5. QED
  BY <1>1, <1>2, <1>4 DEF TypeOK

(* Goroutines that keep their place stay clean. *)
LEMMA GoroutinesFrame ==
    ASSUME TypeOK, GoroutinesClean,
           \A id \in Ids : log'[id] = log[id],
           UNCHANGED <<status, phase, cur, verdict, successes>>
    PROVE  GoroutinesClean'
<1>1. \A u \in Threads : phase[u] \in {"xack", "xdel", "final"} => cur[u] \in Ids
  BY CurType
<1>2. QED
  BY <1>1 DEF GoroutinesClean, VerdictsTrue

(* A goroutine that moves on to a clean place leaves them clean. *)
LEMMA GoroutineMoves ==
    ASSUME TypeOK, GoroutinesClean, NEW th \in Threads, UNCHANGED <<log, status>>,
           \A t \in Tasks : successes[t] > 0 => successes'[t] > 0,
           \A u \in Threads \ {th} : UNCHANGED <<phase[u], cur[u], verdict[u]>>,
           phase[th] # "down",
           phase'[th] \in {"down", "ready"} => cur'[th] = 0 /\ verdict'[th] = "none",
           phase'[th] \in {"xack", "xdel", "final"} =>
               \/ verdict'[th] \in {"retry", "dead"}
               \/ verdict'[th] = "skip" /\ log[cur'[th]].rc = 0
               \/ verdict'[th] = "done" /\ successes'[log[cur'[th]].task] > 0
    PROVE  GoroutinesClean'
<1>1. \A u \in Threads : phase[u] \in {"xack", "xdel", "final"}
                           => log[cur[u]].task \in Tasks
  BY CurType, EntryType
<1>2. QED
  BY <1>1 DEF GoroutinesClean, VerdictsTrue

(* Steps without faults keep the goroutines clean. *)
LEMMA GoroutinesStep ==
    ASSUME TypeOK, BudgetInv, NoFaultYet', GoroutinesClean, [Next]_vars
    PROVE  GoroutinesClean'
<1>1. ASSUME NEW t \in Tasks, Enqueue(t) PROVE GoroutinesClean'
  <2>1. UNCHANGED <<status, phase, cur, verdict, successes>>
    BY <1>1 DEF Enqueue, threadVars, historyVars
  <2>2. \A id \in Ids : log'[id] = log[id]
    <3>1. CASE XAdd(t, 0, TRUE)
      BY <3>1, XAddType DEF TypeOK
    <3>2. CASE UNCHANGED <<log, stream>>
      BY <3>2
    <3>3. QED
      BY <1>1, <3>1, <3>2 DEF Enqueue
  <2>3. QED
    BY <2>1, <2>2, GoroutinesFrame
<1>2. ASSUME NEW t \in Tasks, ExpireProcessed(t) PROVE GoroutinesClean'
  BY <1>2, CleanSteps
<1>3. ASSUME NEW t \in Tasks, EnqueueScheduled(t) PROVE GoroutinesClean'
  <2>1. UNCHANGED <<status, phase, cur, verdict, successes>>
    BY <1>3 DEF EnqueueScheduled, threadVars, historyVars
  <2>2. \A id \in Ids : log'[id] = log[id]
    <3>1. XAdd(t, 0, t \notin Undecodable) /\ (t \notin Undecodable) \in BOOLEAN
      BY <1>3 DEF EnqueueScheduled
    <3>2. QED
      BY <3>1, XAddType DEF TypeOK
  <2>3. QED
    BY <2>1, <2>2, GoroutinesFrame
<1>4. ASSUME NEW c \in retry, EnqueueRetry(c) PROVE GoroutinesClean'
  <2>1. UNCHANGED <<status, phase, cur, verdict, successes>>
    BY <1>4 DEF EnqueueRetry, threadVars, historyVars
  <2>2. \A id \in Ids : log'[id] = log[id]
    <3>1. c.task \in Tasks /\ c.rc \in Nat
      BY DEF TypeOK, RetryCopy
    <3>2. XAdd(c.task, c.rc, c.task \notin Undecodable)
      BY <1>4 DEF EnqueueRetry
    <3>3. QED
      BY <3>1, <3>2, XAddType DEF TypeOK
  <2>3. QED
    BY <2>1, <2>2, GoroutinesFrame
<1>5. ASSUME NEW w \in Workers, Consume(w) PROVE GoroutinesClean'
  <2>1. UNCHANGED <<log, status, phase, cur, verdict, successes>>
    BY <1>5, CleanSteps DEF Consume, Deliver, historyVars
  <2>2. QED
    BY <2>1, GoroutinesFrame
<1>6. ASSUME NEW w \in Workers, RecoverOwnPending(w) PROVE GoroutinesClean'
  <2>1. UNCHANGED <<log, phase, cur, verdict, successes>>
    BY <1>6 DEF RecoverOwnPending, redisVars, historyVars
  <2>2. status[w] = "recovering" /\ status' \in {status, [status EXCEPT ![w] = "consuming"]}
    BY <1>6 DEF RecoverOwnPending
  <2>3. \A v \in Workers : status'[v] \in {status[v], "consuming"}
    BY <2>2 DEF TypeOK
  <2>4. \A u \in Threads : u[1] \in Workers
    BY DEF Threads
  <2>5. QED
    BY <2>1, <2>3, <2>4 DEF GoroutinesClean, VerdictsTrue
<1>7. ASSUME NEW w \in Workers, ClaimStale(w) PROVE GoroutinesClean'
  <2>1. UNCHANGED <<log, status, phase, cur, verdict, successes>>
    BY <1>7, CleanSteps DEF ClaimStale, Deliver, historyVars
  <2>2. QED
    BY <2>1, GoroutinesFrame
<1>8. ASSUME NEW w \in Workers, Start(w) PROVE GoroutinesClean'
  <2>1. /\ UNCHANGED <<log, cur, verdict, successes>>
        /\ status[w] = "off"
        /\ status' = [status EXCEPT ![w] = "recovering"]
        /\ \A u \in Threads : phase'[u] = IF u[1] = w THEN "ready" ELSE phase[u]
    BY <1>8 DEF Start, redisVars, historyVars
  <2>2. \A u \in Threads : u[1] = w => phase[u] = "down"
    BY <2>1 DEF GoroutinesClean
  <2>3. QED
    BY <2>1, <2>2 DEF TypeOK, GoroutinesClean, VerdictsTrue
<1>9. ASSUME NEW w \in Workers, Shutdown(w) PROVE GoroutinesClean'
  BY <1>9, CleanSteps
<1>10. ASSUME NEW w \in Workers, MainStops(w) PROVE GoroutinesClean'
  BY <1>10, CleanSteps
<1>11. ASSUME NEW w \in Workers, SubscribeFails(w) PROVE GoroutinesClean'
  BY <1>11, CleanSteps
<1>12. ASSUME NEW w \in Workers, Crash(w) PROVE GoroutinesClean'
  BY <1>12, CleanSteps
<1>13. ASSUME NEW w \in Workers, Exit(w) PROVE GoroutinesClean'
  <2>1. /\ UNCHANGED <<log, phase, cur, verdict, successes>>
        /\ \A v \in Workers : v = w \/ status'[v] = status[v]
        /\ \A u \in Threads : u[1] = w => phase[u] = "down"
    BY <1>13, CleanExit DEF redisVars, historyVars
  <2>2. \A u \in Threads : phase'[u] # "down" => status'[u[1]] = status[u[1]]
    BY <2>1 DEF Threads
  <2>3. QED
    BY <2>1, <2>2 DEF GoroutinesClean, VerdictsTrue
<1>14. ASSUME NEW th \in Threads, NEW id \in batch[th], DropInvalid(th, id) PROVE GoroutinesClean'
  <2>1. UNCHANGED <<log, status, cur, verdict, successes>>
    BY <1>14 DEF DropInvalid, historyVars
  <2>2. AfterMessage(th, batch'[th]) = "ready" /\ phase[th] = "ready"
    BY <1>14, CleanSteps DEF DropInvalid, AfterMessage
  <2>3. phase' = phase
    BY <1>14, <2>2 DEF TypeOK, DropInvalid
  <2>4. QED
    BY <2>1, <2>3, GoroutinesFrame
<1>15. ASSUME NEW th \in Threads, NEW id \in batch[th], BeginRetry(th, id) PROVE GoroutinesClean'
  <2>1. /\ UNCHANGED <<log, status, successes>>
        /\ cur' = [cur EXCEPT ![th] = id]
        /\ phase' = [phase EXCEPT ![th] = "run"]
        /\ verdict' = [verdict EXCEPT ![th] = "none"]
        /\ phase[th] = "ready"
    BY <1>15 DEF BeginRetry, Take, redisVars, historyVars
  <2>2. phase[th] # "down"
    BY <2>1
  <2>3. QED
    BY <2>1, <2>2, GoroutineMoves DEF TypeOK
<1>16. ASSUME NEW th \in Threads, NEW id \in batch[th], BeginFirst(th, id) PROVE GoroutinesClean'
  <2>1. /\ UNCHANGED <<log, status, successes>>
        /\ cur' = [cur EXCEPT ![th] = id]
        /\ phase' = [phase EXCEPT ![th] = "run"]
        /\ verdict' = [verdict EXCEPT ![th] = "none"]
        /\ phase[th] = "ready"
    BY <1>16 DEF BeginFirst, Take, redisVars, historyVars
  <2>2. phase[th] # "down"
    BY <2>1
  <2>3. QED
    BY <2>1, <2>2, GoroutineMoves DEF TypeOK
<1>17. ASSUME NEW th \in Threads, NEW id \in batch[th], SkipProcessed(th, id) PROVE GoroutinesClean'
  <2>1. /\ UNCHANGED <<log, status, successes>>
        /\ cur' = [cur EXCEPT ![th] = id]
        /\ phase' = [phase EXCEPT ![th] = "xack"]
        /\ verdict' = [verdict EXCEPT ![th] = "skip"]
        /\ phase[th] = "ready"
    BY <1>17 DEF SkipProcessed, Take, redisVars, historyVars
  <2>2. phase[th] # "down"
    BY <2>1
  <2>3. log[id].rc = 0
    BY <1>17 DEF SkipProcessed, FirstAttempt
  <2>4. QED
    BY <2>1, <2>2, <2>3, GoroutineMoves DEF TypeOK
<1>18. ASSUME NEW th \in Threads, NEW id \in batch[th], BeginFailOpen(th, id) PROVE GoroutinesClean'
  BY <1>18, CleanSteps
<1>19. ASSUME NEW th \in Threads, Succeed(th) PROVE GoroutinesClean'
  <2>1. /\ UNCHANGED <<log, status, cur>>
        /\ phase' = [phase EXCEPT ![th] = "xack"]
        /\ verdict' = [verdict EXCEPT ![th] = "done"]
        /\ successes' = [successes EXCEPT ![log[cur[th]].task] = @ + 1]
        /\ phase[th] = "run"
    BY <1>19 DEF Succeed, redisVars
  <2>2. phase[th] # "down"
    BY <2>1
  <2>3. log[cur[th]].task \in Tasks
    BY <2>1, CurType, EntryType
  <2>4. /\ \A t \in Tasks : successes[t] > 0 => successes'[t] > 0
        /\ successes'[log[cur[th]].task] > 0
    BY <2>1, <2>3 DEF TypeOK
  <2>5. QED
    BY <2>1, <2>2, <2>4, GoroutineMoves DEF TypeOK
<1>20. ASSUME NEW th \in Threads, Fail(th) PROVE GoroutinesClean'
  <2>1. /\ UNCHANGED <<log, status, cur, successes>>
        /\ phase' = [phase EXCEPT ![th] = "xack"]
        /\ verdict' \in {[verdict EXCEPT ![th] = "retry"], [verdict EXCEPT ![th] = "dead"]}
        /\ phase[th] = "run"
    BY <1>20 DEF Fail, redisVars, historyVars
  <2>2. phase[th] # "down"
    BY <2>1
  <2>3. QED
    BY <2>1, <2>2, GoroutineMoves DEF TypeOK
<1>21. ASSUME NEW th \in Threads, XAck(th) PROVE GoroutinesClean'
  <2>1. /\ UNCHANGED <<log, status, cur, verdict, successes>>
        /\ phase[th] = "xack"
        /\ phase' = [phase EXCEPT ![th] = "xdel"]
    BY <1>21 DEF XAck, historyVars
  <2>2. phase[th] # "down"
    BY <2>1
  <2>3. QED
    BY <2>1, <2>2, GoroutineMoves DEF TypeOK, GoroutinesClean, VerdictsTrue
<1>22. ASSUME NEW th \in Threads, XDel(th) PROVE GoroutinesClean'
  <2>1. /\ UNCHANGED <<log, status, cur, verdict, successes>>
        /\ phase[th] = "xdel"
        /\ phase' = [phase EXCEPT ![th] = "final"]
    BY <1>22 DEF XDel, historyVars
  <2>2. phase[th] # "down"
    BY <2>1
  <2>3. QED
    BY <2>1, <2>2, GoroutineMoves DEF TypeOK, GoroutinesClean, VerdictsTrue
<1>23. ASSUME NEW th \in Threads, CountCompleted(th) PROVE GoroutinesClean'
  <2>1. /\ UNCHANGED <<log, status, successes>>
        /\ phase[th] = "final"
        /\ phase' = [phase EXCEPT ![th] = AfterMessage(th, batch[th])]
        /\ cur' = [cur EXCEPT ![th] = 0]
        /\ verdict' = [verdict EXCEPT ![th] = "none"]
    BY <1>23 DEF CountCompleted, Release, historyVars
  <2>2. phase[th] # "down" /\ AfterMessage(th, batch[th]) \in {"down", "ready"}
    BY <2>1 DEF AfterMessage
  <2>3. QED
    BY <2>1, <2>2, GoroutineMoves DEF TypeOK
<1>24. ASSUME NEW th \in Threads, AddRetry(th) PROVE GoroutinesClean'
  <2>1. /\ UNCHANGED <<log, status, successes>>
        /\ phase[th] = "final"
        /\ phase' = [phase EXCEPT ![th] = AfterMessage(th, batch[th])]
        /\ cur' = [cur EXCEPT ![th] = 0]
        /\ verdict' = [verdict EXCEPT ![th] = "none"]
    BY <1>24 DEF AddRetry, Release, historyVars
  <2>2. phase[th] # "down" /\ AfterMessage(th, batch[th]) \in {"down", "ready"}
    BY <2>1 DEF AfterMessage
  <2>3. QED
    BY <2>1, <2>2, GoroutineMoves DEF TypeOK
<1>25. ASSUME NEW th \in Threads, AddDead(th) PROVE GoroutinesClean'
  <2>1. /\ UNCHANGED <<log, status, successes>>
        /\ phase[th] = "final"
        /\ phase' = [phase EXCEPT ![th] = AfterMessage(th, batch[th])]
        /\ cur' = [cur EXCEPT ![th] = 0]
        /\ verdict' = [verdict EXCEPT ![th] = "none"]
    BY <1>25 DEF AddDead, Release, historyVars
  <2>2. phase[th] # "down" /\ AfterMessage(th, batch[th]) \in {"down", "ready"}
    BY <2>1 DEF AfterMessage
  <2>3. QED
    BY <2>1, <2>2, GoroutineMoves DEF TypeOK
<1>26. ASSUME NEW th \in Threads, PipelineError(th) PROVE GoroutinesClean'
  BY <1>26, CleanSteps
<1>27. CASE UNCHANGED vars
  BY <1>27, GoroutinesFrame DEF vars, redisVars, threadVars, historyVars
<1>28. QED
  BY <1>1, <1>2, <1>3, <1>4, <1>5, <1>6, <1>7, <1>8, <1>9, <1>10, <1>11,
     <1>12, <1>13, <1>14, <1>15, <1>16, <1>17, <1>18, <1>19, <1>20, <1>21,
     <1>22, <1>23, <1>24, <1>25, <1>26, <1>27
  DEF Next, Scheduler, Fetch, Process, ThreadStep, Begin, Pipeline

(* A step that begins only what has its key, and stores only copies of it. *)
LEMMA KeysFrame ==
    ASSUME KeysClean, UNCHANGED log, processed \subseteq processed',
           \A c \in retry' : c \in retry \/ c.task \in processed,
           \A u \in Threads : \/ cur'[u] \in {cur[u], 0}
                              \/ log[cur'[u]].task \in processed'
    PROVE  KeysClean'
BY DEF KeysClean, SpoiltInvalid, Ids

(* An entry of a retry is for a task that has its key. *)
LEMMA KeysXAdd ==
    ASSUME TypeOK, KeysClean,
           NEW t \in Tasks, NEW rc \in Nat, NEW ok \in BOOLEAN, XAdd(t, rc, ok),
           rc > 0 => t \in processed, ~ok => t \in Undecodable,
           retry' \subseteq retry, UNCHANGED <<cur, processed>>
    PROVE  KeysClean'
<1>1. /\ Ids' = Ids \cup {Len(log) + 1}
      /\ \A id \in Ids : log'[id] = log[id]
      /\ log'[Len(log) + 1] = [task |-> t, rc |-> rc, ok |-> ok]
  BY XAddType DEF TypeOK
<1>2. \A u \in Threads : cur[u] # 0 => cur[u] \in Ids
  BY DEF TypeOK, Ids
<1>3. ASSUME NEW id \in Ids'
      PROVE  /\ log'[id].rc > 0 => log'[id].task \in processed
             /\ ~log'[id].ok => log'[id].task \in Undecodable
  BY <1>1 DEF KeysClean, SpoiltInvalid
<1>4. \A u \in Threads : cur'[u] # 0 => log'[cur'[u]].task \in processed
  BY <1>1, <1>2 DEF KeysClean
<1>5. QED
  BY <1>3, <1>4 DEF KeysClean, SpoiltInvalid

(* Steps without faults keep keys and entries clean. *)
LEMMA KeysStep ==
    ASSUME TypeOK, BudgetInv, NoFaultYet', GoroutinesClean, KeysClean, [Next]_vars
    PROVE  KeysClean'
<1>1. ASSUME NEW t \in Tasks, Enqueue(t) PROVE KeysClean'
  <2>1. UNCHANGED <<cur, processed, retry>>
    BY <1>1 DEF Enqueue, threadVars
  <2>2. CASE XAdd(t, 0, TRUE)
    <3>1. PICK ok \in BOOLEAN : XAdd(t, 0, ok) /\ (~ok => t \in Undecodable)
      BY <2>2
    <3>2. QED
      BY <2>1, <3>1, KeysXAdd
  <2>3. CASE UNCHANGED <<log, stream>>
    BY <2>1, <2>3, KeysFrame
  <2>4. QED
    BY <1>1, <2>2, <2>3 DEF Enqueue
<1>2. ASSUME NEW t \in Tasks, ExpireProcessed(t) PROVE KeysClean'
  BY <1>2, CleanSteps
<1>3. ASSUME NEW t \in Tasks, EnqueueScheduled(t) PROVE KeysClean'
  <2>1. UNCHANGED <<cur, processed, retry>>
    BY <1>3 DEF EnqueueScheduled, threadVars
  <2>2. PICK ok \in BOOLEAN : XAdd(t, 0, ok) /\ (~ok => t \in Undecodable)
    BY <1>3 DEF EnqueueScheduled
  <2>3. QED
    BY <2>1, <2>2, KeysXAdd
<1>4. ASSUME NEW c \in retry, EnqueueRetry(c) PROVE KeysClean'
  <2>1. UNCHANGED <<cur, processed>> /\ retry' \subseteq retry
    BY <1>4 DEF EnqueueRetry, threadVars
  <2>2. c.task \in Tasks /\ c.rc \in Nat /\ c.task \in processed
    BY DEF TypeOK, RetryCopy, KeysClean
  <2>3. PICK ok \in BOOLEAN :
            XAdd(c.task, c.rc, ok) /\ (~ok => c.task \in Undecodable)
    BY <1>4 DEF EnqueueRetry
  <2>4. QED
    BY <2>1, <2>2, <2>3, KeysXAdd
<1>5. ASSUME NEW w \in Workers, Consume(w) PROVE KeysClean'
  BY <1>5, KeysFrame DEF Consume
<1>6. ASSUME NEW w \in Workers, RecoverOwnPending(w) PROVE KeysClean'
  BY <1>6, KeysFrame DEF RecoverOwnPending, redisVars
<1>7. ASSUME NEW w \in Workers, ClaimStale(w) PROVE KeysClean'
  BY <1>7, KeysFrame DEF ClaimStale
<1>8. ASSUME NEW w \in Workers, Start(w) PROVE KeysClean'
  BY <1>8, KeysFrame DEF Start, redisVars
<1>9. ASSUME NEW w \in Workers, Shutdown(w) PROVE KeysClean'
  BY <1>9, CleanSteps
<1>10. ASSUME NEW w \in Workers, MainStops(w) PROVE KeysClean'
  BY <1>10, CleanSteps
<1>11. ASSUME NEW w \in Workers, SubscribeFails(w) PROVE KeysClean'
  BY <1>11, CleanSteps
<1>12. ASSUME NEW w \in Workers, Crash(w) PROVE KeysClean'
  BY <1>12, CleanSteps
<1>13. ASSUME NEW w \in Workers, Exit(w) PROVE KeysClean'
  BY <1>13, CleanExit, KeysFrame DEF redisVars
<1>14. ASSUME NEW th \in Threads, NEW id \in batch[th], DropInvalid(th, id) PROVE KeysClean'
  BY <1>14, KeysFrame DEF DropInvalid
<1>15. ASSUME NEW th \in Threads, NEW id \in batch[th], BeginRetry(th, id) PROVE KeysClean'
  <2>1. /\ UNCHANGED <<log, retry>>
        /\ cur' = [cur EXCEPT ![th] = id]
        /\ processed \subseteq processed'
    BY <1>15 DEF BeginRetry, Take, redisVars
  <2>2. log[id].task \in processed'
    <3>1. id \in Ids /\ log[id].rc \in Nat
      BY EntryType DEF TypeOK
    <3>2. QED
      BY <1>15, <3>1 DEF KeysClean, BeginRetry, FirstAttempt, redisVars
  <2>3. QED
    BY <2>1, <2>2, KeysFrame DEF TypeOK
<1>16. ASSUME NEW th \in Threads, NEW id \in batch[th], BeginFirst(th, id) PROVE KeysClean'
  <2>1. /\ UNCHANGED <<log, retry>>
        /\ cur' = [cur EXCEPT ![th] = id]
        /\ processed \subseteq processed'
    BY <1>16 DEF BeginFirst, SetNX, Take, redisVars
  <2>2. log[id].task \in processed'
    BY <1>16 DEF BeginFirst, SetNX
  <2>3. QED
    BY <2>1, <2>2, KeysFrame DEF TypeOK
<1>17. ASSUME NEW th \in Threads, NEW id \in batch[th], SkipProcessed(th, id) PROVE KeysClean'
  <2>1. /\ UNCHANGED <<log, retry>>
        /\ cur' = [cur EXCEPT ![th] = id]
        /\ processed \subseteq processed'
    BY <1>17 DEF SkipProcessed, Take, redisVars
  <2>2. log[id].task \in processed'
    BY <1>17 DEF SkipProcessed, redisVars
  <2>3. QED
    BY <2>1, <2>2, KeysFrame DEF TypeOK
<1>18. ASSUME NEW th \in Threads, NEW id \in batch[th], BeginFailOpen(th, id) PROVE KeysClean'
  BY <1>18, CleanSteps
<1>19. ASSUME NEW th \in Threads, Succeed(th) PROVE KeysClean'
  BY <1>19, KeysFrame DEF Succeed, redisVars
<1>20. ASSUME NEW th \in Threads, Fail(th) PROVE KeysClean'
  BY <1>20, KeysFrame DEF Fail, redisVars
<1>21. ASSUME NEW th \in Threads, XAck(th) PROVE KeysClean'
  BY <1>21, KeysFrame DEF XAck
<1>22. ASSUME NEW th \in Threads, XDel(th) PROVE KeysClean'
  BY <1>22, KeysFrame DEF XDel
<1>23. ASSUME NEW th \in Threads, CountCompleted(th) PROVE KeysClean'
  <2>1. UNCHANGED <<log, retry, processed>> /\ cur' = [cur EXCEPT ![th] = 0]
    BY <1>23 DEF CountCompleted, Release
  <2>2. QED
    BY <2>1, KeysFrame DEF TypeOK
<1>24. ASSUME NEW th \in Threads, AddRetry(th) PROVE KeysClean'
  <2>1. /\ UNCHANGED <<log, processed>>
        /\ retry' = retry \cup {Copy(th)}
        /\ cur' = [cur EXCEPT ![th] = 0]
        /\ phase[th] = "final"
    BY <1>24 DEF AddRetry, Release
  <2>2. cur[th] # 0
    BY <2>1 DEF TypeOK
  <2>3. Copy(th).task \in processed
    BY <2>2 DEF KeysClean, Copy
  <2>4. QED
    BY <2>1, <2>3, KeysFrame DEF TypeOK
<1>25. ASSUME NEW th \in Threads, AddDead(th) PROVE KeysClean'
  <2>1. UNCHANGED <<log, retry, processed>> /\ cur' = [cur EXCEPT ![th] = 0]
    BY <1>25 DEF AddDead, Release
  <2>2. QED
    BY <2>1, KeysFrame DEF TypeOK
<1>26. ASSUME NEW th \in Threads, PipelineError(th) PROVE KeysClean'
  BY <1>26, CleanSteps
<1>27. CASE UNCHANGED vars
  BY <1>27, KeysFrame DEF vars, redisVars, threadVars
<1>28. QED
  BY <1>1, <1>2, <1>3, <1>4, <1>5, <1>6, <1>7, <1>8, <1>9, <1>10, <1>11,
     <1>12, <1>13, <1>14, <1>15, <1>16, <1>17, <1>18, <1>19, <1>20, <1>21,
     <1>22, <1>23, <1>24, <1>25, <1>26, <1>27
  DEF Next, Scheduler, Fetch, Process, ThreadStep, Begin, Pipeline

-----------------------------------------------------------------------------
(* The tasks.                                                               *)

(* A task that has its key stays safe while nothing that answers for it is  *)
(* taken away.                                                              *)
LEMMA SafeFrame ==
    ASSUME UNCHANGED log, retry \cup dlq \subseteq retry' \cup dlq',
           NEW t \in Tasks, Safe(t),
           successes[t] > 0 => successes'[t] > 0,
           \A u \in Threads : Carries(u, t) => Carries(u, t)' \/ Safe(t)',
           \A id \in Ids : log[id].task = t /\ log[id].rc > 0 /\ Deliverable(id)
                             => Deliverable(id)' \/ Safe(t)'
    PROVE  Safe(t)'
<1>1. CASE successes[t] > 0
  BY <1>1 DEF Safe
<1>2. CASE \E c \in retry \cup dlq : c.task = t
  BY <1>2 DEF Safe
<1>3. CASE \E u \in Threads : Carries(u, t)
  BY <1>3 DEF Safe
<1>4. CASE \E id \in Ids : log[id].task = t /\ log[id].rc > 0 /\ Deliverable(id)
  <2>1. PICK id \in Ids : log[id].task = t /\ log[id].rc > 0 /\ Deliverable(id)
    BY <1>4
  <2>2. CASE Deliverable(id)'
    <3>1. id \in Ids' /\ log'[id].task = t /\ log'[id].rc > 0
      BY <2>1 DEF Ids
    <3>2. QED
      BY <2>2, <3>1 DEF Safe
  <2>3. QED
    BY <2>1, <2>2
<1>5. QED
  BY <1>1, <1>2, <1>3, <1>4 DEF Safe

(* Tasks are kept by a step that publishes nothing into the stream, gives a *)
(* key only to a task that is safe, and takes an entry away only from a     *)
(* task that has its key and is safe without it.                            *)
LEMMA TasksFrame ==
    ASSUME TypeOK, NEW S \in SUBSET (Tasks \ Undecodable), TasksKept(S),
           UNCHANGED log, scheduled \subseteq scheduled',
           processed \subseteq processed',
           \A t \in Tasks : t \in processed' \ processed => Safe(t)',
           retry \cup dlq \subseteq retry' \cup dlq',
           \A t \in Tasks : successes[t] > 0 => successes'[t] > 0,
           \A u \in Threads, t \in Tasks : Carries(u, t) => Carries(u, t)' \/ Safe(t)',
           \A id \in Ids :
               log[id].task \notin Undecodable /\ Deliverable(id) =>
                 \/ Deliverable(id)'
                 \/ /\ log[id].task \in processed'
                    /\ log[id].rc = 0 \/ Safe(log[id].task)'
    PROVE  TasksKept(S)'
<1> SUFFICES ASSUME NEW t \in S
             PROVE  /\ t \in processed' => Safe(t)'
                    /\ t \notin processed' /\ Published(t)' => Fresh(t)'
  BY DEF TasksKept
<1>1. CASE t \in processed
  <2>1. Safe(t)
    BY <1>1 DEF TasksKept
  <2>2. \A id \in Ids : log[id].task = t /\ log[id].rc > 0 /\ Deliverable(id)
                             => Deliverable(id)' \/ Safe(t)'
    BY EntryType
  <2>3. QED
    BY <1>1, <2>1, <2>2, SafeFrame
<1>2. CASE t \in processed' /\ t \notin processed
  BY <1>2
<1>3. CASE t \notin processed' /\ Published(t)'
  <2>1. CASE t \in scheduled'
    BY <1>3, <2>1 DEF Fresh
  <2>2. CASE t \notin scheduled'
    <3>1. t \notin processed /\ t \notin scheduled /\ Published(t)
      BY <1>3, <2>2 DEF Published, Ids
    <3>2. PICK id \in Ids : log[id].task = t /\ Deliverable(id)
      BY <3>1 DEF TasksKept, Fresh
    <3>3. log[id].task \notin Undecodable /\ log[id].task \notin processed'
      BY <1>3, <3>2
    <3>4. Deliverable(id)'
      BY <3>2, <3>3
    <3>5. id \in Ids' /\ log'[id].task = t
      BY <3>2 DEF Ids
    <3>6. QED
      BY <1>3, <3>4, <3>5 DEF Fresh
  <2>3. QED
    BY <2>1, <2>2
<1>4. QED
  BY <1>1, <1>2, <1>3

(* In particular by a step of goroutines that leaves the stream alone.      *)
LEMMA TasksThreads ==
    ASSUME TypeOK, NEW S \in SUBSET (Tasks \ Undecodable), TasksKept(S),
           UNCHANGED <<log, stream, lastDelivered, pel, scheduled, processed>>,
           retry \cup dlq \subseteq retry' \cup dlq',
           \A t \in Tasks : successes[t] > 0 => successes'[t] > 0,
           \A u \in Threads, t \in Tasks : Carries(u, t) => Carries(u, t)' \/ Safe(t)'
    PROVE  TasksKept(S)'
<1>1. \A id \in Ids : Deliverable(id) => Deliverable(id)'
  BY DEF Deliverable, Delivered, Pending
<1>2. QED
  BY <1>1, TasksFrame

(* And by one that leaves the goroutines and the copies alone.              *)
LEMMA TasksStream ==
    ASSUME TypeOK, NEW S \in SUBSET (Tasks \ Undecodable), TasksKept(S),
           UNCHANGED <<log, scheduled, retry, dlq, processed, successes,
                       phase, cur, verdict>>,
           \A id \in Ids : Deliverable(id) => Deliverable(id)'
    PROVE  TasksKept(S)'
<1>1. \A u \in Threads, t \in Tasks : Carries(u, t) => Carries(u, t)'
  BY DEF Carries
<1>2. QED
  BY <1>1, TasksFrame

(* A new entry takes nothing away, and is itself something that no key      *)
(* hides, if it is a retry.                                                 *)
LEMMA SafeXAdd ==
    ASSUME TypeOK,
           NEW t \in Tasks, NEW rc \in Nat, NEW ok \in BOOLEAN, XAdd(t, rc, ok),
           \A c \in retry : c \in retry' \/ (c.task = t /\ rc > 0),
           UNCHANGED <<lastDelivered, pel, dlq, successes, phase, cur, verdict>>,
           NEW x \in Tasks, Safe(x) \/ (x = t /\ rc > 0)
    PROVE  Safe(x)'
<1>1. PICK n : n = Len(log) + 1
  OBVIOUS
<1>2. /\ Ids' = Ids \cup {n}
      /\ \A id \in Ids : log'[id] = log[id]
      /\ log'[n] = [task |-> t, rc |-> rc, ok |-> ok]
      /\ stream' = stream \cup {n}
  BY <1>1, XAddType DEF TypeOK, XAdd
<1>3. n \in Ids' /\ log'[n].task = t /\ log'[n].rc = rc /\ Deliverable(n)'
  BY <1>1, <1>2, NumberTypes DEF TypeOK, Deliverable, Delivered
<1>4. \A id \in Ids : Deliverable(id) => Deliverable(id)'
  BY <1>2 DEF Deliverable, Delivered, Pending
<1>5. CASE x = t /\ rc > 0
  BY <1>3, <1>5 DEF Safe
<1>6. CASE x # t \/ ~(rc > 0)
  <2>1. CASE successes[x] > 0
    BY <2>1 DEF Safe
  <2>2. CASE \E c \in retry \cup dlq : c.task = x
    BY <1>6, <2>2 DEF Safe
  <2>3. CASE \E u \in Threads : Carries(u, x)
    <3>1. PICK u \in Threads : Carries(u, x)
      BY <2>3
    <3>2. cur[u] \in Ids
      BY <3>1 DEF TypeOK, Ids, Carries
    <3>3. Carries(u, x)'
      BY <1>2, <3>1, <3>2 DEF Carries
    <3>4. QED
      BY <3>3 DEF Safe
  <2>4. CASE \E id \in Ids : log[id].task = x /\ log[id].rc > 0 /\ Deliverable(id)
    <3>1. PICK id \in Ids : log[id].task = x /\ log[id].rc > 0 /\ Deliverable(id)
      BY <2>4
    <3>2. id \in Ids' /\ log'[id].task = x /\ log'[id].rc > 0 /\ Deliverable(id)'
      BY <1>2, <1>4, <3>1
    <3>3. QED
      BY <3>2 DEF Safe
  <2>5. QED
    BY <1>6, <2>1, <2>2, <2>3, <2>4 DEF Safe
<1>7. QED
  BY <1>5, <1>6

(* A new entry answers for its task; what it is moved from may go.          *)
LEMMA TasksXAdd ==
    ASSUME TypeOK, NEW S \in SUBSET (Tasks \ Undecodable), TasksKept(S),
           NEW t \in Tasks, NEW rc \in Nat, NEW ok \in BOOLEAN, XAdd(t, rc, ok),
           rc > 0 => t \in processed,
           scheduled \ {t} \subseteq scheduled', scheduled' \subseteq scheduled,
           \A c \in retry : c \in retry' \/ (c.task = t /\ rc > 0),
           UNCHANGED <<lastDelivered, pel, dlq, processed, successes,
                       phase, cur, verdict>>
    PROVE  TasksKept(S)'
<1> SUFFICES ASSUME NEW x \in S
             PROVE  /\ x \in processed' => Safe(x)'
                    /\ x \notin processed' /\ Published(x)' => Fresh(x)'
  BY DEF TasksKept
<1>1. PICK n : n = Len(log) + 1
  OBVIOUS
<1>2. /\ Ids' = Ids \cup {n}
      /\ \A id \in Ids : log'[id] = log[id]
      /\ log'[n] = [task |-> t, rc |-> rc, ok |-> ok]
      /\ stream' = stream \cup {n}
  BY <1>1, XAddType DEF TypeOK, XAdd
<1>3. n \in Ids' /\ log'[n].task = t /\ log'[n].rc = rc /\ Deliverable(n)'
  BY <1>1, <1>2, NumberTypes DEF TypeOK, Deliverable, Delivered
<1>4. \A id \in Ids : Deliverable(id) => Deliverable(id)'
  BY <1>2 DEF Deliverable, Delivered, Pending
<1>5. ASSUME x \in processed PROVE Safe(x)'
  <2>1. Safe(x)
    BY <1>5 DEF TasksKept
  <2>2. QED
    BY <2>1, SafeXAdd
<1>6. ASSUME x \notin processed, Published(x)' PROVE Fresh(x)'
  <2>1. CASE x = t
    BY <1>3, <2>1 DEF Fresh
  <2>2. CASE x # t
    <3>1. Published(x)
      BY <1>2, <1>6, <2>2 DEF Published
    <3>2. Fresh(x)
      BY <1>6, <3>1 DEF TasksKept
    <3>3. CASE x \in scheduled
      BY <2>2, <3>3 DEF Fresh
    <3>4. CASE \E id \in Ids : log[id].task = x /\ Deliverable(id)
      <4>1. PICK id \in Ids : log[id].task = x /\ Deliverable(id)
        BY <3>4
      <4>2. id \in Ids' /\ log'[id].task = x /\ Deliverable(id)'
        BY <1>2, <1>4, <4>1
      <4>3. QED
        BY <4>2 DEF Fresh
    <3>5. QED
      BY <3>2, <3>3, <3>4 DEF Fresh
  <2>3. QED
    BY <2>1, <2>2
<1>7. QED
  BY <1>5, <1>6

(* An XACK takes nothing but its own message off the pending lists.         *)
LEMMA AckedDeliverable ==
    ASSUME NEW n, pel' = Acked(n), UNCHANGED <<stream, lastDelivered>>
    PROVE  \A id \in Ids : id # n /\ Deliverable(id) => Deliverable(id)'
<1>1. \A j \in Pending : j # n => j \in Pending'
  BY DEF Pending, Acked
<1>2. QED
  BY <1>1 DEF Deliverable, Delivered

(* A goroutine that moves keeps them if it carries its task on, or hands it *)
(* to something that does.                                                  *)
LEMMA TasksMove ==
    ASSUME TypeOK, NEW S \in SUBSET (Tasks \ Undecodable), TasksKept(S),
           NEW th \in Threads,
           UNCHANGED <<log, stream, lastDelivered, pel, scheduled, processed>>,
           \A u \in Threads \ {th} : UNCHANGED <<phase[u], cur[u], verdict[u]>>,
           retry \cup dlq \subseteq retry' \cup dlq',
           \A t \in Tasks : successes[t] > 0 => successes'[t] > 0,
           \A t \in Tasks : Carries(th, t) => Carries(th, t)' \/ Safe(t)'
    PROVE  TasksKept(S)'
<1>1. \A u \in Threads \ {th}, t \in Tasks : Carries(u, t) => Carries(u, t)'
  BY DEF Carries
<1>2. \A u \in Threads, t \in Tasks : Carries(u, t) => Carries(u, t)' \/ Safe(t)'
  BY <1>1
<1>3. QED
  BY <1>2, TasksThreads

(* Steps without faults keep the tasks. *)
LEMMA TasksStep ==
    ASSUME Shape, BudgetInv, NoFaultYet', GoroutinesClean, KeysClean,
           NEW S \in SUBSET (Tasks \ Undecodable), TasksKept(S),
           [Next]_vars
    PROVE  TasksKept(S)'
<1> TypeOK /\ StreamInv /\ AttemptInv
  BY DEF Shape
<1>1. ASSUME NEW t \in Tasks, Enqueue(t) PROVE TasksKept(S)'
  <2>1. UNCHANGED <<lastDelivered, pel, retry, dlq, processed, successes,
                    phase, cur, verdict>>
    BY <1>1 DEF Enqueue, threadVars, historyVars
  <2>2. CASE XAdd(t, 0, TRUE) /\ UNCHANGED scheduled
    <3>1. PICK rc \in Nat, ok \in BOOLEAN : rc = 0 /\ XAdd(t, rc, ok)
      BY <2>2
    <3>2. QED
      BY <2>1, <2>2, <3>1, TasksXAdd
  <2>3. CASE UNCHANGED <<log, stream>> /\ scheduled' = scheduled \cup {t}
    <3>1. \A id \in Ids : Deliverable(id) => Deliverable(id)'
      BY <2>1, <2>3 DEF Deliverable, Delivered, Pending
    <3>2. \A u \in Threads, x \in Tasks : Carries(u, x) => Carries(u, x)'
      BY <2>1, <2>3 DEF Carries
    <3>3. QED
      BY <2>1, <2>3, <3>1, <3>2, TasksFrame
  <2>4. QED
    BY <1>1, <2>2, <2>3 DEF Enqueue
<1>2. ASSUME NEW t \in Tasks, ExpireProcessed(t) PROVE TasksKept(S)'
  BY <1>2, CleanSteps
<1>3. ASSUME NEW t \in Tasks, EnqueueScheduled(t) PROVE TasksKept(S)'
  <2>1. /\ UNCHANGED <<lastDelivered, pel, retry, dlq, processed, successes,
                       phase, cur, verdict>>
        /\ scheduled' = scheduled \ {t}
    BY <1>3 DEF EnqueueScheduled, threadVars, historyVars
  <2>2. PICK rc \in Nat, ok \in BOOLEAN : rc = 0 /\ XAdd(t, rc, ok)
    BY <1>3 DEF EnqueueScheduled
  <2>3. QED
    BY <2>1, <2>2, TasksXAdd
<1>4. ASSUME NEW c \in retry, EnqueueRetry(c) PROVE TasksKept(S)'
  <2>1. /\ UNCHANGED <<lastDelivered, pel, scheduled, dlq, processed, successes,
                       phase, cur, verdict>>
        /\ retry' = retry \ {c}
    BY <1>4 DEF EnqueueRetry, threadVars, historyVars
  <2>2. c.task \in Tasks /\ c.rc \in Nat /\ c.rc > 0 /\ c.task \in processed
    BY ConstantsAssumption
    DEF TypeOK, RetryCopy, KeysClean, AttemptInv, AttemptsBounded
  <2>3. PICK ok \in BOOLEAN : XAdd(c.task, c.rc, ok)
    BY <1>4 DEF EnqueueRetry
  <2>4. QED
    BY <2>1, <2>2, <2>3, TasksXAdd
<1>5. ASSUME NEW w \in Workers, Consume(w) PROVE TasksKept(S)'
  <2>1. UNCHANGED <<log, stream, scheduled, retry, dlq, processed, successes,
                    phase, cur, verdict>>
    BY <1>5, CleanSteps DEF Consume, Deliver, historyVars
  <2>2. \A id \in Ids : Deliverable(id) => Deliverable(id)'
    <3>1. /\ Pending' = Pending \cup {id \in Undelivered : id <= lastDelivered'}
          /\ lastDelivered' \in Ids
      BY <1>5, ConsumeDelivers
    <3>2. lastDelivered \in Nat /\ lastDelivered' \in Nat /\ Ids \subseteq Nat
      BY <3>1, NumberTypes
    <3>3. QED
      BY <2>1, <3>1, <3>2 DEF Deliverable, Delivered, Undelivered
  <2>3. QED
    BY <2>1, <2>2, TasksStream
<1>6. ASSUME NEW w \in Workers, RecoverOwnPending(w) PROVE TasksKept(S)'
  <2>1. /\ UNCHANGED <<log, stream, lastDelivered, pel, scheduled, retry, dlq,
                       processed, successes>>
        /\ UNCHANGED <<phase, cur, verdict>>
    BY <1>6 DEF RecoverOwnPending, redisVars, historyVars
  <2>2. \A u \in Threads, t \in Tasks : Carries(u, t) => Carries(u, t)'
    BY <2>1 DEF Carries
  <2>3. QED
    BY <2>1, <2>2, TasksThreads
<1>7. ASSUME NEW w \in Workers, ClaimStale(w) PROVE TasksKept(S)'
  <2> DEFINE got == FirstOf({id \in Pending : Stale(id)})
  <2>1. UNCHANGED <<log, stream, lastDelivered, scheduled, retry, dlq, processed,
                    successes, phase, cur, verdict>>
    BY <1>7, CleanSteps DEF ClaimStale, Deliver, historyVars
  <2>2. /\ got \subseteq Pending
        /\ pel' = [v \in Workers |-> IF v = w THEN pel[v] \cup got ELSE pel[v] \ got]
    BY <1>7, FirstOfSubset DEF ClaimStale
  <2>3. Pending \subseteq Pending'
    BY <2>2 DEF Pending
  <2>4. \A id \in Ids : Deliverable(id) => Deliverable(id)'
    BY <2>1, <2>3 DEF Deliverable, Delivered
  <2>5. QED
    BY <2>1, <2>4, TasksStream
<1>8. ASSUME NEW w \in Workers, Start(w) PROVE TasksKept(S)'
  <2>1. /\ UNCHANGED <<log, stream, lastDelivered, pel, scheduled, retry, dlq,
                       processed, successes>>
        /\ UNCHANGED <<cur, verdict>>
        /\ status[w] = "off"
        /\ \A u \in Threads : u[1] # w => phase'[u] = phase[u]
    BY <1>8 DEF Start, redisVars, historyVars
  <2>2. \A u \in Threads : u[1] = w => cur[u] = 0
    BY <2>1 DEF GoroutinesClean
  <2>3. \A u \in Threads, t \in Tasks : Carries(u, t) => Carries(u, t)'
    BY <2>1, <2>2 DEF Carries
  <2>4. QED
    BY <2>1, <2>3, TasksThreads
<1>9. ASSUME NEW w \in Workers, Shutdown(w) PROVE TasksKept(S)'
  BY <1>9, CleanSteps
<1>10. ASSUME NEW w \in Workers, MainStops(w) PROVE TasksKept(S)'
  BY <1>10, CleanSteps
<1>11. ASSUME NEW w \in Workers, SubscribeFails(w) PROVE TasksKept(S)'
  BY <1>11, CleanSteps
<1>12. ASSUME NEW w \in Workers, Crash(w) PROVE TasksKept(S)'
  BY <1>12, CleanSteps
<1>13. ASSUME NEW w \in Workers, Exit(w) PROVE TasksKept(S)'
  <2>1. /\ UNCHANGED <<log, stream, lastDelivered, pel, scheduled, retry, dlq,
                       processed, successes>>
        /\ UNCHANGED <<phase, cur, verdict>>
    BY <1>13, CleanExit DEF redisVars, historyVars
  <2>2. \A u \in Threads, t \in Tasks : Carries(u, t) => Carries(u, t)'
    BY <2>1 DEF Carries
  <2>3. QED
    BY <2>1, <2>2, TasksThreads
<1>14. ASSUME NEW th \in Threads, NEW id \in batch[th], DropInvalid(th, id) PROVE TasksKept(S)'
  <2>1. /\ UNCHANGED <<log, stream, lastDelivered, scheduled, retry, dlq,
                       processed, successes>>
        /\ UNCHANGED <<cur, verdict>>
        /\ phase[th] = "ready"
        /\ \A u \in Threads \ {th} : phase'[u] = phase[u]
        /\ ~log[id].ok
    BY <1>14 DEF TypeOK, DropInvalid, historyVars
  <2>2. pel' \in {Acked(id), pel}
    BY <1>14 DEF DropInvalid
  <2>3. id \in Ids /\ log[id].task \in Undecodable
    BY <2>1, NumberTypes DEF KeysClean, SpoiltInvalid
  <2>4. \A j \in Ids : j # id /\ Deliverable(j) => Deliverable(j)'
    <3>1. CASE pel' = Acked(id)
      BY <2>1, <3>1, AckedDeliverable
    <3>2. CASE pel' = pel
      BY <2>1, <3>2 DEF Deliverable, Delivered, Pending
    <3>3. QED
      BY <2>2, <3>1, <3>2
  <2>5. cur[th] = 0
    BY <2>1 DEF GoroutinesClean
  <2>6. \A u \in Threads, t \in Tasks : Carries(u, t) => Carries(u, t)'
    BY <2>1, <2>5 DEF Carries
  <2>7. \A j \in Ids : log[j].task \notin Undecodable /\ Deliverable(j) => Deliverable(j)'
    BY <2>3, <2>4
  <2>8. QED
    BY <2>1, <2>6, <2>7, TasksFrame
<1>15. ASSUME NEW th \in Threads, NEW id \in batch[th], BeginRetry(th, id) PROVE TasksKept(S)'
  <2>1. /\ UNCHANGED <<log, stream, lastDelivered, pel, scheduled, retry, dlq,
                       processed, successes>>
        /\ \A u \in Threads \ {th} : UNCHANGED <<phase[u], cur[u], verdict[u]>>
        /\ phase[th] = "ready"
    BY <1>15 DEF TypeOK, BeginRetry, Take, redisVars, historyVars
  <2>2. \A t \in Tasks : ~Carries(th, t)
    BY <2>1 DEF GoroutinesClean, Carries
  <2>3. QED
    BY <2>1, <2>2, TasksMove
<1>16. ASSUME NEW th \in Threads, NEW id \in batch[th], BeginFirst(th, id) PROVE TasksKept(S)'
  <2>1. /\ UNCHANGED <<log, stream, lastDelivered, pel, scheduled, retry, dlq,
                       successes>>
        /\ \A u \in Threads \ {th} : UNCHANGED <<phase[u], cur[u], verdict[u]>>
        /\ phase[th] = "ready" /\ phase'[th] = "run" /\ cur'[th] = id
        /\ processed' = processed \cup {log[id].task}
    BY <1>16 DEF TypeOK, BeginFirst, SetNX, Take
  <2>2. \A u \in Threads, t \in Tasks : Carries(u, t) => Carries(u, t)'
    <3>1. \A t \in Tasks : ~Carries(th, t)
      BY <2>1 DEF GoroutinesClean, Carries
    <3>2. \A u \in Threads \ {th}, t \in Tasks : Carries(u, t) => Carries(u, t)'
      BY <2>1 DEF Carries
    <3>3. QED
      BY <3>1, <3>2
  <2>3. \A t \in Tasks : t \in processed' \ processed => Safe(t)'
    <3>1. id \in Ids /\ id # 0
      BY NumberTypes
    <3>2. ASSUME NEW t \in Tasks, t \in processed' \ processed PROVE Safe(t)'
      <4>1. t = log[id].task
        BY <2>1, <3>2
      <4>2. Carries(th, t)'
        BY <2>1, <3>1, <4>1 DEF Carries
      <4>3. QED
        BY <4>2 DEF Safe
    <3>3. QED
      BY <3>2
  <2>4. \A j \in Ids : Deliverable(j) => Deliverable(j)'
    BY <2>1 DEF Deliverable, Delivered, Pending
  <2>5. QED
    BY <2>1, <2>2, <2>3, <2>4, TasksFrame
<1>17. ASSUME NEW th \in Threads, NEW id \in batch[th], SkipProcessed(th, id) PROVE TasksKept(S)'
  <2>1. /\ UNCHANGED <<log, stream, lastDelivered, pel, scheduled, retry, dlq,
                       processed, successes>>
        /\ \A u \in Threads \ {th} : UNCHANGED <<phase[u], cur[u], verdict[u]>>
        /\ phase[th] = "ready"
    BY <1>17 DEF TypeOK, SkipProcessed, Take, redisVars, historyVars
  <2>2. \A t \in Tasks : ~Carries(th, t)
    BY <2>1 DEF GoroutinesClean, Carries
  <2>3. QED
    BY <2>1, <2>2, TasksMove
<1>18. ASSUME NEW th \in Threads, NEW id \in batch[th], BeginFailOpen(th, id) PROVE TasksKept(S)'
  BY <1>18, CleanSteps
<1>19. ASSUME NEW th \in Threads, Succeed(th) PROVE TasksKept(S)'
  <2>1. /\ UNCHANGED <<log, stream, lastDelivered, pel, scheduled, retry, dlq,
                       processed, cur>>
        /\ phase[th] = "run"
        /\ \A u \in Threads \ {th} : UNCHANGED <<phase[u], cur[u], verdict[u]>>
        /\ successes' = [successes EXCEPT ![log[cur[th]].task] = @ + 1]
    BY <1>19 DEF TypeOK, Succeed, redisVars
  <2>2. log[cur[th]].task \in Tasks
    BY <2>1, CurType, EntryType
  <2>3. /\ \A t \in Tasks : successes[t] > 0 => successes'[t] > 0
        /\ successes'[log[cur[th]].task] > 0
    BY <2>1, <2>2 DEF TypeOK
  <2>4. \A t \in Tasks : Carries(th, t) => Safe(t)'
    BY <2>3 DEF Carries, Safe
  <2>5. QED
    BY <2>1, <2>3, <2>4, TasksMove
<1>20. ASSUME NEW th \in Threads, Fail(th) PROVE TasksKept(S)'
  <2>1. /\ UNCHANGED <<log, stream, lastDelivered, pel, scheduled, retry, dlq,
                       processed, successes, cur>>
        /\ \A u \in Threads \ {th} : UNCHANGED <<phase[u], cur[u], verdict[u]>>
        /\ verdict'[th] \in {"retry", "dead"}
    BY <1>20 DEF TypeOK, Fail, redisVars, historyVars
  <2>2. \A t \in Tasks : Carries(th, t) => Carries(th, t)'
    BY <2>1 DEF Carries
  <2>3. QED
    BY <2>1, <2>2, TasksMove
<1>21. ASSUME NEW th \in Threads, XAck(th) PROVE TasksKept(S)'
  <2>1. /\ UNCHANGED <<log, stream, lastDelivered, scheduled, retry, dlq, processed,
                       successes, cur, verdict>>
        /\ phase[th] = "xack"
        /\ pel' = Acked(cur[th])
        /\ \A u \in Threads \ {th} : phase'[u] = phase[u]
    BY <1>21 DEF TypeOK, XAck, historyVars
  <2>2. PICK n : n = cur[th]
    OBVIOUS
  <2>3. n \in Ids /\ n # 0 /\ log[n].task \in Tasks /\ log[n].task \in processed
    BY <2>1, <2>2, CurType, EntryType DEF TypeOK, KeysClean
  <2>4. \A j \in Ids : j # n /\ Deliverable(j) => Deliverable(j)'
    BY <2>1, <2>2, AckedDeliverable
  <2>5. \A u \in Threads, t \in Tasks : Carries(u, t) => Carries(u, t)'
    BY <2>1 DEF Carries
  <2>6. log[n].rc = 0 \/ Safe(log[n].task)'
    <3>1. CASE verdict[th] \in {"retry", "dead"}
      <4>1. Carries(th, log[n].task)'
        BY <2>1, <2>2, <2>3, <3>1 DEF Carries
      <4>2. QED
        BY <4>1 DEF Safe
    <3>2. CASE verdict[th] = "done" /\ successes[log[n].task] > 0
      BY <2>1, <3>2 DEF Safe
    <3>3. QED
      BY <2>1, <2>2, <3>1, <3>2 DEF GoroutinesClean, VerdictsTrue
  <2>7. \A j \in Ids :
            log[j].task \notin Undecodable /\ Deliverable(j) =>
              \/ Deliverable(j)'
              \/ log[j].task \in processed' /\ (log[j].rc = 0 \/ Safe(log[j].task)')
    BY <2>1, <2>3, <2>4, <2>6
  <2>8. QED
    BY <2>1, <2>5, <2>7, TasksFrame
<1>22. ASSUME NEW th \in Threads, XDel(th) PROVE TasksKept(S)'
  <2>1. /\ UNCHANGED <<log, lastDelivered, pel, scheduled, retry, dlq, processed,
                       successes, cur, verdict>>
        /\ phase[th] = "xdel"
        /\ stream' = stream \ {cur[th]}
        /\ \A u \in Threads \ {th} : phase'[u] = phase[u]
        /\ phase'[th] = "final"
    BY <1>22 DEF TypeOK, XDel, historyVars
  <2>2. Delivered(cur[th]) /\ cur[th] \notin Pending
    BY <2>1 DEF StreamInv
  <2>3. \A j \in Ids : Deliverable(j) => Deliverable(j)'
    BY <2>1, <2>2 DEF Deliverable, Delivered, Pending
  <2>4. \A u \in Threads, t \in Tasks : Carries(u, t) => Carries(u, t)'
    BY <2>1 DEF Carries
  <2>5. QED
    BY <2>1, <2>3, <2>4, TasksFrame
<1>23. ASSUME NEW th \in Threads, CountCompleted(th) PROVE TasksKept(S)'
  <2>1. /\ UNCHANGED <<log, stream, lastDelivered, pel, scheduled, retry, dlq,
                       processed, successes>>
        /\ \A u \in Threads \ {th} : UNCHANGED <<phase[u], cur[u], verdict[u]>>
        /\ phase[th] = "final" /\ verdict[th] \in {"skip", "done"}
    BY <1>23 DEF TypeOK, CountCompleted, Release, historyVars
  <2>2. \A t \in Tasks : ~Carries(th, t)
    BY <2>1 DEF Carries
  <2>3. QED
    BY <2>1, <2>2, TasksMove
<1>24. ASSUME NEW th \in Threads, AddRetry(th) PROVE TasksKept(S)'
  <2>1. /\ UNCHANGED <<log, stream, lastDelivered, pel, scheduled, dlq,
                       processed, successes>>
        /\ \A u \in Threads \ {th} : UNCHANGED <<phase[u], cur[u], verdict[u]>>
        /\ retry' = retry \cup {Copy(th)}
    BY <1>24 DEF TypeOK, AddRetry, Release, historyVars
  <2>2. \A t \in Tasks : Carries(th, t) => Safe(t)'
    <3>1. \A t \in Tasks : Carries(th, t) => Copy(th).task = t
      BY DEF Carries, Copy
    <3>2. Copy(th) \in retry' \cup dlq'
      BY <2>1
    <3>3. QED
      BY <3>1, <3>2 DEF Safe
  <2>3. QED
    BY <2>1, <2>2, TasksMove
<1>25. ASSUME NEW th \in Threads, AddDead(th) PROVE TasksKept(S)'
  <2>1. /\ UNCHANGED <<log, stream, lastDelivered, pel, scheduled, retry,
                       processed, successes>>
        /\ \A u \in Threads \ {th} : UNCHANGED <<phase[u], cur[u], verdict[u]>>
        /\ dlq' = dlq \cup {Copy(th)}
    BY <1>25 DEF TypeOK, AddDead, Release, historyVars
  <2>2. \A t \in Tasks : Carries(th, t) => Safe(t)'
    <3>1. \A t \in Tasks : Carries(th, t) => Copy(th).task = t
      BY DEF Carries, Copy
    <3>2. Copy(th) \in retry' \cup dlq'
      BY <2>1
    <3>3. QED
      BY <3>1, <3>2 DEF Safe
  <2>3. QED
    BY <2>1, <2>2, TasksMove
<1>26. ASSUME NEW th \in Threads, PipelineError(th) PROVE TasksKept(S)'
  BY <1>26, CleanSteps
<1>27. CASE UNCHANGED vars
  <2>1. /\ UNCHANGED <<log, stream, lastDelivered, pel, scheduled, retry, dlq,
                       processed, successes>>
        /\ UNCHANGED <<phase, cur, verdict>>
    BY <1>27 DEF vars, redisVars, threadVars, historyVars
  <2>2. \A u \in Threads, t \in Tasks : Carries(u, t) => Carries(u, t)'
    BY <2>1 DEF Carries
  <2>3. QED
    BY <2>1, <2>2, TasksThreads
<1>28. QED
  BY <1>1, <1>2, <1>3, <1>4, <1>5, <1>6, <1>7, <1>8, <1>9, <1>10, <1>11,
     <1>12, <1>13, <1>14, <1>15, <1>16, <1>17, <1>18, <1>19, <1>20, <1>21,
     <1>22, <1>23, <1>24, <1>25, <1>26, <1>27
  DEF Next, Scheduler, Fetch, Process, ThreadStep, Begin, Pipeline

-----------------------------------------------------------------------------
(* The theorem.                                                             *)

(* Every step keeps KeepInv. *)
LEMMA KeepStep ==
    ASSUME Shape, KeepInv, [Next]_vars
    PROVE  KeepInv'
<1>1. TypeOK /\ BudgetInv
  BY DEF Shape, KeepInv
<1>2. BudgetInv' /\ (NoFaultYet' => NoFaultYet)
  BY <1>1, BudgetStep
<1> PICK S \in SUBSET (Tasks \ Undecodable) : S = Tasks \ Undecodable
  OBVIOUS
<1>3. ASSUME NoFaultYet' PROVE GoroutinesClean' /\ KeysClean' /\ TasksKept(S)'
  <2>1. GoroutinesClean /\ KeysClean /\ TasksKept(S)
    BY <1>2, <1>3 DEF KeepInv
  <2>2. GoroutinesClean'
    BY <1>1, <1>3, <2>1, GoroutinesStep
  <2>3. KeysClean'
    BY <1>1, <1>3, <2>1, KeysStep
  <2>4. TasksKept(S)'
    BY <1>1, <1>3, <2>1, TasksStep
  <2>5. QED
    BY <2>2, <2>3, <2>4
<1>4. QED
  BY <1>2, <1>3 DEF KeepInv

(* It holds at first: nothing is published, nothing begun. *)
LEMMA KeepInit == Init => KeepInv
<1> SUFFICES ASSUME Init PROVE KeepInv
  OBVIOUS
<1>1. BudgetInv
  BY ConstantsAssumption DEF Init, BudgetInv
<1>2. Ids = {}
  BY DEF Init, Ids
<1>3. GoroutinesClean
  BY DEF Init, GoroutinesClean, VerdictsTrue, Threads
<1>4. KeysClean
  BY <1>2 DEF Init, KeysClean, SpoiltInvalid
<1>5. TasksKept(Tasks \ Undecodable)
  BY <1>2 DEF Init, TasksKept, Published
<1>6. QED
  BY <1>1, <1>3, <1>4, <1>5 DEF KeepInv

(* Every task that is safe or fresh is kept. *)
LEMMA KeepImplies ==
    ASSUME KeepInv
    PROVE  NoLossWithoutFaults
<1> SUFFICES ASSUME NoFaultYet, NEW t \in Tasks \ Undecodable, Published(t)
             PROVE  Kept(t)
  BY DEF NoLossWithoutFaults
<1>1. Safe(t) \/ Fresh(t)
  BY DEF KeepInv, TasksKept
<1>2. QED
  BY <1>1 DEF Safe, Fresh, Kept, HasCopy

(* As long as nothing failed, every task that was enqueued has succeeded or *)
(* still exists: with any number of workers that claim from each other, of  *)
(* producers that enqueue a task again, and of slow handlers.               *)
THEOREM NothingLostWithoutFaults == Spec => []NoLossWithoutFaults
<1>1. Init => Shape /\ KeepInv
  <2>1. Init => AttemptInv
    BY DEF Init, AttemptInv, AttemptsBounded, VerdictsBounded, Ids
  <2>2. QED
    BY <2>1, TypeInit, StreamInit, KeepInit DEF Shape
<1>2. Shape /\ KeepInv /\ [Next]_vars => (Shape /\ KeepInv)'
  <2>1. ASSUME Shape, KeepInv, [Next]_vars PROVE Shape' /\ KeepInv'
    BY <2>1, TypeStep, StreamStep, AttemptStep, KeepStep DEF Shape
  <2>2. QED
    BY <2>1
<1>3. KeepInv => NoLossWithoutFaults
  BY KeepImplies
<1>4. QED
  BY <1>1, <1>2, <1>3, PTL DEF Spec

-----------------------------------------------------------------------------
(* What holds whatever fails.  A task that is on a retry is answered for by *)
(* what is in Redis, or by a pipeline that Redis is about to finish: never  *)
(* by a handler, which may die.                                             *)

Stores(u, t) ==
    /\ phase[u] \in {"xdel", "final"}
    /\ verdict[u] \in {"retry", "dead"}
    /\ log[cur[u]].task = t

Anchored(t) ==
    \/ successes[t] > 0
    \/ \E c \in retry \cup dlq : c.task = t
    \/ \E u \in Threads : Stores(u, t)
    \/ \E id \in Ids : log[id].task = t /\ log[id].rc > 0 /\ Deliverable(id)

Survives(t) == Retried(t) => Anchored(t)

Reachable(id) ==
    id \in stream /\ log[id].ok /\ Delivered(id) /\ id \notin Pending =>
        \E u \in Threads : phase[u] = "xdel" /\ cur[u] = id

(* A step appends one entry at most, one that is invalid only if cjson      *)
(* spoils its task, and of a retry only if it moves a copy of it.           *)
LEMMA LogStep ==
    ASSUME TypeOK, [Next]_vars
    PROVE  \/ UNCHANGED log
           \/ \E t \in Tasks, rc \in Nat, ok \in BOOLEAN :
                 /\ XAdd(t, rc, ok)
                 /\ ~ok => t \in Undecodable
                 /\ UNCHANGED <<lastDelivered, pel, dlq, processed, completed,
                                status, threadVars, historyVars>>
                 /\ \/ rc = 0 /\ UNCHANGED retry
                    \/ \E c \in retry : c.task = t /\ c.rc = rc /\ retry' = retry \ {c}
<1> DEFINE Goal ==
           \/ UNCHANGED log
           \/ \E t \in Tasks, rc \in Nat, ok \in BOOLEAN :
                 /\ XAdd(t, rc, ok)
                 /\ ~ok => t \in Undecodable
                 /\ UNCHANGED <<lastDelivered, pel, dlq, processed, completed,
                                status, threadVars, historyVars>>
                 /\ \/ rc = 0 /\ UNCHANGED retry
                    \/ \E c \in retry : c.task = t /\ c.rc = rc /\ retry' = retry \ {c}
<1>1. ASSUME NEW t \in Tasks, Enqueue(t) PROVE Goal
  BY <1>1 DEF Enqueue
<1>2. ASSUME NEW t \in Tasks, EnqueueScheduled(t) PROVE Goal
  <2>1. (t \notin Undecodable) \in BOOLEAN
    OBVIOUS
  <2>2. QED
    BY <1>2, <2>1 DEF EnqueueScheduled
<1>3. ASSUME NEW c \in retry, EnqueueRetry(c) PROVE Goal
  <2>1. c.task \in Tasks /\ c.rc \in Nat /\ (c.task \notin Undecodable) \in BOOLEAN
    BY DEF TypeOK, RetryCopy
  <2>2. QED
    BY <1>3, <2>1 DEF EnqueueRetry
<1>4. ASSUME NEW t \in Tasks, ExpireProcessed(t) PROVE Goal
  BY <1>4 DEF ExpireProcessed
<1>5. ASSUME NEW w \in Workers, Fetch(w) PROVE Goal
  BY <1>5 DEF Fetch, Consume, RecoverOwnPending, ClaimStale, redisVars
<1>6. ASSUME NEW w \in Workers, Process(w) PROVE Goal
  BY <1>6, ProcessFrame DEF redisVars
<1>7. ASSUME NEW th \in Threads, Begin(th) PROVE Goal
  BY <1>7 DEF Begin, DropInvalid, BeginRetry, BeginFirst, SkipProcessed, BeginFailOpen,
              redisVars
<1>8. ASSUME NEW th \in Threads, Succeed(th) \/ Fail(th) \/ Pipeline(th) PROVE Goal
  BY <1>8 DEF Succeed, Fail, Pipeline, XAck, XDel, CountCompleted, AddRetry, AddDead,
              PipelineError, redisVars
<1>9. CASE UNCHANGED vars
  BY <1>9 DEF vars, redisVars
<1>10. QED
  BY <1>1, <1>2, <1>3, <1>4, <1>5, <1>6, <1>7, <1>8, <1>9
  DEF Next, Scheduler, ThreadStep

(* Entries are never changed. *)
LEMMA EntriesStay ==
    ASSUME TypeOK, [Next]_vars
    PROVE  Ids \subseteq Ids' /\ \A id \in Ids : log'[id] = log[id]
<1>1. CASE UNCHANGED log
  BY <1>1 DEF Ids
<1>2. ASSUME NEW t \in Tasks, NEW rc \in Nat, NEW ok \in BOOLEAN, XAdd(t, rc, ok)
      PROVE  Ids \subseteq Ids' /\ \A id \in Ids : log'[id] = log[id]
  BY <1>2, XAddType DEF TypeOK
<1>3. QED
  BY <1>1, <1>2, LogStep

(* Invalid entries stay those of tasks that cjson spoils. *)
LEMMA SpoiltStep ==
    ASSUME TypeOK, SpoiltInvalid, [Next]_vars
    PROVE  SpoiltInvalid'
<1>1. CASE UNCHANGED log
  BY <1>1 DEF SpoiltInvalid, Ids
<1>2. ASSUME NEW t \in Tasks, NEW rc \in Nat, NEW ok \in BOOLEAN, XAdd(t, rc, ok),
             ~ok => t \in Undecodable
      PROVE  SpoiltInvalid'
  <2>1. /\ Ids' = Ids \cup {Len(log) + 1}
        /\ \A id \in Ids : log'[id] = log[id]
        /\ log'[Len(log) + 1] = [task |-> t, rc |-> rc, ok |-> ok]
    BY <1>2, XAddType DEF TypeOK
  <2>2. QED
    BY <1>2, <2>1 DEF SpoiltInvalid
<1>3. QED
  BY <1>1, <1>2, LogStep

(* A goroutine that goes on as it was, or leaves its pipeline, and others   *)
(* that do so too, keep the verdicts true.                                  *)
LEMMA VerdictsFrame ==
    ASSUME TypeOK, VerdictsTrue,
           \A id \in Ids : log'[id] = log[id],
           \A t \in Tasks : successes[t] > 0 => successes'[t] > 0,
           \A u \in Threads :
               \/ phase'[u] \notin {"xack", "xdel", "final"}
               \/ /\ phase[u] \in {"xack", "xdel", "final"}
                  /\ UNCHANGED <<cur[u], verdict[u]>>
               \/ verdict'[u] \in {"retry", "dead"}
               \/ verdict'[u] = "skip" /\ log'[cur'[u]].rc = 0
               \/ verdict'[u] = "done" /\ successes'[log'[cur'[u]].task] > 0
    PROVE  VerdictsTrue'
<1>1. \A u \in Threads : phase[u] \in {"xack", "xdel", "final"}
                           => cur[u] \in Ids /\ log[cur[u]].task \in Tasks
  BY CurType, EntryType
<1>2. QED
  BY <1>1 DEF VerdictsTrue

(* Every step keeps the verdicts true. *)
LEMMA VerdictsStep ==
    ASSUME TypeOK, VerdictsTrue, [Next]_vars
    PROVE  VerdictsTrue'
<1>1. \A id \in Ids : log'[id] = log[id]
  BY EntriesStay
<1>2. ASSUME UNCHANGED <<phase, cur, verdict, successes>> PROVE VerdictsTrue'
  BY <1>1, <1>2, VerdictsFrame
<1>3. ASSUME UNCHANGED successes, ThreadFrame PROVE VerdictsTrue'
  BY <1>1, <1>3, VerdictsFrame DEF ThreadFrame
<1>4. ASSUME NEW t \in Tasks, Enqueue(t) \/ ExpireProcessed(t) \/ EnqueueScheduled(t)
      PROVE  VerdictsTrue'
  BY <1>2, <1>4
  DEF Enqueue, ExpireProcessed, EnqueueScheduled, threadVars, historyVars
<1>5. ASSUME NEW c \in retry, EnqueueRetry(c) PROVE VerdictsTrue'
  BY <1>2, <1>5 DEF EnqueueRetry, threadVars, historyVars
<1>6. ASSUME NEW w \in Workers, Fetch(w) PROVE VerdictsTrue'
  <2>1. UNCHANGED <<cur, verdict, successes>>
    BY <1>6 DEF Fetch, Consume, RecoverOwnPending, ClaimStale, historyVars
  <2>2. \A u \in Threads : phase'[u] \in {phase[u], "down"}
    BY <1>6 DEF TypeOK, Fetch, Consume, RecoverOwnPending, ClaimStale, Deliver
  <2>3. QED
    BY <1>1, <2>1, <2>2, VerdictsFrame
<1>7. ASSUME NEW w \in Workers, Process(w) PROVE VerdictsTrue'
  <2>1. UNCHANGED successes
    BY <1>7 DEF Process, Start, Shutdown, MainStops, SubscribeFails, Crash, Exit,
                Terminate, historyVars
  <2>2. QED
    BY <1>3, <1>7, <2>1, ProcessFrame
<1>8. ASSUME NEW th \in Threads, NEW id \in batch[th], DropInvalid(th, id)
      PROVE  VerdictsTrue'
  <2>1. UNCHANGED <<cur, verdict, successes>>
    BY <1>8 DEF DropInvalid, historyVars
  <2>2. \A u \in Threads : phase'[u] \in {phase[u], "down", "ready"}
    BY <1>8 DEF TypeOK, DropInvalid, AfterMessage
  <2>3. QED
    BY <1>1, <2>1, <2>2, VerdictsFrame
<1>9. ASSUME NEW th \in Threads, NEW id \in batch[th],
             BeginRetry(th, id) \/ BeginFirst(th, id) \/ BeginFailOpen(th, id)
      PROVE  VerdictsTrue'
  <2>1. /\ UNCHANGED successes
        /\ phase' = [phase EXCEPT ![th] = "run"]
        /\ cur' = [cur EXCEPT ![th] = id]
        /\ verdict' = [verdict EXCEPT ![th] = "none"]
    BY <1>9 DEF BeginRetry, BeginFirst, BeginFailOpen, Take, historyVars
  <2>2. QED
    BY <1>1, <2>1, VerdictsFrame DEF TypeOK
<1>10. ASSUME NEW th \in Threads, NEW id \in batch[th], SkipProcessed(th, id)
       PROVE  VerdictsTrue'
  <2>1. /\ UNCHANGED <<successes, log>>
        /\ phase' = [phase EXCEPT ![th] = "xack"]
        /\ cur' = [cur EXCEPT ![th] = id]
        /\ verdict' = [verdict EXCEPT ![th] = "skip"]
        /\ log[id].rc = 0
    BY <1>10 DEF SkipProcessed, FirstAttempt, Take, redisVars, historyVars
  <2>2. QED
    BY <1>1, <2>1, VerdictsFrame DEF TypeOK
<1>11. ASSUME NEW th \in Threads, Succeed(th) PROVE VerdictsTrue'
  <2>1. /\ UNCHANGED <<log, cur>>
        /\ phase' = [phase EXCEPT ![th] = "xack"]
        /\ verdict' = [verdict EXCEPT ![th] = "done"]
        /\ successes' = [successes EXCEPT ![log[cur[th]].task] = @ + 1]
        /\ phase[th] = "run"
    BY <1>11 DEF Succeed, redisVars
  <2>2. log[cur[th]].task \in Tasks
    BY <2>1, CurType, EntryType
  <2>3. /\ \A t \in Tasks : successes[t] > 0 => successes'[t] > 0
        /\ successes'[log[cur[th]].task] > 0
    BY <2>1, <2>2 DEF TypeOK
  <2>4. QED
    BY <1>1, <2>1, <2>3, VerdictsFrame DEF TypeOK
<1>12. ASSUME NEW th \in Threads, Fail(th) PROVE VerdictsTrue'
  <2>1. /\ UNCHANGED <<successes, cur>>
        /\ phase' = [phase EXCEPT ![th] = "xack"]
        /\ verdict' \in {[verdict EXCEPT ![th] = "retry"], [verdict EXCEPT ![th] = "dead"]}
    BY <1>12 DEF Fail, historyVars
  <2>2. QED
    BY <1>1, <2>1, VerdictsFrame DEF TypeOK
<1>13. ASSUME NEW th \in Threads, XAck(th) \/ XDel(th) PROVE VerdictsTrue'
  <2>1. /\ UNCHANGED <<successes, cur, verdict>>
        /\ phase[th] \in {"xack", "xdel"}
        /\ phase' \in {[phase EXCEPT ![th] = "xdel"], [phase EXCEPT ![th] = "final"]}
    BY <1>13 DEF XAck, XDel, historyVars
  <2>2. QED
    BY <1>1, <2>1, VerdictsFrame DEF TypeOK
<1>14. ASSUME NEW th \in Threads,
              CountCompleted(th) \/ AddRetry(th) \/ AddDead(th) \/ PipelineError(th)
       PROVE  VerdictsTrue'
  <2>1. UNCHANGED successes /\ Release(th)
    BY <1>14 DEF CountCompleted, AddRetry, AddDead, PipelineError, historyVars
  <2>2. QED
    BY <1>3, <2>1, ReleaseFrame
<1>15. CASE UNCHANGED vars
  BY <1>2, <1>15 DEF vars, threadVars, historyVars
<1>16. QED
  BY <1>4, <1>5, <1>6, <1>7, <1>8, <1>9, <1>10, <1>11, <1>12, <1>13, <1>14, <1>15
  DEF Next, Scheduler, ThreadStep, Begin, Pipeline

(* No goroutine works in a process that is not running. *)
LEMMA OffStep ==
    ASSUME TypeOK, OffIsDown, [Next]_vars
    PROVE  OffIsDown'
<1>1. ASSUME UNCHANGED <<status, phase>> PROVE OffIsDown'
  BY <1>1 DEF OffIsDown
<1>2. ASSUME UNCHANGED status, NEW th \in Threads, phase[th] # "down",
             \A u \in Threads \ {th} : phase'[u] = phase[u]
      PROVE  OffIsDown'
  BY <1>2 DEF OffIsDown
<1>3. ASSUME NEW t \in Tasks, Enqueue(t) \/ ExpireProcessed(t) \/ EnqueueScheduled(t)
      PROVE  OffIsDown'
  BY <1>1, <1>3 DEF Enqueue, ExpireProcessed, EnqueueScheduled, threadVars
<1>4. ASSUME NEW c \in retry, EnqueueRetry(c) PROVE OffIsDown'
  BY <1>1, <1>4 DEF EnqueueRetry, threadVars
<1>5. ASSUME NEW w \in Workers, Fetch(w) PROVE OffIsDown'
  <2>1. status'[w] # "off" /\ \A v \in Workers \ {w} : status'[v] = status[v]
    BY <1>5 DEF TypeOK, Fetch, Consume, RecoverOwnPending, ClaimStale, ClaimerTicks
  <2>2. \A u \in Threads : phase'[u] \in {phase[u], "down"}
    BY <1>5 DEF TypeOK, Fetch, Consume, RecoverOwnPending, ClaimStale, Deliver
  <2>3. \A u \in Threads : u[1] \in Workers
    BY DEF Threads
  <2>4. QED
    BY <2>1, <2>2, <2>3 DEF OffIsDown
<1>6. ASSUME NEW w \in Workers, Process(w) PROVE OffIsDown'
  <2>1. \A v \in Workers \ {w} : status'[v] = status[v]
    BY <1>6 DEF TypeOK, Process, Start, Shutdown, MainStops, SubscribeFails, Crash,
                Exit, Terminate
  <2>2. \A u \in Threads : u[1] # w => phase'[u] = phase[u]
    BY <1>6 DEF TypeOK, Process, Start, Shutdown, MainStops, SubscribeFails, Crash,
                Exit, Terminate, Main, Threads
  <2>3. \A u \in Threads : u[1] = w => status'[w] # "off" \/ phase'[u] = "down"
    BY <1>6 DEF TypeOK, Process, Start, Shutdown, MainStops, SubscribeFails, Crash,
                Exit, Terminate
  <2>4. \A u \in Threads : u[1] \in Workers
    BY DEF Threads
  <2>5. QED
    BY <2>1, <2>2, <2>3, <2>4 DEF OffIsDown
<1>7. ASSUME NEW th \in Threads, Begin(th) PROVE OffIsDown'
  BY <1>2, <1>7
  DEF TypeOK, Begin, DropInvalid, BeginRetry, BeginFirst, SkipProcessed,
      BeginFailOpen, Take
<1>8. ASSUME NEW th \in Threads, Succeed(th) \/ Fail(th) \/ Pipeline(th)
      PROVE  OffIsDown'
  BY <1>2, <1>8
  DEF TypeOK, Succeed, Fail, Pipeline, XAck, XDel, CountCompleted, AddRetry, AddDead,
      PipelineError, Release
<1>9. CASE UNCHANGED vars
  BY <1>1, <1>9 DEF vars, threadVars
<1>10. QED
  BY <1>3, <1>4, <1>5, <1>6, <1>7, <1>8, <1>9
  DEF Next, Scheduler, ThreadStep

(* A task stays anchored while nothing that anchors it is taken away, or    *)
(* something else takes its place.                                          *)
LEMMA AnchoredFrame ==
    ASSUME NEW t \in Tasks, Anchored(t), Ids \subseteq Ids',
           \A id \in Ids : log'[id] = log[id],
           successes[t] > 0 => successes'[t] > 0,
           \A c \in retry \cup dlq : c.task = t => c \in retry' \cup dlq' \/ Anchored(t)',
           \A u \in Threads : Stores(u, t) => Stores(u, t)' \/ Anchored(t)',
           \A id \in Ids : log[id].task = t /\ log[id].rc > 0 /\ Deliverable(id)
                             => Deliverable(id)' \/ Anchored(t)'
    PROVE  Anchored(t)'
<1>1. CASE successes[t] > 0
  BY <1>1 DEF Anchored
<1>2. CASE \E c \in retry \cup dlq : c.task = t
  BY <1>2 DEF Anchored
<1>3. CASE \E u \in Threads : Stores(u, t)
  BY <1>3 DEF Anchored
<1>4. CASE \E id \in Ids : log[id].task = t /\ log[id].rc > 0 /\ Deliverable(id)
  <2>1. PICK id \in Ids : log[id].task = t /\ log[id].rc > 0 /\ Deliverable(id)
    BY <1>4
  <2>2. id \in Ids' /\ log'[id].task = t /\ log'[id].rc > 0
    BY <2>1
  <2>3. QED
    BY <2>1, <2>2 DEF Anchored
<1>5. QED
  BY <1>1, <1>2, <1>3, <1>4 DEF Anchored

(* A step that stores no copy leaves a task that is on a retry anchored, if *)
(* its entries stay deliverable and the pipelines that store it go on.      *)
LEMMA SurvivesFrame ==
    ASSUME NEW t \in Tasks, Survives(t), UNCHANGED <<log, retry, dlq>>,
           successes[t] > 0 => successes'[t] > 0,
           \A u \in Threads : Stores(u, t) => Stores(u, t)',
           \A id \in Ids : log[id].task = t /\ Deliverable(id) => Deliverable(id)'
    PROVE  Survives(t)'
<1>1. Retried(t)' => Retried(t)
  BY DEF Retried, Ids
<1>2. ASSUME Anchored(t) PROVE Anchored(t)'
  <2>1. Ids' = Ids
    BY DEF Ids
  <2>2. QED
    BY <1>2, <2>1, AnchoredFrame
<1>3. QED
  BY <1>1, <1>2 DEF Survives

(* An entry that is added anchors its task, if it is one of a retry; others *)
(* lose nothing to it.                                                      *)
LEMMA SurvivesXAdd ==
    ASSUME TypeOK, NEW x \in Tasks, Survives(x),
           NEW t \in Tasks, NEW rc \in Nat, NEW ok \in BOOLEAN, XAdd(t, rc, ok),
           UNCHANGED <<lastDelivered, pel, dlq, threadVars, historyVars>>,
           \/ rc = 0 /\ UNCHANGED retry
           \/ rc > 0 /\ \E c \in retry : c.task = t /\ retry' = retry \ {c}
    PROVE  Survives(x)'
<1>1. PICK n : n = Len(log) + 1
  OBVIOUS
<1>2. /\ Ids' = Ids \cup {n}
      /\ \A id \in Ids : log'[id] = log[id]
      /\ log'[n] = [task |-> t, rc |-> rc, ok |-> ok]
      /\ stream' = stream \cup {n}
  BY <1>1, XAddType DEF TypeOK, XAdd
<1>3. n \in Ids' /\ log'[n].task = t /\ log'[n].rc = rc /\ Deliverable(n)'
  BY <1>1, <1>2, NumberTypes DEF TypeOK, Deliverable, Delivered
<1>4. CASE x = t /\ rc > 0
  <2>1. Anchored(x)'
    BY <1>3, <1>4 DEF Anchored
  <2>2. QED
    BY <2>1 DEF Survives
<1>5. CASE x # t \/ rc = 0
  <2>1. Retried(x)' => Retried(x)
    BY <1>2, <1>5 DEF Retried
  <2>2. ASSUME Anchored(x) PROVE Anchored(x)'
    <3>1. \A id \in Ids : Deliverable(id) => Deliverable(id)'
      BY <1>2 DEF Deliverable, Delivered, Pending
    <3>2. \A u \in Threads : Stores(u, x) => Stores(u, x)'
      <4>1. \A u \in Threads : Stores(u, x) => cur[u] \in Ids
        BY CurType DEF Stores
      <4>2. QED
        BY <1>2, <4>1 DEF Stores, threadVars
    <3>3. \A c \in retry \cup dlq : c.task = x => c \in retry' \cup dlq'
      BY <1>5
    <3>4. successes[x] > 0 => successes'[x] > 0 /\ Ids \subseteq Ids'
      BY <1>2 DEF historyVars
    <3>5. QED
      BY <1>2, <2>2, <3>1, <3>2, <3>3, <3>4, AnchoredFrame DEF historyVars
  <2>3. QED
    BY <2>1, <2>2 DEF Survives
<1>6. QED
  BY <1>4, <1>5

(* Fetching takes nothing off the stream or off all the pending lists.      *)
LEMMA FetchDeliverable ==
    ASSUME TypeOK, NEW w \in Workers, Fetch(w)
    PROVE  /\ UNCHANGED <<log, stream>>
           /\ lastDelivered \in Nat /\ lastDelivered' \in Nat /\ Ids \subseteq Nat
           /\ Pending \subseteq Pending'
           /\ \A id \in stream : Delivered(id)' => Delivered(id) \/ id \in Pending'
<1> Ids \subseteq Nat /\ lastDelivered \in Nat /\ Pending \subseteq Ids
  BY NumberTypes
<1>1. CASE Consume(w)
  <2>1. /\ UNCHANGED <<log, stream>>
        /\ lastDelivered' \in Ids
        /\ Pending' = Pending \cup {id \in Undelivered : id <= lastDelivered'}
    BY <1>1, ConsumeDelivers
  <2>2. \A id \in stream : id \in Nat
    BY DEF TypeOK
  <2>3. QED
    BY <2>1, <2>2 DEF Delivered, Undelivered
<1>2. CASE RecoverOwnPending(w)
  BY <1>2 DEF RecoverOwnPending, redisVars, Pending, Delivered
<1>3. CASE ClaimStale(w)
  <2> DEFINE got == FirstOf({id \in Pending : Stale(id)})
  <2>1. /\ got \subseteq Pending
        /\ pel' = [v \in Workers |-> IF v = w THEN pel[v] \cup got ELSE pel[v] \ got]
        /\ UNCHANGED <<log, stream, lastDelivered>>
    BY <1>3, FirstOfSubset DEF ClaimStale
  <2>2. Pending \subseteq Pending'
    BY <2>1 DEF Pending
  <2>3. QED
    BY <2>1, <2>2 DEF Delivered
<1>4. QED
  BY <1>1, <1>2, <1>3 DEF Fetch

(* Processes that start, stop, fail or end leave Redis alone, and no        *)
(* pipeline that Redis has begun is cut short.                              *)
LEMMA ProcessLeavesPipelines ==
    ASSUME TypeOK, OffIsDown, ~SplitPipelines, NEW w \in Workers, Process(w)
    PROVE  /\ UNCHANGED redisVars
           /\ UNCHANGED successes
           /\ \A u \in Threads : \/ UNCHANGED <<phase[u], cur[u], verdict[u]>>
                                 \/ phase[u] \notin {"xdel", "final"}
<1>1. UNCHANGED redisVars /\ UNCHANGED successes
  BY ProcessFrame
  DEF Process, Start, Shutdown, MainStops, SubscribeFails, Crash, Exit, Terminate,
      historyVars
<1>2. ASSUME Start(w) \/ Shutdown(w) \/ MainStops(w) \/ SubscribeFails(w),
             NEW u \in Threads
      PROVE  \/ UNCHANGED <<phase[u], cur[u], verdict[u]>>
             \/ phase[u] \notin {"xdel", "final"}
  <2>1. UNCHANGED <<cur, verdict>>
    BY <1>2 DEF Start, Shutdown, MainStops, SubscribeFails
  <2>2. CASE Start(w)
    BY <1>2, <2>1, <2>2 DEF Start, OffIsDown
  <2>3. QED
    BY <1>2, <2>1, <2>2 DEF TypeOK, Shutdown, MainStops, SubscribeFails, Idle
<1>3. ASSUME Terminate(w), NEW u \in Threads
      PROVE  \/ UNCHANGED <<phase[u], cur[u], verdict[u]>>
             \/ phase[u] \notin {"xdel", "final"}
  BY <1>3 DEF Terminate
<1>4. QED
  BY <1>1, <1>2, <1>3 DEF Process, Crash, Exit

(* Once a task is on a retry, no step leaves it without an anchor.          *)
LEMMA SurvivesStep ==
    ASSUME Shape, VerdictsTrue, SpoiltInvalid, OffIsDown, ~SplitPipelines,
           NEW t \in Tasks \ Undecodable, Survives(t), [Next]_vars
    PROVE  Survives(t)'
<1> TypeOK /\ StreamInv /\ AttemptInv
  BY DEF Shape
<1>1. ASSUME NEW x \in Tasks, Enqueue(x) PROVE Survives(t)'
  <2>1. UNCHANGED <<lastDelivered, pel, retry, dlq, threadVars, historyVars>>
    BY <1>1 DEF Enqueue
  <2>2. CASE XAdd(x, 0, TRUE)
    <3>1. PICK rc \in Nat, ok \in BOOLEAN : rc = 0 /\ XAdd(x, rc, ok)
      BY <2>2
    <3>2. QED
      BY <2>1, <3>1, SurvivesXAdd
  <2>3. CASE UNCHANGED <<log, stream>>
    BY <2>1, <2>3, SurvivesFrame
    DEF Stores, Deliverable, Delivered, Pending, threadVars, historyVars
  <2>4. QED
    BY <1>1, <2>2, <2>3 DEF Enqueue
<1>2. ASSUME NEW x \in Tasks, EnqueueScheduled(x) PROVE Survives(t)'
  <2>1. UNCHANGED <<lastDelivered, pel, retry, dlq, threadVars, historyVars>>
    BY <1>2 DEF EnqueueScheduled
  <2>2. PICK rc \in Nat, ok \in BOOLEAN : rc = 0 /\ XAdd(x, rc, ok)
    BY <1>2 DEF EnqueueScheduled
  <2>3. QED
    BY <2>1, <2>2, SurvivesXAdd
<1>3. ASSUME NEW c \in retry, EnqueueRetry(c) PROVE Survives(t)'
  <2>1. /\ UNCHANGED <<lastDelivered, pel, dlq, threadVars, historyVars>>
        /\ retry' = retry \ {c}
    BY <1>3 DEF EnqueueRetry
  <2>2. c.task \in Tasks /\ c.rc \in Nat /\ c.rc > 0
    BY ConstantsAssumption DEF TypeOK, RetryCopy, AttemptInv, AttemptsBounded
  <2>3. PICK ok \in BOOLEAN : XAdd(c.task, c.rc, ok)
    BY <1>3 DEF EnqueueRetry
  <2>4. QED
    BY <2>1, <2>2, <2>3, SurvivesXAdd
<1>4. ASSUME NEW x \in Tasks, ExpireProcessed(x) PROVE Survives(t)'
  BY <1>4, SurvivesFrame
  DEF ExpireProcessed, Stores, Deliverable, Delivered, Pending, threadVars
<1>5. ASSUME NEW w \in Workers, Fetch(w) PROVE Survives(t)'
  <2>1. UNCHANGED <<log, retry, dlq, cur, verdict, successes>>
    BY <1>5 DEF Fetch, Consume, RecoverOwnPending, ClaimStale, redisVars, historyVars
  <2>2. \A id \in Ids : Deliverable(id) => Deliverable(id)'
    BY <1>5, FetchDeliverable DEF Deliverable
  <2>3. \A u \in Threads : phase'[u] = phase[u] \/ phase[u] = "ready"
    BY <1>5 DEF TypeOK, Fetch, Consume, RecoverOwnPending, ClaimStale, Deliver, Idle
  <2>4. QED
    BY <2>1, <2>2, <2>3, SurvivesFrame DEF Stores
<1>6. ASSUME NEW w \in Workers, Process(w) PROVE Survives(t)'
  BY <1>6, ProcessLeavesPipelines, SurvivesFrame
  DEF Stores, Deliverable, Delivered, Pending, redisVars
<1>7. ASSUME NEW th \in Threads, NEW id \in batch[th], DropInvalid(th, id)
      PROVE  Survives(t)'
  <2>1. /\ UNCHANGED <<log, stream, lastDelivered, retry, dlq, cur, verdict, successes>>
        /\ phase[th] = "ready"
        /\ \A u \in Threads \ {th} : phase'[u] = phase[u]
        /\ ~log[id].ok
    BY <1>7 DEF TypeOK, DropInvalid, historyVars
  <2>2. log[id].task \in Undecodable
    BY <2>1, NumberTypes DEF SpoiltInvalid
  <2>3. \A j \in Ids : j # id /\ Deliverable(j) => Deliverable(j)'
    <3>1. CASE pel' = Acked(id)
      BY <2>1, <3>1, AckedDeliverable
    <3>2. CASE pel' = pel
      BY <2>1, <3>2 DEF Deliverable, Delivered, Pending
    <3>3. QED
      BY <1>7, <3>1, <3>2 DEF DropInvalid
  <2>4. QED
    BY <2>1, <2>2, <2>3, SurvivesFrame DEF Stores
<1>8. ASSUME NEW th \in Threads, NEW id \in batch[th],
             \/ BeginRetry(th, id) \/ BeginFirst(th, id)
             \/ SkipProcessed(th, id) \/ BeginFailOpen(th, id)
      PROVE  Survives(t)'
  <2>1. /\ UNCHANGED <<log, stream, lastDelivered, pel, retry, dlq, successes>>
        /\ phase[th] = "ready"
        /\ \A u \in Threads \ {th} : UNCHANGED <<phase[u], cur[u], verdict[u]>>
    BY <1>8
    DEF TypeOK, BeginRetry, BeginFirst, SkipProcessed, BeginFailOpen, Take,
        redisVars, historyVars
  <2>2. QED
    BY <2>1, SurvivesFrame DEF Stores, Deliverable, Delivered, Pending
<1>9. ASSUME NEW th \in Threads, Succeed(th) \/ Fail(th) \/ PipelineError(th)
      PROVE  Survives(t)'
  <2>1. UNCHANGED redisVars
    BY <1>9 DEF Succeed, Fail, PipelineError
  <2>2. /\ phase[th] \in {"run", "xack"}
        /\ \A u \in Threads \ {th} : UNCHANGED <<phase[u], cur[u], verdict[u]>>
    BY <1>9 DEF TypeOK, Succeed, Fail, PipelineError, Release
  <2>3. successes[t] > 0 => successes'[t] > 0
    <3>1. phase[th] = "run" => log[cur[th]].task \in Tasks
      BY CurType, EntryType
    <3>2. QED
      BY <1>9, <3>1 DEF TypeOK, Succeed, Fail, PipelineError, historyVars
  <2>4. QED
    BY <2>1, <2>2, <2>3, SurvivesFrame
    DEF Stores, Deliverable, Delivered, Pending, redisVars
<1>10. ASSUME NEW th \in Threads, XAck(th) PROVE Survives(t)'
  <2>1. /\ UNCHANGED <<log, stream, lastDelivered, retry, dlq, cur, verdict, successes>>
        /\ phase[th] = "xack" /\ phase'[th] = "xdel"
        /\ pel' = Acked(cur[th])
        /\ \A u \in Threads \ {th} : phase'[u] = phase[u]
    BY <1>10 DEF TypeOK, XAck, historyVars
  <2>2. \A j \in Ids : j # cur[th] /\ Deliverable(j) => Deliverable(j)'
    BY <2>1, AckedDeliverable
  <2>3. ASSUME log[cur[th]].task = t, log[cur[th]].rc > 0 PROVE Anchored(t)'
    <3>1. CASE verdict[th] \in {"retry", "dead"}
      <4>1. Stores(th, t)'
        BY <2>1, <2>3, <3>1 DEF Stores
      <4>2. QED
        BY <4>1 DEF Anchored
    <3>2. CASE verdict[th] = "done" /\ successes[log[cur[th]].task] > 0
      BY <2>1, <2>3, <3>2 DEF Anchored
    <3>3. QED
      BY <2>1, <2>3, <3>1, <3>2 DEF VerdictsTrue
  <2>4. \A u \in Threads : Stores(u, t) => Stores(u, t)'
    BY <2>1 DEF Stores
  <2>5. Anchored(t) => Anchored(t)'
    <3>1. Ids' = Ids
      BY <2>1 DEF Ids
    <3>2. QED
      BY <2>1, <2>2, <2>3, <2>4, <3>1, AnchoredFrame
  <2>6. Retried(t)' => Retried(t)
    BY <2>1 DEF Retried, Ids
  <2>7. QED
    BY <2>5, <2>6 DEF Survives
<1>11. ASSUME NEW th \in Threads, XDel(th) PROVE Survives(t)'
  <2>1. /\ UNCHANGED <<log, lastDelivered, pel, retry, dlq, cur, verdict, successes>>
        /\ phase[th] = "xdel" /\ phase'[th] = "final"
        /\ stream' = stream \ {cur[th]}
        /\ \A u \in Threads \ {th} : phase'[u] = phase[u]
    BY <1>11 DEF TypeOK, XDel, historyVars
  <2>2. Delivered(cur[th]) /\ cur[th] \notin Pending
    BY <2>1 DEF StreamInv
  <2>3. \A j \in Ids : Deliverable(j) => Deliverable(j)'
    BY <2>1, <2>2 DEF Deliverable, Delivered, Pending
  <2>4. \A u \in Threads : Stores(u, t) => Stores(u, t)'
    BY <2>1 DEF Stores
  <2>5. QED
    BY <2>1, <2>3, <2>4, SurvivesFrame
<1>12. ASSUME NEW th \in Threads, CountCompleted(th) PROVE Survives(t)'
  <2>1. /\ UNCHANGED <<log, stream, lastDelivered, pel, retry, dlq, successes>>
        /\ \A u \in Threads \ {th} : UNCHANGED <<phase[u], cur[u], verdict[u]>>
        /\ verdict[th] \in {"skip", "done"}
    BY <1>12 DEF TypeOK, CountCompleted, Release, historyVars
  <2>2. QED
    BY <2>1, SurvivesFrame DEF Stores, Deliverable, Delivered, Pending
<1>13. ASSUME NEW th \in Threads, AddRetry(th) \/ AddDead(th) PROVE Survives(t)'
  <2>1. /\ UNCHANGED <<log, stream, lastDelivered, pel, successes>>
        /\ \A u \in Threads \ {th} : UNCHANGED <<phase[u], cur[u], verdict[u]>>
        /\ retry \subseteq retry' /\ dlq \subseteq dlq'
        /\ Copy(th) \in retry' \cup dlq'
        /\ retry' \subseteq retry \cup {Copy(th)}
    BY <1>13 DEF TypeOK, AddRetry, AddDead, Release, historyVars
  <2>2. Copy(th).task = log[cur[th]].task
    BY DEF Copy
  <2>3. CASE Copy(th).task = t
    <3>1. Anchored(t)'
      BY <2>1, <2>3 DEF Anchored
    <3>2. QED
      BY <3>1 DEF Survives
  <2>4. CASE Copy(th).task # t
    <3>1. Retried(t)' => Retried(t)
      BY <2>1, <2>4 DEF Retried, Ids
    <3>2. \A u \in Threads : Stores(u, t) => Stores(u, t)'
      BY <2>1, <2>2, <2>4 DEF Stores
    <3>3. \A j \in Ids : Deliverable(j) => Deliverable(j)'
      BY <2>1 DEF Deliverable, Delivered, Pending
    <3>4. Anchored(t) => Anchored(t)'
      BY <2>1, <3>2, <3>3, AnchoredFrame DEF Ids
    <3>5. QED
      BY <3>1, <3>4 DEF Survives
  <2>5. QED
    BY <2>3, <2>4
<1>14. CASE UNCHANGED vars
  BY <1>14, SurvivesFrame
  DEF Stores, Deliverable, Delivered, Pending, vars, redisVars, threadVars, historyVars
<1>15. QED
  BY <1>1, <1>2, <1>3, <1>4, <1>5, <1>6, <1>7, <1>8, <1>9, <1>10, <1>11, <1>12,
     <1>13, <1>14
  DEF Next, Scheduler, ThreadStep, Begin, Pipeline

(* A message stays reachable by a step that delivers it to a pending list   *)
(* if at all, and takes it off the lists only if it is invalid or about to  *)
(* be deleted.                                                              *)
LEMMA ReachableFrame ==
    ASSUME NEW id, Reachable(id),
           id \in stream' => /\ id \in stream /\ log'[id] = log[id]
                             /\ Delivered(id)' => Delivered(id) \/ id \in Pending',
           id \in Pending => \/ id \in Pending' \/ ~log[id].ok
                             \/ \E u \in Threads : (phase[u] = "xdel" /\ cur[u] = id)',
           \A u \in Threads : phase[u] = "xdel" /\ cur[u] = id =>
               id \notin stream' \/ (phase[u] = "xdel" /\ cur[u] = id)'
    PROVE  Reachable(id)'
BY DEF Reachable

(* Every step keeps a message reachable. *)
LEMMA ReachableStep ==
    ASSUME TypeOK, StreamInv, OffIsDown, ~SplitPipelines, NEW id, Reachable(id),
           [Next]_vars
    PROVE  Reachable(id)'
<1> id \in stream => id \in Ids
  BY DEF TypeOK
<1>1. ASSUME UNCHANGED <<log, stream, lastDelivered, pel>>,
             \A u \in Threads : \/ UNCHANGED <<phase[u], cur[u]>>
                                \/ phase[u] # "xdel"
      PROVE  Reachable(id)'
  BY <1>1, ReachableFrame DEF Delivered, Pending
<1>2. ASSUME NEW t \in Tasks, NEW rc \in Nat, NEW ok \in BOOLEAN, XAdd(t, rc, ok),
             UNCHANGED <<lastDelivered, pel, threadVars>>
      PROVE  Reachable(id)'
  <2>1. /\ \A i \in Ids : log'[i] = log[i]
        /\ stream' = stream \cup {Len(log) + 1}
    BY <1>2, XAddType DEF TypeOK, XAdd
  <2>2. CASE id \in stream
    BY <1>2, <2>1, <2>2, ReachableFrame DEF Delivered, Pending, threadVars
  <2>3. CASE id \notin stream
    <3>1. id \in stream' => ~Delivered(id)'
      BY <1>2, <2>1, <2>3, NumberTypes DEF TypeOK, Delivered
    <3>2. QED
      BY <3>1 DEF Reachable
  <2>4. QED
    BY <2>2, <2>3
<1>3. ASSUME NEW t \in Tasks, Enqueue(t) PROVE Reachable(id)'
  <2>1. UNCHANGED <<lastDelivered, pel, threadVars>>
    BY <1>3 DEF Enqueue
  <2>2. CASE XAdd(t, 0, TRUE)
    BY <1>2, <2>1, <2>2
  <2>3. CASE UNCHANGED <<log, stream>>
    BY <1>1, <2>1, <2>3 DEF threadVars
  <2>4. QED
    BY <1>3, <2>2, <2>3 DEF Enqueue
<1>4. ASSUME NEW t \in Tasks, EnqueueScheduled(t) PROVE Reachable(id)'
  <2>1. UNCHANGED <<lastDelivered, pel, threadVars>> /\ (t \notin Undecodable) \in BOOLEAN
    BY <1>4 DEF EnqueueScheduled
  <2>2. QED
    BY <1>2, <1>4, <2>1 DEF EnqueueScheduled
<1>5. ASSUME NEW c \in retry, EnqueueRetry(c) PROVE Reachable(id)'
  <2>1. UNCHANGED <<lastDelivered, pel, threadVars>>
    BY <1>5 DEF EnqueueRetry
  <2>2. c.task \in Tasks /\ c.rc \in Nat /\ (c.task \notin Undecodable) \in BOOLEAN
    BY DEF TypeOK, RetryCopy
  <2>3. QED
    BY <1>2, <1>5, <2>1, <2>2 DEF EnqueueRetry
<1>6. ASSUME NEW t \in Tasks, ExpireProcessed(t) PROVE Reachable(id)'
  BY <1>1, <1>6 DEF ExpireProcessed, threadVars
<1>7. ASSUME NEW w \in Workers, Fetch(w) PROVE Reachable(id)'
  <2>1. UNCHANGED cur
    BY <1>7 DEF Fetch, Consume, RecoverOwnPending, ClaimStale
  <2>2. \A u \in Threads : phase'[u] = phase[u] \/ phase[u] = "ready"
    BY <1>7 DEF TypeOK, Fetch, Consume, RecoverOwnPending, ClaimStale, Deliver, Idle
  <2>3. QED
    BY <1>7, <2>1, <2>2, FetchDeliverable, ReachableFrame
<1>8. ASSUME NEW w \in Workers, Process(w) PROVE Reachable(id)'
  BY <1>1, <1>8, ProcessLeavesPipelines DEF redisVars
<1>9. ASSUME NEW th \in Threads, NEW j \in batch[th], DropInvalid(th, j)
      PROVE  Reachable(id)'
  <2>1. /\ UNCHANGED <<log, stream, lastDelivered, cur>>
        /\ phase[th] = "ready"
        /\ \A u \in Threads \ {th} : phase'[u] = phase[u]
        /\ ~log[j].ok
        /\ pel' \in {pel, Acked(j)}
    BY <1>9 DEF TypeOK, DropInvalid
  <2>2. id # j => (id \in Pending => id \in Pending')
    BY <2>1 DEF Pending, Acked
  <2>3. QED
    BY <2>1, <2>2, ReachableFrame DEF Delivered
<1>10. ASSUME NEW th \in Threads, NEW j \in batch[th],
              \/ BeginRetry(th, j) \/ BeginFirst(th, j)
              \/ SkipProcessed(th, j) \/ BeginFailOpen(th, j)
       PROVE  Reachable(id)'
  <2>1. /\ UNCHANGED <<log, stream, lastDelivered, pel>>
        /\ phase[th] = "ready"
        /\ \A u \in Threads \ {th} : UNCHANGED <<phase[u], cur[u]>>
    BY <1>10
    DEF TypeOK, BeginRetry, BeginFirst, SkipProcessed, BeginFailOpen, Take, redisVars
  <2>2. QED
    BY <1>1, <2>1
<1>11. ASSUME NEW th \in Threads,
              \/ Succeed(th) \/ Fail(th) \/ CountCompleted(th) \/ AddRetry(th)
              \/ AddDead(th) \/ PipelineError(th)
       PROVE  Reachable(id)'
  <2>1. /\ UNCHANGED <<log, stream, lastDelivered, pel>>
        /\ phase[th] # "xdel"
        /\ \A u \in Threads \ {th} : UNCHANGED <<phase[u], cur[u]>>
    BY <1>11
    DEF TypeOK, Succeed, Fail, CountCompleted, AddRetry, AddDead, PipelineError,
        Release, redisVars
  <2>2. QED
    BY <1>1, <2>1
<1>12. ASSUME NEW th \in Threads, XAck(th) PROVE Reachable(id)'
  <2>1. /\ UNCHANGED <<log, stream, lastDelivered, cur>>
        /\ phase[th] = "xack" /\ phase'[th] = "xdel"
        /\ \A u \in Threads \ {th} : phase'[u] = phase[u]
        /\ pel' = Acked(cur[th])
    BY <1>12 DEF TypeOK, XAck
  <2>2. id # cur[th] => (id \in Pending => id \in Pending')
    BY <2>1 DEF Pending, Acked
  <2>3. QED
    BY <2>1, <2>2, ReachableFrame DEF Delivered
<1>13. ASSUME NEW th \in Threads, XDel(th) PROVE Reachable(id)'
  <2>1. /\ UNCHANGED <<log, lastDelivered, pel, cur>>
        /\ stream' = stream \ {cur[th]}
        /\ \A u \in Threads \ {th} : phase'[u] = phase[u]
    BY <1>13 DEF TypeOK, XDel
  <2>2. QED
    BY <2>1, ReachableFrame DEF Delivered, Pending
<1>14. CASE UNCHANGED vars
  BY <1>1, <1>14 DEF vars, redisVars, threadVars
<1>15. QED
  BY <1>3, <1>4, <1>5, <1>6, <1>7, <1>8, <1>9, <1>10, <1>11, <1>12, <1>13, <1>14
  DEF Next, Scheduler, ThreadStep, Begin, Pipeline

-----------------------------------------------------------------------------
(* The theorems about faults.                                               *)

FaultInv ==
    /\ VerdictsTrue
    /\ SpoiltInvalid
    /\ OffIsDown
    /\ ~SplitPipelines => \A t \in Tasks \ Undecodable : Survives(t)
    /\ ~SplitPipelines => \A id \in stream : Reachable(id)

(* It holds at first: nothing is on a retry, nothing in the stream. *)
LEMMA FaultInit == Init => FaultInv
<1> SUFFICES ASSUME Init PROVE FaultInv
  OBVIOUS
<1>1. Ids = {}
  BY DEF Init, Ids
<1>2. VerdictsTrue /\ OffIsDown
  BY DEF Init, VerdictsTrue, OffIsDown
<1>3. SpoiltInvalid /\ \A t \in Tasks : Survives(t)
  BY <1>1 DEF Init, SpoiltInvalid, Survives, Retried
<1>4. QED
  BY <1>2, <1>3 DEF Init, FaultInv

(* Every step keeps it, those of crashes, shutdowns and errors included. *)
LEMMA FaultStep ==
    ASSUME Shape, FaultInv, [Next]_vars
    PROVE  FaultInv'
<1> TypeOK /\ StreamInv /\ VerdictsTrue /\ SpoiltInvalid /\ OffIsDown
  BY DEF Shape, FaultInv
<1>1. VerdictsTrue' /\ SpoiltInvalid' /\ OffIsDown'
  BY VerdictsStep, SpoiltStep, OffStep
<1>2. ASSUME ~SplitPipelines, NEW t \in Tasks \ Undecodable PROVE Survives(t)'
  BY <1>2, SurvivesStep DEF FaultInv
<1>3. ASSUME ~SplitPipelines, NEW id \in stream' PROVE Reachable(id)'
  <2>1. Reachable(id)
    BY <1>3 DEF FaultInv, Reachable
  <2>2. QED
    BY <1>3, <2>1, ReachableStep
<1>4. QED
  BY <1>1, <1>2, <1>3 DEF FaultInv

(* A task that is anchored is kept. *)
LEMMA AnchoredKept ==
    ASSUME TypeOK, NEW t \in Tasks, Anchored(t)
    PROVE  Kept(t)
<1>1. ASSUME NEW u \in Threads, Stores(u, t) PROVE Carries(u, t)
  BY <1>1 DEF TypeOK, Stores, Carries
<1>2. QED
  BY <1>1 DEF Anchored, Kept, HasCopy

(* The invariant holds in every behaviour. *)
LEMMA SpecFault == Spec => [](Shape /\ FaultInv)
<1>1. Init => Shape /\ FaultInv
  <2>1. Init => AttemptInv
    BY DEF Init, AttemptInv, AttemptsBounded, VerdictsBounded, Ids
  <2>2. QED
    BY <2>1, TypeInit, StreamInit, FaultInit DEF Shape
<1>2. Shape /\ FaultInv /\ [Next]_vars => (Shape /\ FaultInv)'
  <2>1. ASSUME Shape, FaultInv, [Next]_vars PROVE Shape' /\ FaultInv'
    BY <2>1, TypeStep, StreamStep, AttemptStep, FaultStep DEF Shape
  <2>2. QED
    BY <2>1
<1>3. QED
  BY <1>1, <1>2, PTL DEF Spec

(* Once handleFailure has stored a task for a retry, no crash, shutdown,    *)
(* lost reply or failed command loses it, as long as a pipeline that Redis  *)
(* began runs to its end: with any number of workers and of faults.         *)
THEOREM RetriesOutliveFaults == Spec => []RetriedTasksSurvive
<1>1. Shape /\ FaultInv => RetriedTasksSurvive
  <2>1. ASSUME Shape, FaultInv, ~SplitPipelines,
               NEW t \in Tasks \ Undecodable, Retried(t)
        PROVE  Kept(t)
    <3>1. Anchored(t)
      BY <2>1 DEF FaultInv, Survives
    <3>2. QED
      BY <2>1, <3>1, AnchoredKept DEF Shape
  <2>2. QED
    BY <2>1 DEF RetriedTasksSurvive
<1>2. QED
  BY <1>1, SpecFault, PTL

(* Under the same condition, XACK without its XDEL leaves nothing valid in  *)
(* the stream that no consumer will ever read.                              *)
THEOREM NothingIsStranded == Spec => []NoStrandedMessage
<1>1. FaultInv => NoStrandedMessage
  BY DEF FaultInv, Reachable, NoStrandedMessage
<1>2. QED
  BY <1>1, SpecFault, PTL

-----------------------------------------------------------------------------
(* Who holds what while nothing fails.                                      *)

(* Without faults and slow handlers nobody claims, so that what is pending  *)
(* is in the hands of the main goroutine of its consumer.                   *)
HeldInv ==
    /\ \A w \in Workers : phase[Claimer(w)] \in {"down", "ready"} /\ batch[Claimer(w)] = {}
    /\ \A w \in Workers : \A id \in pel[w] : Holds(Main(w), id)
    /\ \A u \in Threads : phase[u] = "down" => batch[u] = {}
    /\ \A u \in Threads : phase[u] \in {"xdel", "final"} => cur[u] \notin Pending

(* A main goroutine that keeps what is pending in its hands.                *)
LEMMA HeldMove ==
    ASSUME TypeOK, HeldInv, NEW th \in Threads,
           batch[th] # {} \/ phase[th] \notin {"down", "ready"},
           \A u \in Threads \ {th} : UNCHANGED <<phase[u], batch[u], cur[u]>>,
           \A v \in Workers : pel'[v] \subseteq pel[v],
           \A id \in Pending : Holds(th, id) => Holds(th, id)' \/ id \notin Pending',
           phase'[th] # "down",
           phase'[th] \in {"xdel", "final"} => cur'[th] \notin Pending'
    PROVE  HeldInv'
<1>1. PICK w \in Workers : th = Main(w)
  BY DEF HeldInv, Threads, Main, Claimer
<1>2. Pending' \subseteq Pending
  BY DEF Pending
<1>3. ASSUME NEW v \in Workers
      PROVE  phase'[Claimer(v)] \in {"down", "ready"} /\ batch'[Claimer(v)] = {}
  <2>1. Claimer(v) \in Threads \ {th}
    BY <1>1 DEF Threads, Main, Claimer
  <2>2. QED
    BY <2>1 DEF HeldInv
<1>4. ASSUME NEW v \in Workers, NEW id \in pel'[v] PROVE Holds(Main(v), id)'
  <2>1. id \in pel[v] /\ id \in Pending /\ id \in Pending' /\ Main(v) \in Threads
    BY <1>4 DEF Pending, Threads, Main
  <2>2. Holds(Main(v), id)
    BY <2>1 DEF HeldInv
  <2>3. CASE Main(v) = th
    BY <2>1, <2>2, <2>3
  <2>4. CASE Main(v) # th
    BY <2>1, <2>2, <2>4 DEF Holds
  <2>5. QED
    BY <2>3, <2>4
<1>5. \A u \in Threads : phase'[u] = "down" => batch'[u] = {}
  BY DEF HeldInv
<1>6. \A u \in Threads : phase'[u] \in {"xdel", "final"} => cur'[u] \notin Pending'
  BY <1>2 DEF HeldInv
<1>7. QED
  BY <1>3, <1>4, <1>5, <1>6 DEF HeldInv

(* Nobody is idle while its consumer has entries, and none is stale.        *)
LEMMA HeldIdle ==
    ASSUME TypeOK, GoroutinesClean, HeldInv
    PROVE  /\ \A w \in Workers : Idle(Main(w)) => pel[w] = {}
           /\ ~SlowHandlers => \A id \in Pending : ~Stale(id)
<1>1. ASSUME NEW w \in Workers, Idle(Main(w)) PROVE pel[w] = {}
  <2>1. Main(w) \in Threads /\ cur[Main(w)] = 0 /\ batch[Main(w)] = {}
    BY <1>1 DEF Threads, Main, Idle, GoroutinesClean
  <2>2. \A id \in pel[w] : id # 0
    BY NumberTypes DEF TypeOK
  <2>3. QED
    BY <2>1, <2>2 DEF HeldInv, Holds
<1>2. ASSUME NEW id \in Pending PROVE \E u \in Threads : Holds(u, id)
  BY DEF HeldInv, Pending, Threads, Main
<1>3. QED
  BY <1>1, <1>2 DEF Stale

(* Steps without faults keep what is pending in the hands of its consumer.  *)
LEMMA HeldStep ==
    ASSUME TypeOK, StreamInv, BudgetInv, NoFaultYet', ~SlowHandlers,
           GoroutinesClean, HeldInv, [Next]_vars
    PROVE  HeldInv'
<1>1. ASSUME UNCHANGED <<pel, phase, batch, cur>> PROVE HeldInv'
  BY <1>1 DEF HeldInv, Holds, Pending
<1>2. ASSUME NEW t \in Tasks, Enqueue(t) \/ EnqueueScheduled(t) PROVE HeldInv'
  BY <1>1, <1>2 DEF Enqueue, EnqueueScheduled, threadVars
<1>3. ASSUME NEW c \in retry, EnqueueRetry(c) PROVE HeldInv'
  BY <1>1, <1>3 DEF EnqueueRetry, threadVars
<1>4. ASSUME NEW w \in Workers, Consume(w) PROVE HeldInv'
  <2> DEFINE got == FirstOf(Undelivered)
  <2>1. /\ pel' = [pel EXCEPT ![w] = @ \cup got]
        /\ batch' = [batch EXCEPT ![Main(w)] = got]
        /\ UNCHANGED <<phase, cur>> /\ Idle(Main(w))
    BY <1>4, CleanSteps DEF Consume, Deliver
  <2>2. got \subseteq Undelivered
    BY FirstOfSubset
  <2> HIDE DEF got
  <2>3. /\ pel[w] = {} /\ Main(w) \in Threads
        /\ \A v \in Workers : v # w => pel'[v] = pel[v]
        /\ pel'[w] = got
    BY <2>1, HeldIdle DEF TypeOK, Threads, Main
  <2>4. /\ batch'[Main(w)] = got
        /\ \A u \in Threads : u # Main(w) => batch'[u] = batch[u]
    BY <2>1, <2>3 DEF TypeOK
  <2>5. \A u \in Threads : cur[u] \notin got
    <3>1. \A id \in Undelivered : ~Delivered(id)
      BY NumberTypes DEF Undelivered, Delivered
    <3>2. QED
      BY <2>2, <3>1 DEF StreamInv
  <2>6. \A v \in Workers : Main(v) \in Threads /\ Claimer(v) \in Threads /\ Claimer(v) # Main(w)
    BY DEF Threads, Main, Claimer
  <2>7. \A v \in Workers : v # w => Main(v) # Main(w)
    BY DEF Main
  <2>8. \A v \in Workers : \A id \in pel'[v] : Holds(Main(v), id)'
    BY <2>1, <2>3, <2>4, <2>6, <2>7 DEF HeldInv, Holds
  <2>9. \A u \in Threads : phase'[u] \in {"xdel", "final"} => cur'[u] \notin Pending'
    BY <2>1, <2>3, <2>5 DEF HeldInv, Pending
  <2>10. \A u \in Threads : phase'[u] = "down" => batch'[u] = {}
    BY <2>1, <2>4 DEF HeldInv, Idle
  <2>11. QED
    BY <2>1, <2>4, <2>6, <2>8, <2>9, <2>10 DEF HeldInv
<1>5. ASSUME NEW w \in Workers, RecoverOwnPending(w) PROVE HeldInv'
  <2>1. pel[w] = {}
    BY <1>5, HeldIdle DEF RecoverOwnPending
  <2>2. QED
    BY <1>1, <1>5, <2>1 DEF RecoverOwnPending, redisVars
<1>6. ASSUME NEW w \in Workers, ClaimStale(w) PROVE HeldInv'
  BY <1>6, HeldIdle DEF ClaimStale
<1>7. ASSUME NEW w \in Workers, Process(w) PROVE HeldInv'
  <2>1. CASE Start(w)
    <3>1. /\ UNCHANGED <<pel, batch, cur>>
          /\ \A u \in Threads : phase'[u] \in {phase[u], "ready"}
      BY <2>1 DEF Start, redisVars
    <3>2. \A v \in Workers : Claimer(v) \in Threads
      BY DEF Threads, Claimer
    <3>3. QED
      BY <3>1, <3>2 DEF HeldInv, Holds, Pending
  <2>2. CASE Exit(w)
    <3>1. UNCHANGED <<pel, phase, cur>> /\ \A u \in Threads : u[1] = w => phase[u] = "down"
      BY <2>2, CleanExit DEF redisVars
    <3>2. batch' = [u \in Threads |-> IF u[1] = w THEN {} ELSE batch[u]]
      BY <2>2 DEF Exit, Terminate
    <3>3. batch' = batch
      BY <3>1, <3>2 DEF HeldInv, TypeOK
    <3>4. QED
      BY <1>1, <3>1, <3>3
  <2>3. QED
    BY <1>7, <2>1, <2>2, CleanSteps DEF Process
<1>8. ASSUME NEW th \in Threads, NEW id \in batch[th], DropInvalid(th, id) PROVE HeldInv'
  <2>1. /\ phase[th] = "ready" /\ cur' = cur
        /\ batch' = [batch EXCEPT ![th] = @ \ {id}]
        /\ phase' = [phase EXCEPT ![th] = AfterMessage(th, batch'[th])]
    BY <1>8 DEF DropInvalid
  <2>2. pel' = Acked(id)
    BY <1>8, <2>1, CleanSteps DEF DropInvalid
  <2>3. phase'[th] = "ready"
    BY <2>1, CleanSteps DEF AfterMessage, TypeOK
  <2>4. /\ \A v \in Workers : pel'[v] \subseteq pel[v]
        /\ id \notin Pending'
    BY <2>2 DEF Acked, Pending
  <2>5. \A j \in Pending : Holds(th, j) => Holds(th, j)' \/ j = id
    BY <2>1 DEF Holds, TypeOK
  <2>6. \A u \in Threads \ {th} : UNCHANGED <<phase[u], batch[u], cur[u]>>
    BY <2>1 DEF TypeOK
  <2>7. QED
    BY <2>3, <2>4, <2>5, <2>6, HeldMove
<1>9. ASSUME NEW th \in Threads, NEW id \in batch[th],
             BeginRetry(th, id) \/ BeginFirst(th, id) \/ SkipProcessed(th, id)
      PROVE  HeldInv'
  <2>1. /\ phase[th] = "ready" /\ pel' = pel
        /\ batch' = [batch EXCEPT ![th] = @ \ {id}]
        /\ cur' = [cur EXCEPT ![th] = id]
        /\ phase' \in {[phase EXCEPT ![th] = "run"], [phase EXCEPT ![th] = "xack"]}
    BY <1>9 DEF BeginRetry, BeginFirst, SkipProcessed, Take, redisVars
  <2>2. cur[th] = 0 /\ 0 \notin Pending
    BY <2>1, NumberTypes DEF GoroutinesClean
  <2>3. phase'[th] \in {"run", "xack"} /\ cur'[th] = id /\ batch'[th] = batch[th] \ {id}
    BY <2>1 DEF TypeOK
  <2>4. \A j \in Pending : Holds(th, j) => Holds(th, j)'
    BY <2>2, <2>3 DEF Holds
  <2>5. \A u \in Threads \ {th} : UNCHANGED <<phase[u], batch[u], cur[u]>>
    BY <2>1 DEF TypeOK
  <2>6. QED
    BY <2>1, <2>3, <2>4, <2>5, HeldMove
<1>10. ASSUME NEW th \in Threads, Succeed(th) \/ Fail(th) \/ XAck(th) \/ XDel(th)
       PROVE  HeldInv'
  <2>1. /\ UNCHANGED <<batch, cur>>
        /\ phase[th] \in {"run", "xack", "xdel"}
        /\ \/ phase' = [phase EXCEPT ![th] = "xack"] /\ pel' = pel
           \/ phase' = [phase EXCEPT ![th] = "xdel"] /\ pel' = Acked(cur[th])
           \/ /\ phase' = [phase EXCEPT ![th] = "final"] /\ pel' = pel
              /\ phase[th] = "xdel"
    BY <1>10 DEF Succeed, Fail, XAck, XDel, redisVars
  <2>2. /\ phase'[th] \in {"xack", "xdel", "final"}
        /\ \A u \in Threads \ {th} : UNCHANGED <<phase[u], batch[u], cur[u]>>
    BY <2>1 DEF TypeOK
  <2>3. \A v \in Workers : pel'[v] \subseteq pel[v]
    BY <2>1 DEF Acked
  <2>4. phase'[th] \in {"xdel", "final"} => cur'[th] \notin Pending'
    <3>1. CASE phase'[th] = "xdel"
      <4>1. pel' = Acked(cur[th])
        BY <2>1, <3>1 DEF TypeOK
      <4>2. QED
        BY <2>1, <4>1 DEF Acked, Pending
    <3>2. CASE phase'[th] = "final"
      <4>1. phase[th] = "xdel" /\ pel' = pel
        BY <2>1, <3>2 DEF TypeOK
      <4>2. QED
        BY <2>1, <4>1 DEF HeldInv, Pending
    <3>3. QED
      BY <3>1, <3>2
  <2>5. \A j \in Pending : Holds(th, j) => Holds(th, j)'
    BY <2>1 DEF Holds
  <2>6. QED
    BY <2>1, <2>2, <2>3, <2>4, <2>5, HeldMove
<1>11. ASSUME NEW th \in Threads, CountCompleted(th) \/ AddRetry(th) \/ AddDead(th)
       PROVE  HeldInv'
  <2>1. /\ UNCHANGED <<pel, batch>> /\ phase[th] = "final"
        /\ phase' = [phase EXCEPT ![th] = AfterMessage(th, batch[th])]
        /\ cur' = [cur EXCEPT ![th] = 0]
    BY <1>11 DEF CountCompleted, AddRetry, AddDead, Release
  <2>2. phase'[th] = "ready"
    BY <2>1, CleanSteps DEF AfterMessage, TypeOK
  <2>3. cur[th] \notin Pending
    BY <2>1 DEF HeldInv
  <2>4. \A j \in Pending : Holds(th, j) => Holds(th, j)'
    BY <2>1, <2>3 DEF Holds
  <2>5. \A u \in Threads \ {th} : UNCHANGED <<phase[u], batch[u], cur[u]>>
    BY <2>1 DEF TypeOK
  <2>6. QED
    BY <2>1, <2>2, <2>4, <2>5, HeldMove
<1>12. CASE UNCHANGED vars
  BY <1>1, <1>12 DEF vars, redisVars, threadVars
<1>13. QED
  BY <1>2, <1>3, <1>4, <1>5, <1>6, <1>7, <1>8, <1>9, <1>10, <1>11, <1>12, CleanSteps
  DEF Next, Scheduler, Fetch, ThreadStep, Begin, Pipeline

(* What waits in a batch is in the stream and in no other hands, and what a *)
(* pipeline has deleted is not.                                             *)
HandsApart ==
    /\ \A u \in Threads : \A id \in batch[u] :
          /\ id \in stream
          /\ \A v \in Threads : cur[v] # id /\ (v # u => id \notin batch[v])
    /\ \A u \in Threads : phase[u] = "final" => cur[u] \notin stream

(* Nobody was asked to stop. *)
NoneCloses == \A w \in Workers : status[w] # "closing"

(* Steps without faults hand nothing out twice. *)
LEMMA HandsStep ==
    ASSUME TypeOK, StreamInv, BudgetInv, NoFaultYet', ~SlowHandlers,
           GoroutinesClean, HeldInv, HandsApart, [Next]_vars
    PROVE  HandsApart'
<1>0. /\ \A id \in Ids : id # 0
      /\ \A id \in Undelivered : id \in stream /\ id \in Ids /\ ~Delivered(id)
  BY NumberTypes DEF Undelivered, Delivered
<1>1. ASSUME UNCHANGED <<batch, cur, phase>>, stream \subseteq stream',
             \A id \in stream' \ stream : id \notin Ids /\ id # 0
      PROVE  HandsApart'
  <2>1. \A u \in Threads : phase[u] = "final" => cur[u] \in Ids
    BY CurType
  <2>2. QED
    BY <1>1, <2>1 DEF HandsApart
<1>2. ASSUME NEW t \in Tasks, NEW rc \in Nat, NEW ok \in BOOLEAN, XAdd(t, rc, ok),
             UNCHANGED <<batch, cur, phase>>
      PROVE  HandsApart'
  <2>1. Len(log) \in Nat
    BY NumberTypes
  <2>2. Len(log) + 1 \notin Ids /\ Len(log) + 1 # 0
    BY <2>1 DEF Ids
  <2>3. QED
    BY <1>1, <1>2, <2>2 DEF XAdd
<1>3. ASSUME NEW t \in Tasks, Enqueue(t) \/ EnqueueScheduled(t) PROVE HandsApart'
  <2>1. UNCHANGED <<batch, cur, phase>>
    BY <1>3 DEF Enqueue, EnqueueScheduled, threadVars
  <2>2. CASE UNCHANGED stream
    BY <1>1, <2>1, <2>2
  <2>3. CASE \E rc \in Nat, ok \in BOOLEAN : XAdd(t, rc, ok)
    BY <1>2, <2>1, <2>3
  <2>4. QED
    BY <1>3, <2>2, <2>3 DEF Enqueue, EnqueueScheduled
<1>4. ASSUME NEW c \in retry, EnqueueRetry(c) PROVE HandsApart'
  <2>1. UNCHANGED <<batch, cur, phase>>
    BY <1>4 DEF EnqueueRetry, threadVars
  <2>2. c.task \in Tasks /\ c.rc \in Nat
    BY DEF TypeOK, RetryCopy
  <2>3. \E ok \in BOOLEAN : XAdd(c.task, c.rc, ok)
    BY <1>4 DEF EnqueueRetry
  <2>4. QED
    BY <1>2, <2>1, <2>2, <2>3
<1>5. ASSUME NEW w \in Workers, Consume(w) PROVE HandsApart'
  <2> DEFINE got == FirstOf(Undelivered)
  <2>1. /\ batch' = [batch EXCEPT ![Main(w)] = got]
        /\ UNCHANGED <<phase, cur, stream>>
    BY <1>5, CleanSteps DEF Consume, Deliver
  <2>2. got \subseteq Undelivered
    BY FirstOfSubset
  <2> HIDE DEF got
  <2>3. Main(w) \in Threads
    BY DEF Threads, Main
  <2>4. /\ batch'[Main(w)] = got
        /\ \A u \in Threads : u # Main(w) => batch'[u] = batch[u]
    BY <2>1, <2>3 DEF TypeOK
  <2>5. \A id \in got :
          id \in stream /\ \A v \in Threads : cur[v] # id /\ id \notin batch[v]
    BY <1>0, <2>2 DEF StreamInv
  <2>6. QED
    BY <2>1, <2>4, <2>5 DEF HandsApart
<1>6. ASSUME NEW w \in Workers, RecoverOwnPending(w) PROVE HandsApart'
  <2>1. pel[w] = {}
    BY <1>6, HeldIdle DEF RecoverOwnPending
  <2>2. QED
    BY <1>1, <1>6, <2>1 DEF RecoverOwnPending, redisVars
<1>7. ASSUME NEW w \in Workers, ClaimStale(w) PROVE HandsApart'
  BY <1>7, HeldIdle DEF ClaimStale
<1>8. ASSUME NEW w \in Workers, Process(w) PROVE HandsApart'
  <2>1. CASE Start(w)
    <3>1. /\ UNCHANGED <<stream, batch, cur>>
          /\ \A u \in Threads : phase'[u] \in {phase[u], "ready"}
      BY <2>1 DEF Start, redisVars
    <3>2. QED
      BY <3>1 DEF HandsApart
  <2>2. CASE Exit(w)
    <3>1. /\ UNCHANGED <<stream, phase, cur>>
          /\ \A u \in Threads : u[1] = w => phase[u] = "down"
      BY <2>2, CleanExit DEF redisVars
    <3>2. batch' = [u \in Threads |-> IF u[1] = w THEN {} ELSE batch[u]]
      BY <2>2 DEF Exit, Terminate
    <3>3. batch' = batch
      BY <3>1, <3>2 DEF HeldInv, TypeOK
    <3>4. QED
      BY <1>1, <3>1, <3>3
  <2>3. QED
    BY <1>8, <2>1, <2>2, CleanSteps DEF Process
<1>9. ASSUME NEW th \in Threads, NEW id \in batch[th], DropInvalid(th, id) PROVE HandsApart'
  <2>1. /\ UNCHANGED <<stream, cur>>
        /\ batch' = [batch EXCEPT ![th] = @ \ {id}]
        /\ phase' = [phase EXCEPT ![th] = AfterMessage(th, batch'[th])]
    BY <1>9 DEF DropInvalid
  <2>2. \A u \in Threads : batch'[u] \subseteq batch[u]
    BY <2>1 DEF TypeOK
  <2>3. \A u \in Threads : phase'[u] = "final" => phase[u] = "final"
    BY <2>1 DEF TypeOK, AfterMessage
  <2>4. QED
    BY <2>1, <2>2, <2>3 DEF HandsApart
<1>10. ASSUME NEW th \in Threads, NEW id \in batch[th],
              BeginRetry(th, id) \/ BeginFirst(th, id) \/ SkipProcessed(th, id)
       PROVE  HandsApart'
  <2>1. /\ UNCHANGED stream
        /\ batch' = [batch EXCEPT ![th] = @ \ {id}]
        /\ cur' = [cur EXCEPT ![th] = id]
        /\ phase' \in {[phase EXCEPT ![th] = "run"], [phase EXCEPT ![th] = "xack"]}
    BY <1>10 DEF BeginRetry, BeginFirst, SkipProcessed, Take, redisVars
  <2>2. /\ batch'[th] = batch[th] \ {id} /\ cur'[th] = id /\ phase'[th] # "final"
        /\ \A u \in Threads : u # th =>
              batch'[u] = batch[u] /\ cur'[u] = cur[u] /\ phase'[u] = phase[u]
    BY <2>1 DEF TypeOK
  <2>3. QED
    BY <2>1, <2>2 DEF HandsApart
<1>11. ASSUME NEW th \in Threads, Succeed(th) \/ Fail(th) \/ XAck(th) \/ XDel(th)
       PROVE  HandsApart'
  <2>1. /\ UNCHANGED <<batch, cur>>
        /\ \/ /\ \/ phase' = [phase EXCEPT ![th] = "xack"]
                 \/ phase' = [phase EXCEPT ![th] = "xdel"]
              /\ UNCHANGED stream
           \/ /\ phase' = [phase EXCEPT ![th] = "final"]
              /\ stream' = stream \ {cur[th]}
    BY <1>11 DEF Succeed, Fail, XAck, XDel, redisVars
  <2>2. QED
    BY <2>1 DEF TypeOK, HandsApart
<1>12. ASSUME NEW th \in Threads, CountCompleted(th) \/ AddRetry(th) \/ AddDead(th)
       PROVE  HandsApart'
  <2>1. /\ UNCHANGED <<stream, batch>>
        /\ phase' = [phase EXCEPT ![th] = AfterMessage(th, batch[th])]
        /\ cur' = [cur EXCEPT ![th] = 0]
    BY <1>12 DEF CountCompleted, AddRetry, AddDead, Release
  <2>2. /\ cur'[th] = 0 /\ phase'[th] # "final"
        /\ \A u \in Threads : u # th => cur'[u] = cur[u] /\ phase'[u] = phase[u]
    BY <2>1 DEF TypeOK, AfterMessage
  <2>3. \A u \in Threads : batch[u] \subseteq Ids
    BY DEF TypeOK
  <2>4. QED
    BY <1>0, <2>1, <2>2, <2>3 DEF HandsApart
<1>13. CASE UNCHANGED vars
  BY <1>1, <1>13 DEF vars, redisVars, threadVars
<1>14. QED
  BY <1>3, <1>4, <1>5, <1>6, <1>7, <1>8, <1>9, <1>10, <1>11, <1>12, <1>13, CleanSteps
  DEF Next, Scheduler, Fetch, ThreadStep, Begin, Pipeline

(* Nobody is asked to stop by a step without faults. *)
LEMMA ClosesStep ==
    ASSUME TypeOK, BudgetInv, NoFaultYet', GoroutinesClean, NoneCloses, [Next]_vars
    PROVE  NoneCloses'
<1>1. ASSUME NEW w \in Workers, Fetch(w) PROVE NoneCloses'
  <2>1. CASE Consume(w) \/ ClaimStale(w)
    BY <2>1 DEF Consume, ClaimStale, NoneCloses
  <2>2. CASE RecoverOwnPending(w)
    BY <2>2 DEF RecoverOwnPending, NoneCloses, TypeOK
  <2>3. QED
    BY <1>1, <2>1, <2>2 DEF Fetch
<1>2. ASSUME NEW w \in Workers, Process(w) PROVE NoneCloses'
  <2>1. CASE Start(w)
    BY <2>1 DEF Start, NoneCloses, TypeOK
  <2>2. CASE Exit(w)
    BY <2>2 DEF Exit, NoneCloses
  <2>3. QED
    BY <1>2, <2>1, <2>2, CleanSteps DEF Process
<1>3. CASE UNCHANGED status
  BY <1>3 DEF NoneCloses
<1>4. ASSUME NEW th \in Threads, ThreadStep(th) PROVE UNCHANGED status
  BY <1>4
  DEF ThreadStep, Begin, DropInvalid, BeginRetry, BeginFirst, SkipProcessed, BeginFailOpen,
      Succeed, Fail, Pipeline, XAck, XDel, CountCompleted, AddRetry, AddDead, PipelineError
<1>5. ASSUME (\E t \in Tasks : Enqueue(t) \/ ExpireProcessed(t)) \/ Scheduler
             \/ UNCHANGED vars
      PROVE  UNCHANGED status
  BY <1>5 DEF Enqueue, ExpireProcessed, Scheduler, EnqueueScheduled, EnqueueRetry, vars
<1>6. QED
  BY <1>1, <1>2, <1>3, <1>4, <1>5 DEF Next

=============================================================================
