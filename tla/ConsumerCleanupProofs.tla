------------------------ MODULE ConsumerCleanupProofs ------------------------
(***************************************************************************)
(* Theorems of ConsumerCleanup, for every number of workers and cleanups.  *)
(* The invariants of Delivery hold beside the cleaners: XGROUP DELCONSUMER *)
(* only takes entries off a pending list.  What it may take is bounded by  *)
(* what the cleaner saw: a consumer it found stays dead and without        *)
(* entries until its worker starts again.                                  *)
(***************************************************************************)
EXTENDS ConsumerCleanup, DeliveryKeeps

Truths == VerdictsTrue /\ SpoiltInvalid /\ OffIsDown

(* A consumer that a cleaner has found is still what it looked like. *)
FoundDead ==
    ~SlowHandlers =>
        \A k \in Cleaners : \A w \in found[k] :
            w \in restarted \/ (~Live(w) /\ pel[w] = {})

(* A message that a cleanup dropped. *)
Gone(id) == \E d \in dropped : d[2] = id

CCInv ==
    /\ CCTypeOK
    /\ Shape
    /\ Truths
    /\ FoundDead
    /\ DropsOnlyRestarted
    /\ ~SplitPipelines =>
          /\ \A t \in Tasks \ (Undecodable \cup DroppedTasks) : Survives(t)
          /\ \A id \in stream : Reachable(id) \/ Gone(id)

-----------------------------------------------------------------------------
(* Steps.                                                                   *)

(* A step of a worker or a producer is one of Delivery; the others change   *)
(* nothing of it but the fault budget, or one pending list.                 *)
LEMMA StepKinds ==
    ASSUME [CCNext]_ccVars
    PROVE  \/ [Next]_vars
           \/ /\ Spend("fault")
              /\ UNCHANGED <<redisVars, status, threadVars, historyVars,
                             consumers, cleanups, dropped, restarted>>
           \/ \E k \in Cleaners : \E w \in found[k] : RemoveConsumer(k, w)
<1>1. ASSUME NEW w \in Workers, FetchStep(w) \/ StartStep(w) \/ StopStep(w)
      PROVE  Next
  BY <1>1 DEF FetchStep, StartStep, StopStep, Next, Process
<1>2. ASSUME NEW k \in Cleaners, CleanerStep(k)
      PROVE  \/ UNCHANGED vars
             \/ /\ Spend("fault")
                /\ UNCHANGED <<redisVars, status, threadVars, historyVars,
                               consumers, cleanups, dropped, restarted>>
             \/ \E w \in found[k] : RemoveConsumer(k, w)
  BY <1>2 DEF CleanerStep, Inspect, RemoveFails
<1>3. ASSUME OtherStep PROVE Next
  BY <1>3 DEF OtherStep, Next
<1>4. QED
  BY <1>1, <1>2, <1>3 DEF CCNext, ccVars

(* A DELCONSUMER takes the entries of one pending list away.                *)
LEMMA RemoveTakes ==
    ASSUME CCTypeOK, NEW k \in Cleaners, NEW w \in found[k], RemoveConsumer(k, w)
    PROVE  /\ w \in Workers
           /\ pel' = [pel EXCEPT ![w] = {}]
           /\ Pending' \subseteq Pending
           /\ \A id \in Pending : id \in Pending' \/ Gone(id)'
           /\ UNCHANGED <<log, stream, lastDelivered, scheduled, retry, dlq,
                          processed, completed, status, threadVars, budget,
                          historyVars>>
<1>1. w \in Workers
  BY DEF CCTypeOK
<1>2. /\ pel' = [pel EXCEPT ![w] = {}]
      /\ dropped' = dropped \cup ({w} \X pel[w])
      /\ pel \in [Workers -> SUBSET Ids]
  BY DEF RemoveConsumer, CCTypeOK, TypeOK
<1>3. Pending' \subseteq Pending
  BY <1>2 DEF Pending
<1>4. ASSUME NEW id \in Pending PROVE id \in Pending' \/ Gone(id)'
  <2>1. PICK v \in Workers : id \in pel[v]
    BY DEF Pending
  <2>2. CASE v = w
    <3>1. <<w, id>> \in dropped'
      BY <1>2, <2>1, <2>2
    <3>2. QED
      BY <3>1 DEF Gone
  <2>3. CASE v # w
    BY <1>2, <2>1, <2>3 DEF Pending
  <2>4. QED
    BY <2>2, <2>3
<1>5. QED
  BY <1>1, <1>2, <1>3, <1>4 DEF RemoveConsumer

(* The invariants of Delivery, beside the cleaners. *)
LEMMA ShapeStep ==
    ASSUME CCTypeOK, Shape, Truths, [CCNext]_ccVars
    PROVE  Shape' /\ Truths'
<1> TypeOK /\ StreamInv /\ AttemptInv /\ VerdictsTrue /\ SpoiltInvalid /\ OffIsDown
  BY DEF Shape, Truths
<1>1. CASE [Next]_vars
  BY <1>1, TypeStep, StreamStep, AttemptStep, VerdictsStep, SpoiltStep, OffStep
  DEF Shape, Truths
<1>2. CASE Spend("fault") /\ UNCHANGED <<redisVars, status, threadVars, historyVars>>
  <2>1. budget' \in [EventKinds -> Nat]
    BY <1>2, SpendType DEF TypeOK, EventKinds
  <2>2. TypeOK'
    BY <1>2, <2>1 DEF TypeOK, Ids, redisVars, threadVars, historyVars
  <2>3. StreamInv'
    BY <1>2, StreamFrame DEF redisVars, threadVars
  <2>4. AttemptInv'
    BY <1>2, AttemptFrame DEF redisVars, threadVars
  <2>5. Truths'
    BY <1>2 DEF Truths, VerdictsTrue, SpoiltInvalid, OffIsDown, Ids, redisVars,
                threadVars, historyVars
  <2>6. QED
    BY <2>2, <2>3, <2>4, <2>5 DEF Shape
<1>3. ASSUME NEW k \in Cleaners, NEW w \in found[k], RemoveConsumer(k, w)
      PROVE  Shape' /\ Truths'
  <2>1. /\ pel' = [pel EXCEPT ![w] = {}]
        /\ Pending' \subseteq Pending
        /\ UNCHANGED <<log, stream, lastDelivered, scheduled, retry, dlq, processed,
                       completed, status, threadVars, budget, historyVars>>
    BY <1>3, RemoveTakes
  <2>2. TypeOK'
    <3>1. pel' \in [Workers -> SUBSET Ids]
      BY <2>1 DEF TypeOK
    <3>2. QED
      BY <2>1, <3>1 DEF TypeOK, Ids, threadVars, historyVars
  <2>3. StreamInv'
    <3>1. Ids' = Ids /\ \A i : Delivered(i)' <=> Delivered(i)
      BY <2>1 DEF Ids, Delivered
    <3>2. QED
      BY <2>1, <3>1 DEF StreamInv, PendingInStream, threadVars
  <2>4. AttemptInv'
    BY <2>1, AttemptFrame DEF threadVars
  <2>5. Truths'
    BY <2>1 DEF Truths, VerdictsTrue, SpoiltInvalid, OffIsDown, Ids,
                threadVars, historyVars
  <2>6. QED
    BY <2>2, <2>3, <2>4, <2>5 DEF Shape
<1>4. QED
  BY <1>1, <1>2, <1>3, StepKinds

(* The entries that were dropped stay entries. *)
LEMMA DroppedStep ==
    ASSUME CCTypeOK, Shape, [CCNext]_ccVars
    PROVE  /\ dropped \subseteq dropped'
           /\ Ids \subseteq Ids' /\ \A id \in Ids : log'[id] = log[id]
           /\ DroppedTasks \subseteq DroppedTasks'
<1> TypeOK
  BY DEF Shape
<1>1. dropped \subseteq dropped'
  BY DEF CCNext, FetchStep, StartStep, StopStep, OtherStep, CleanerStep, Inspect,
         RemoveConsumer, RemoveFails, ccVars, cleanupVars
<1>2. Ids \subseteq Ids' /\ \A id \in Ids : log'[id] = log[id]
  <2>1. CASE [Next]_vars
    BY <2>1, EntriesStay
  <2>2. CASE UNCHANGED log
    BY <2>2 DEF Ids
  <2>3. QED
    BY <2>1, <2>2, StepKinds DEF redisVars, RemoveConsumer
<1>3. \A d \in dropped : d[2] \in Ids
  BY DEF CCTypeOK
<1>4. QED
  BY <1>1, <1>2, <1>3 DEF DroppedTasks

(* Every step keeps the types, and nobody cleans up in a worker that has    *)
(* stopped.                                                                 *)
LEMMA CCTypeStep ==
    ASSUME CCTypeOK, Shape, Truths, [CCNext]_ccVars
    PROVE  CCTypeOK'
<1> USE CleanupAssumption
<1>1. TypeOK' /\ Ids \subseteq Ids' /\ dropped \subseteq Workers \X Ids'
  BY ShapeStep, DroppedStep DEF Shape, CCTypeOK
<1>2. ASSUME NEW w \in Workers, FetchStep(w) PROVE CCTypeOK'
  <2>1. \A v \in Workers : Running(v) => Running(v)'
    BY <1>2
    DEF CCTypeOK, TypeOK, FetchStep, Fetch, Consume, RecoverOwnPending, ClaimStale,
        Running
  <2>2. QED
    BY <1>1, <1>2, <2>1 DEF CCTypeOK, FetchStep
<1>3. ASSUME NEW w \in Workers, StartStep(w) PROVE CCTypeOK'
  <2>1. \A v \in Workers : Running(v) => Running(v)'
    BY <1>3 DEF CCTypeOK, TypeOK, StartStep, Start, Running
  <2>2. restarted' \subseteq Workers
    BY <1>3 DEF CCTypeOK, StartStep
  <2>3. QED
    BY <1>1, <1>3, <2>1, <2>2 DEF CCTypeOK, StartStep
<1>4. ASSUME NEW w \in Workers, StopStep(w) PROVE CCTypeOK'
  <2>1. \A v \in Workers \ {w} : status'[v] = status[v]
    BY <1>4
    DEF CCTypeOK, TypeOK, StopStep, Shutdown, MainStops, SubscribeFails, Crash, Exit,
        Terminate
  <2>2. found' = [found EXCEPT ![w] = {}] /\ UNCHANGED <<consumers, cleanups, dropped, restarted>>
    BY <1>4 DEF StopStep, Stops
  <2>3. found' \in [Cleaners -> SUBSET Workers]
    BY <2>2 DEF CCTypeOK, Cleaners
  <2>4. \A v \in Workers : ~Running(v)' => found'[v] = {}
    BY <2>1, <2>2 DEF CCTypeOK, Cleaners, Running
  <2>5. QED
    BY <1>1, <2>2, <2>3, <2>4 DEF CCTypeOK
<1>5. ASSUME OtherStep PROVE CCTypeOK'
  <2>1. UNCHANGED cleanupVars /\ UNCHANGED status
    BY <1>5
    DEF OtherStep, Enqueue, ExpireProcessed, Scheduler, EnqueueScheduled, EnqueueRetry,
        ThreadStep, Begin, DropInvalid, BeginRetry, BeginFirst, SkipProcessed,
        BeginFailOpen, Succeed, Fail, Pipeline, XAck, XDel, CountCompleted, AddRetry,
        AddDead, PipelineError
  <2>2. QED
    BY <1>1, <2>1 DEF CCTypeOK, cleanupVars, Running
<1>6. ASSUME NEW k \in Cleaners, Inspect(k) PROVE CCTypeOK'
  <2>1. UNCHANGED <<status, consumers, dropped, restarted>>
    BY <1>6 DEF Inspect, vars
  <2>2. cleanups' \in 0 .. MaxCleanups
    BY <1>6 DEF CCTypeOK, Inspect
  <2>3. found' \in [Cleaners -> SUBSET Workers]
    BY <1>6 DEF CCTypeOK, Inspect
  <2>4. \A v \in Workers : ~Running(v)' => found'[v] = {}
    BY <1>6, <2>1 DEF CCTypeOK, Inspect, Running
  <2>5. QED
    BY <1>1, <2>1, <2>2, <2>3, <2>4 DEF CCTypeOK
<1>7. ASSUME NEW k \in Cleaners, NEW w \in found[k], RemoveConsumer(k, w) PROVE CCTypeOK'
  <2>1. UNCHANGED <<status, cleanups, restarted>> /\ w \in Workers
    BY <1>7 DEF CCTypeOK, RemoveConsumer
  <2>2. found' \in [Cleaners -> SUBSET Workers] /\ \A j \in Cleaners : found'[j] \subseteq found[j]
    BY <1>7 DEF CCTypeOK, RemoveConsumer
  <2>3. consumers' \subseteq Workers /\ dropped' \subseteq Workers \X Ids
    BY <1>7, <2>1 DEF CCTypeOK, TypeOK, RemoveConsumer
  <2>4. \A v \in Workers : ~Running(v)' => found'[v] = {}
    BY <2>1, <2>2 DEF CCTypeOK, Cleaners, Running
  <2>5. dropped' \subseteq Workers \X Ids'
    BY <1>1, <2>3
  <2>6. QED
    BY <1>1, <2>1, <2>2, <2>3, <2>4, <2>5 DEF CCTypeOK
<1>8. ASSUME NEW k \in Cleaners, NEW w \in found[k], RemoveFails(k, w) PROVE CCTypeOK'
  <2>1. UNCHANGED <<status, consumers, cleanups, dropped, restarted>>
    BY <1>8 DEF RemoveFails
  <2>2. found' \in [Cleaners -> SUBSET Workers] /\ \A j \in Cleaners : found'[j] \subseteq found[j]
    BY <1>8 DEF CCTypeOK, RemoveFails
  <2>3. \A v \in Workers : ~Running(v)' => found'[v] = {}
    BY <2>1, <2>2 DEF CCTypeOK, Cleaners, Running
  <2>4. QED
    BY <1>1, <2>1, <2>2, <2>3 DEF CCTypeOK
<1>9. CASE UNCHANGED ccVars
  BY <1>1, <1>9 DEF ccVars, vars, cleanupVars, CCTypeOK, Running
<1>10. QED
  BY <1>2, <1>3, <1>4, <1>5, <1>6, <1>7, <1>8, <1>9 DEF CCNext, CleanerStep

(* A worker's own steps, and those of a producer, bring no dead worker to   *)
(* life and put nothing on its pending list.                                *)
LEMMA DeadStaysDead ==
    ASSUME TypeOK, NEW w \in Workers, ~Live(w), pel[w] = {}, Next, ~Start(w)
    PROVE  ~Live(w)' /\ pel'[w] = {}
<1>1. ASSUME NEW v \in Workers, Fetch(v) PROVE ~Live(w)' /\ pel'[w] = {}
  <2>1. Live(v)
    BY <1>1 DEF Fetch, Consume, RecoverOwnPending, ClaimStale, ClaimerTicks, Live
  <2>2. v # w
    BY <2>1
  <2>3. QED
    BY <1>1, <2>2
    DEF TypeOK, Fetch, Consume, RecoverOwnPending, ClaimStale, redisVars, Live
<1>2. ASSUME NEW v \in Workers, Process(v) PROVE ~Live(w)' /\ pel'[w] = {}
  <2>1. pel' = pel
    BY <1>2, ProcessFrame DEF redisVars
  <2>2. ~Live(w)'
    BY <1>2
    DEF TypeOK, Process, Start, Shutdown, MainStops, SubscribeFails, Crash, Exit,
        Terminate, Live
  <2>3. QED
    BY <2>1, <2>2
<1>3. ASSUME NEW th \in Threads, ThreadStep(th) PROVE ~Live(w)' /\ pel'[w] = {}
  <2>1. UNCHANGED status
    BY <1>3
    DEF ThreadStep, Begin, DropInvalid, BeginRetry, BeginFirst, SkipProcessed,
        BeginFailOpen, Succeed, Fail, Pipeline, XAck, XDel, CountCompleted, AddRetry,
        AddDead, PipelineError
  <2>2. pel' = pel \/ \E id : pel' = Acked(id)
    BY <1>3
    DEF ThreadStep, Begin, DropInvalid, BeginRetry, BeginFirst, SkipProcessed,
        BeginFailOpen, Succeed, Fail, Pipeline, XAck, XDel, CountCompleted, AddRetry,
        AddDead, PipelineError, redisVars
  <2>3. pel'[w] \subseteq pel[w]
    BY <2>2 DEF Acked
  <2>4. QED
    BY <2>1, <2>3 DEF Live
<1>4. CASE Scheduler \/ \E t \in Tasks : Enqueue(t) \/ ExpireProcessed(t)
  <2>1. UNCHANGED <<status, pel>>
    BY <1>4 DEF Scheduler, EnqueueScheduled, EnqueueRetry, Enqueue, ExpireProcessed
  <2>2. QED
    BY <2>1 DEF Live
<1>5. QED
  BY <1>1, <1>2, <1>3, <1>4 DEF Next

(* What a cleaner has found stays dead and without entries, or has been     *)
(* restarted meanwhile.                                                     *)
LEMMA FoundDeadStep ==
    ASSUME CCTypeOK, FoundDead, [CCNext]_ccVars
    PROVE  FoundDead'
<1> SUFFICES ASSUME ~SlowHandlers, NEW k \in Cleaners, NEW w \in found'[k]
             PROVE  w \in restarted' \/ (~Live(w)' /\ pel'[w] = {})
  BY DEF FoundDead
<1> TypeOK /\ found \in [Cleaners -> SUBSET Workers] /\ restarted \subseteq restarted'
  BY DEF CCTypeOK, CCNext, FetchStep, StartStep, StopStep, OtherStep, CleanerStep,
         Inspect, RemoveConsumer, RemoveFails, ccVars, cleanupVars
<1>1. ASSUME w \in found[k], Next,
             \A v \in Workers : Start(v) => v \in restarted' \/ w # v
      PROVE  w \in restarted' \/ (~Live(w)' /\ pel'[w] = {})
  <2>1. w \in Workers
    BY <1>1
  <2>2. CASE w \in restarted
    BY <2>2
  <2>3. CASE ~Live(w) /\ pel[w] = {}
    BY <1>1, <2>1, <2>3, DeadStaysDead
  <2>4. QED
    BY <1>1, <2>2, <2>3 DEF FoundDead
<1>2. ASSUME NEW v \in Workers, FetchStep(v)
      PROVE  w \in restarted' \/ (~Live(w)' /\ pel'[w] = {})
  <2>1. Next /\ found' = found
    BY <1>2 DEF FetchStep, Next
  <2>2. \A u \in Workers : ~Start(u)
    <3>1. ASSUME NEW u \in Workers, Start(u) PROVE FALSE
      <4>1. status[u] = "off" /\ status'[u] = "recovering"
        BY <3>1 DEF TypeOK, Start
      <4>2. status'[u] \in {status[u], "consuming"}
        BY <1>2
        DEF TypeOK, FetchStep, Fetch, Consume, RecoverOwnPending, ClaimStale
      <4>3. QED
        BY <4>1, <4>2
    <3>2. QED
      BY <3>1
  <2>3. QED
    BY <1>1, <2>1, <2>2
<1>3. ASSUME NEW v \in Workers, StartStep(v)
      PROVE  w \in restarted' \/ (~Live(w)' /\ pel'[w] = {})
  <2>1. Next /\ found' = found /\ Start(v)
    BY <1>3 DEF StartStep, Next, Process
  <2>2. CASE w = v
    BY <1>3, <2>1, <2>2 DEF StartStep
  <2>3. CASE w # v
    <3>1. \A u \in Workers : Start(u) => u = v
      <4>1. ASSUME NEW u \in Workers, u # v, Start(u) PROVE FALSE
        BY <2>1, <4>1 DEF TypeOK, Start
      <4>2. QED
        BY <4>1
    <3>2. QED
      BY <1>1, <2>1, <2>3, <3>1
  <2>4. QED
    BY <2>2, <2>3
<1>4. ASSUME NEW v \in Workers, StopStep(v)
      PROVE  w \in restarted' \/ (~Live(w)' /\ pel'[w] = {})
  <2>1. Next /\ found'[k] \subseteq found[k]
    BY <1>4 DEF StopStep, Stops, Next, Process
  <2>2. \A u \in Workers : ~Start(u)
    <3>1. status'[v] # "recovering" /\ \A u \in Workers \ {v} : status'[u] = status[u]
      BY <1>4
      DEF TypeOK, StopStep, Shutdown, MainStops, SubscribeFails, Crash, Exit, Terminate
    <3>2. ASSUME NEW u \in Workers, Start(u) PROVE FALSE
      BY <3>1, <3>2 DEF TypeOK, Start
    <3>3. QED
      BY <3>2
  <2>3. QED
    BY <1>1, <2>1, <2>2
<1>5. CASE OtherStep
  <2>1. Next /\ UNCHANGED found
    BY <1>5 DEF OtherStep, cleanupVars, Next
  <2>2. UNCHANGED status
    BY <1>5
    DEF OtherStep, Enqueue, ExpireProcessed, Scheduler, EnqueueScheduled, EnqueueRetry,
        ThreadStep, Begin, DropInvalid, BeginRetry, BeginFirst, SkipProcessed,
        BeginFailOpen, Succeed, Fail, Pipeline, XAck, XDel, CountCompleted, AddRetry,
        AddDead, PipelineError
  <2>3. \A u \in Workers : ~Start(u)
    BY <2>2 DEF TypeOK, Start
  <2>4. QED
    BY <1>1, <2>1, <2>3
<1>6. ASSUME NEW j \in Cleaners, Inspect(j)
      PROVE  w \in restarted' \/ (~Live(w)' /\ pel'[w] = {})
  <2>1. UNCHANGED <<status, pel, restarted>>
    BY <1>6 DEF Inspect, vars, redisVars
  <2>2. CASE k = j
    <3>1. Removable(w)
      BY <1>6, <2>2 DEF Inspect
    <3>2. QED
      BY <2>1, <3>1 DEF Removable, Idles, Live
  <2>3. CASE k # j
    <3>1. w \in found[k]
      BY <1>6, <2>3 DEF Inspect
    <3>2. QED
      BY <2>1, <3>1 DEF FoundDead, Live
  <2>4. QED
    BY <2>2, <2>3
<1>7. ASSUME NEW j \in Cleaners, NEW v \in found[j],
             RemoveConsumer(j, v) \/ RemoveFails(j, v)
      PROVE  w \in restarted' \/ (~Live(w)' /\ pel'[w] = {})
  <2>1. UNCHANGED <<status, restarted>> /\ found'[k] \subseteq found[k]
    BY <1>7 DEF RemoveConsumer, RemoveFails
  <2>2. pel'[w] \subseteq pel[w]
    <3>1. w \in Workers
      BY <2>1
    <3>2. QED
      BY <1>7, <3>1 DEF TypeOK, RemoveConsumer, RemoveFails, redisVars
  <2>3. QED
    BY <2>1, <2>2 DEF FoundDead, Live
<1>8. CASE UNCHANGED ccVars
  BY <1>8 DEF ccVars, vars, redisVars, cleanupVars, FoundDead, Live
<1>9. QED
  BY <1>2, <1>3, <1>4, <1>5, <1>6, <1>7, <1>8 DEF CCNext, CleanerStep

(* So that only restarted workers lose entries. *)
LEMMA DropsStep ==
    ASSUME CCTypeOK, FoundDead, DropsOnlyRestarted, [CCNext]_ccVars
    PROVE  DropsOnlyRestarted'
<1>1. restarted \subseteq restarted'
  BY DEF CCNext, FetchStep, StartStep, StopStep, OtherStep, CleanerStep,
         Inspect, RemoveConsumer, RemoveFails, ccVars, cleanupVars, CCTypeOK
<1>2. ASSUME UNCHANGED dropped PROVE DropsOnlyRestarted'
  BY <1>1, <1>2 DEF DropsOnlyRestarted
<1>3. ASSUME NEW k \in Cleaners, NEW w \in found[k], RemoveConsumer(k, w)
      PROVE  DropsOnlyRestarted'
  <2>1. dropped' = dropped \cup ({w} \X pel[w])
    BY <1>3 DEF RemoveConsumer
  <2>2. ASSUME ~SlowHandlers, NEW d \in {w} \X pel[w] PROVE d[1] \in restarted
    <3>1. d[1] = w /\ pel[w] # {}
      OBVIOUS
    <3>2. QED
      BY <2>2, <3>1 DEF FoundDead
  <2>3. QED
    BY <1>1, <2>1, <2>2 DEF DropsOnlyRestarted
<1>4. QED
  BY <1>2, <1>3
  DEF CCNext, FetchStep, StartStep, StopStep, OtherStep, CleanerStep, Inspect,
      RemoveFails, ccVars, cleanupVars

(* A DELCONSUMER leaves a task on a retry anchored, unless it drops one of  *)
(* its messages.                                                            *)
LEMMA RemoveSurvives ==
    ASSUME CCTypeOK, NEW k \in Cleaners, NEW w \in found[k], RemoveConsumer(k, w),
           NEW t \in Tasks, t \notin DroppedTasks', Survives(t)
    PROVE  Survives(t)'
<1>1. /\ UNCHANGED <<log, stream, lastDelivered, retry, dlq, threadVars, historyVars>>
      /\ \A id \in Pending : id \in Pending' \/ Gone(id)'
  BY RemoveTakes
<1>2. ASSUME NEW id \in Ids, log[id].task = t, Deliverable(id) PROVE Deliverable(id)'
  <2>1. ~Gone(id)'
    <3>1. ASSUME NEW d \in dropped', d[2] = id PROVE FALSE
      <4>1. log'[d[2]].task = t
        BY <1>1, <1>2, <3>1
      <4>2. QED
        BY <3>1, <4>1 DEF DroppedTasks
    <3>2. QED
      BY <3>1 DEF Gone
  <2>2. QED
    BY <1>1, <1>2, <2>1 DEF Deliverable, Delivered
<1>3. QED
  BY <1>1, <1>2, SurvivesFrame DEF Stores, threadVars, historyVars

(* Every step keeps what the two properties about drops rest on. *)
LEMMA KeptButDropped ==
    ASSUME CCInv, ~SplitPipelines, [CCNext]_ccVars
    PROVE  /\ \A t \in Tasks \ (Undecodable \cup DroppedTasks') : Survives(t)'
           /\ \A id \in stream' : Reachable(id)' \/ Gone(id)'
<1> /\ CCTypeOK /\ Shape /\ TypeOK /\ StreamInv
    /\ VerdictsTrue /\ SpoiltInvalid /\ OffIsDown
  BY DEF CCInv, Shape, Truths
<1>1. dropped \subseteq dropped' /\ DroppedTasks \subseteq DroppedTasks'
  BY DroppedStep
<1>2. ASSUME NEW t \in Tasks \ (Undecodable \cup DroppedTasks') PROVE Survives(t)'
  <2>1. Survives(t)
    BY <1>1, <1>2 DEF CCInv
  <2>2. CASE [Next]_vars
    BY <2>1, <2>2, SurvivesStep
  <2>3. CASE UNCHANGED <<redisVars, status, threadVars, historyVars>>
    BY <2>1, <2>3, SurvivesFrame
    DEF Stores, Deliverable, Delivered, Pending, redisVars, threadVars, historyVars
  <2>4. ASSUME NEW k \in Cleaners, NEW w \in found[k], RemoveConsumer(k, w)
        PROVE  Survives(t)'
    BY <1>2, <2>1, <2>4, RemoveSurvives
  <2>5. QED
    BY <2>2, <2>3, <2>4, StepKinds
<1>3. ASSUME NEW id \in stream' PROVE Reachable(id)' \/ Gone(id)'
  <2>1. CASE Gone(id)
    BY <1>1, <2>1 DEF Gone
  <2>2. CASE ~Gone(id)
    <3>1. Reachable(id)
      BY <2>2 DEF CCInv, Reachable
    <3>2. CASE [Next]_vars
      BY <3>1, <3>2, ReachableStep
    <3>3. CASE UNCHANGED <<redisVars, status, threadVars, historyVars>>
      BY <3>1, <3>3 DEF Reachable, Delivered, Pending, redisVars, threadVars
    <3>4. ASSUME NEW k \in Cleaners, NEW w \in found[k], RemoveConsumer(k, w)
          PROVE  Reachable(id)' \/ Gone(id)'
      <4>1. /\ UNCHANGED <<log, stream, lastDelivered, threadVars>>
            /\ \A i \in Pending : i \in Pending' \/ Gone(i)'
        BY <3>4, RemoveTakes
      <4>2. QED
        BY <3>1, <4>1 DEF Reachable, Delivered, threadVars
    <3>5. QED
      BY <3>2, <3>3, <3>4, StepKinds
  <2>3. QED
    BY <2>1, <2>2
<1>4. QED
  BY <1>2, <1>3

-----------------------------------------------------------------------------
(* The theorems.                                                            *)

(* The invariant holds at first: nobody has found or dropped anything. *)
LEMMA CCInvInit == CCInit => CCInv
<1> SUFFICES ASSUME CCInit PROVE CCInv
  OBVIOUS
<1> USE CleanupAssumption DEF CCInit
<1>1. Shape
  <2>1. AttemptInv
    BY DEF Init, AttemptInv, AttemptsBounded, VerdictsBounded, Ids
  <2>2. QED
    BY <2>1, TypeInit, StreamInit DEF Shape
<1>2. Truths
  BY FaultInit DEF FaultInv, Truths
<1>3. CCTypeOK
  <2>1. \A w \in Workers : found[w] = {}
    BY DEF Cleaners
  <2>2. QED
    BY <1>1, <2>1 DEF Shape, CCTypeOK
<1>4. FoundDead /\ DropsOnlyRestarted
  BY DEF FoundDead, DropsOnlyRestarted
<1>5. ~SplitPipelines =>
          /\ \A t \in Tasks \ (Undecodable \cup DroppedTasks) : Survives(t)
          /\ \A id \in stream : Reachable(id) \/ Gone(id)
  BY FaultInit DEF FaultInv
<1>6. QED
  BY <1>1, <1>2, <1>3, <1>4, <1>5 DEF CCInv

(* And every step of a worker, a producer or a cleaner keeps it. *)
LEMMA CCInvStep == CCInv /\ [CCNext]_ccVars => CCInv'
<1> SUFFICES ASSUME CCInv, [CCNext]_ccVars PROVE CCInv'
  OBVIOUS
<1>1. CCTypeOK /\ Shape /\ Truths /\ FoundDead /\ DropsOnlyRestarted
  BY DEF CCInv
<1>2. Shape' /\ Truths' /\ CCTypeOK' /\ FoundDead' /\ DropsOnlyRestarted'
  BY <1>1, ShapeStep, CCTypeStep, FoundDeadStep, DropsStep
<1>3. QED
  BY <1>2, KeptButDropped DEF CCInv

(* So it always holds. *)
LEMMA CCInvHolds == CCSpec => []CCInv
BY CCInvInit, CCInvStep, PTL DEF CCSpec

(* Every variable keeps its type, those of Delivery included, and a         *)
(* stopped worker has no cleanup under way.                                 *)
THEOREM CleanupTypesHold == CCSpec => []CCTypeOK
<1>1. CCInv => CCTypeOK
  BY DEF CCInv
<1>2. QED
  BY <1>1, CCInvHolds, PTL

(* Whatever number of cleaners runs beside whatever number of workers: with *)
(* handlers shorter than the threshold, a cleanup that looked at a consumer *)
(* takes entries away from it only if its worker has started since.         *)
THEOREM DropsHitOnlyRestarted == CCSpec => []DropsOnlyRestarted
<1>1. CCInv => DropsOnlyRestarted
  BY DEF CCInv
<1>2. QED
  BY <1>1, CCInvHolds, PTL

(* Whatever crashes, fails and is cleaned up: a task on a retry is lost     *)
(* only if a cleanup dropped one of its messages.                           *)
THEOREM RetriedLostOnlyByCleanup == CCSpec => []RetriedLostOnlyByDrop
<1>1. ASSUME CCInv, ~SplitPipelines,
             NEW t \in Tasks \ (Undecodable \cup DroppedTasks), Retried(t)
      PROVE  Kept(t)
  <2>1. TypeOK /\ Anchored(t)
    BY <1>1 DEF CCInv, Shape, Survives
  <2>2. QED
    BY <2>1, AnchoredKept
<1>2. CCInv => RetriedLostOnlyByDrop
  BY <1>1 DEF RetriedLostOnlyByDrop
<1>3. QED
  BY <1>2, CCInvHolds, PTL

(* Likewise a message stays in the stream unread for ever only if a cleanup *)
(* dropped it.                                                              *)
THEOREM StrandedOnlyByCleanup == CCSpec => []StrandedOnlyByDrop
<1>1. CCInv => StrandedOnlyByDrop
  BY DEF CCInv, Reachable, Gone, StrandedOnlyByDrop
<1>2. QED
  BY <1>1, CCInvHolds, PTL

=============================================================================
