--------------------------- MODULE DeliveryProofs ---------------------------
(***************************************************************************)
(* Theorems of Delivery, for every set of tasks and of workers, every      *)
(* MaxRetry and BatchSize, every budget, and with or without slow          *)
(* handlers, stable names and split pipelines.                             *)
(***************************************************************************)
EXTENDS Delivery, FiniteSetTheorems, SequenceTheorems, TLAPS

(* A batch is part of what it was taken from. *)
LEMMA FirstOfSubset ==
    ASSUME NEW S
    PROVE  FirstOf(S) \subseteq S
BY DEF FirstOf

(* XADD appends an entry and keeps the others. *)
LEMMA XAddType ==
    ASSUME log \in Seq(Entry), stream \subseteq Ids,
           NEW t \in Tasks, NEW rc \in Nat, NEW ok \in BOOLEAN,
           XAdd(t, rc, ok)
    PROVE  /\ log' \in Seq(Entry)
           /\ Len(log') = Len(log) + 1
           /\ stream' \subseteq Ids'
           /\ Ids \subseteq Ids'
           /\ \A id \in Ids : log'[id] = log[id]
           /\ log'[Len(log) + 1] = [task |-> t, rc |-> rc, ok |-> ok]
           /\ Ids' = Ids \cup {Len(log) + 1}
<1>1. [task |-> t, rc |-> rc, ok |-> ok] \in Entry
  BY DEF Entry
<1>2. /\ log' \in Seq(Entry)
      /\ Len(log') = Len(log) + 1
      /\ \A id \in Ids : log'[id] = log[id]
      /\ log'[Len(log) + 1] = [task |-> t, rc |-> rc, ok |-> ok]
  BY <1>1 DEF XAdd, Ids
<1>3. Ids' = Ids \cup {Len(log) + 1}
  BY <1>2 DEF Ids
<1>4. stream' \subseteq Ids'
  BY <1>3 DEF XAdd
<1>5. QED
  BY <1>2, <1>3, <1>4

(* The initial state has the right types. *)
LEMMA TypeInit == Init => TypeOK
BY ConstantsAssumption DEF Init, TypeOK, Ids, Threads, Entry

(* An XACK leaves every pending entries list a set of IDs. *)
LEMMA AckedType ==
    ASSUME pel \in [Workers -> SUBSET Ids], NEW id
    PROVE  Acked(id) \in [Workers -> SUBSET Ids]
BY DEF Acked

(* An event that is spent leaves a budget. *)
LEMMA SpendType ==
    ASSUME budget \in [EventKinds -> Nat], NEW k \in EventKinds, Spend(k)
    PROVE  budget' \in [EventKinds -> Nat]
BY DEF Spend

(* The fields of the entry an ID names. *)
LEMMA EntryType ==
    ASSUME TypeOK, NEW id \in Ids
    PROVE  log[id].task \in Tasks /\ log[id].rc \in Nat /\ log[id].ok \in BOOLEAN
<1>1. log[id] \in Entry
  BY DEF TypeOK, Ids
<1>2. QED
  BY <1>1 DEF Entry

(* A goroutine at work on a message names one of the stream. *)
LEMMA CurType ==
    ASSUME TypeOK, NEW th \in Threads,
           phase[th] \in {"run", "xack", "xdel", "final"}
    PROVE  cur[th] \in Ids
BY DEF TypeOK, Ids

(* A copy on its way to the retry set or the DLQ has the right type. *)
LEMMA CopyType ==
    ASSUME TypeOK, NEW th \in Threads, phase[th] = "final"
    PROVE  Copy(th) \in RetryCopy
<1>1. cur[th] \in Ids /\ cur[th] \in Nat
  BY CurType DEF Ids
<1>2. QED
  BY <1>1, EntryType DEF Copy, RetryCopy

(* A batch that arrives, or is lost, leaves the goroutine well formed. *)
LEMMA DeliverType ==
    ASSUME TypeOK, NEW th \in Threads, NEW got \in SUBSET Ids, Deliver(th, got)
    PROVE  /\ batch' \in [Threads -> SUBSET Ids]
           /\ phase' \in [Threads -> {"down", "ready", "run", "xack", "xdel", "final"}]
           /\ \A a \in Threads : phase'[a] \in {"run", "xack", "xdel", "final"}
                                   => cur[a] # 0
           /\ budget' \in [EventKinds -> Nat]
<1>1. CASE batch' = [batch EXCEPT ![th] = got] /\ UNCHANGED <<phase, budget>>
  BY <1>1 DEF TypeOK
<1>2. CASE /\ Spend("fault")
           /\ phase' = [phase EXCEPT ![th] =
                            IF status[th[1]] = "closing" THEN "down" ELSE @]
           /\ UNCHANGED batch
  <2>1. budget' \in [EventKinds -> Nat]
    BY <1>2, SpendType DEF TypeOK, EventKinds
  <2>2. QED
    BY <1>2, <2>1 DEF TypeOK
<1>3. QED
  BY <1>1, <1>2 DEF Deliver

(* A step that only adds an entry to the stream and changes the sorted sets *)
(* keeps the types.                                                         *)
LEMMA TypeXAdd ==
    ASSUME TypeOK,
           NEW t \in Tasks, NEW rc \in Nat, NEW ok \in BOOLEAN,
           XAdd(t, rc, ok),
           scheduled' \subseteq Tasks, retry' \subseteq RetryCopy,
           budget' \in [EventKinds -> Nat],
           UNCHANGED <<lastDelivered, pel, dlq, processed, completed, status,
                       threadVars, historyVars>>
    PROVE  TypeOK'
<1>1. /\ log' \in Seq(Entry)
      /\ Len(log') = Len(log) + 1
      /\ stream' \subseteq Ids'
      /\ Ids \subseteq Ids'
  BY XAddType DEF TypeOK
<1>2. Len(log) \in Nat
  BY DEF TypeOK
<1>3. /\ lastDelivered' \in 0 .. Len(log')
      /\ cur' \in [Threads -> 0 .. Len(log')]
  BY <1>1, <1>2 DEF TypeOK, threadVars
<1>4. /\ pel' \in [Workers -> SUBSET Ids']
      /\ batch' \in [Threads -> SUBSET Ids']
  BY <1>1 DEF TypeOK, threadVars
<1>5. QED
  BY <1>1, <1>3, <1>4 DEF TypeOK, threadVars, historyVars

(* Every step keeps the types. *)
LEMMA TypeStep == TypeOK /\ [Next]_vars => TypeOK'
<1> SUFFICES ASSUME TypeOK, [Next]_vars
             PROVE  TypeOK'
  OBVIOUS
<1> USE ConstantsAssumption
<1>1. ASSUME NEW t \in Tasks, Enqueue(t) PROVE TypeOK'
  <2>1. budget' \in [EventKinds -> Nat]
    BY <1>1, SpendType DEF TypeOK, Enqueue, EventKinds
  <2>2. CASE XAdd(t, 0, TRUE) /\ UNCHANGED scheduled
    BY <1>1, <2>1, <2>2, TypeXAdd DEF TypeOK, Enqueue
  <2>3. CASE UNCHANGED <<log, stream>> /\ scheduled' = scheduled \cup {t}
    BY <1>1, <2>1, <2>3 DEF TypeOK, Enqueue, Ids, threadVars, historyVars
  <2>4. QED
    BY <1>1, <2>2, <2>3 DEF Enqueue
<1>2. ASSUME NEW t \in Tasks, ExpireProcessed(t) PROVE TypeOK'
  <2>1. budget' \in [EventKinds -> Nat]
    BY <1>2, SpendType DEF TypeOK, ExpireProcessed, EventKinds
  <2>2. QED
    BY <1>2, <2>1 DEF TypeOK, ExpireProcessed, threadVars, Ids
<1>3. ASSUME NEW t \in Tasks, EnqueueScheduled(t) PROVE TypeOK'
  <2>1. scheduled' \subseteq Tasks
    BY <1>3 DEF TypeOK, EnqueueScheduled
  <2>2. (t \notin Undecodable) \in BOOLEAN
    OBVIOUS
  <2>3. QED
    BY <1>3, <2>1, <2>2, TypeXAdd DEF TypeOK, EnqueueScheduled
<1>4. ASSUME NEW c \in retry, EnqueueRetry(c) PROVE TypeOK'
  <2>1. c.task \in Tasks /\ c.rc \in Nat
    BY DEF TypeOK, RetryCopy
  <2>2. retry' \subseteq RetryCopy
    BY <1>4 DEF TypeOK, EnqueueRetry
  <2>3. (c.task \notin Undecodable) \in BOOLEAN
    OBVIOUS
  <2>4. QED
    BY <1>4, <2>1, <2>2, <2>3, TypeXAdd DEF TypeOK, EnqueueRetry
<1>5. ASSUME NEW w \in Workers, Consume(w) PROVE TypeOK'
  <2>1. FirstOf(Undelivered) \in SUBSET Ids
    BY FirstOfSubset DEF TypeOK, Undelivered
  <2>2. /\ batch' \in [Threads -> SUBSET Ids]
        /\ phase' \in [Threads -> {"down", "ready", "run", "xack", "xdel", "final"}]
        /\ \A a \in Threads : phase'[a] \in {"run", "xack", "xdel", "final"}
                                => cur[a] # 0
        /\ budget' \in [EventKinds -> Nat]
    BY <1>5, <2>1, DeliverType DEF Consume, Threads, Main
  <2>3. lastDelivered' \in 0 .. Len(log)
    BY <1>5, <2>1 DEF Consume, Ids
  <2>4. pel' \in [Workers -> SUBSET Ids]
    BY <1>5, <2>1 DEF TypeOK, Consume
  <2>5. QED
    BY <1>5, <2>2, <2>3, <2>4 DEF TypeOK, Consume, Ids, historyVars
<1>6. ASSUME NEW w \in Workers, RecoverOwnPending(w) PROVE TypeOK'
  <2>1. FirstOf(pel[w]) \in SUBSET Ids
    BY FirstOfSubset DEF TypeOK
  <2>2. batch' \in [Threads -> SUBSET Ids]
    BY <1>6, <2>1 DEF TypeOK, RecoverOwnPending
  <2>3. QED
    BY <1>6, <2>2 DEF TypeOK, RecoverOwnPending, Ids, redisVars, historyVars
<1>7. ASSUME NEW w \in Workers, ClaimStale(w) PROVE TypeOK'
  <2> DEFINE due == {id \in Pending : Stale(id)}
  <2>1. FirstOf(due) \in SUBSET Ids
    BY FirstOfSubset DEF TypeOK, Pending
  <2>2. /\ batch' \in [Threads -> SUBSET Ids]
        /\ phase' \in [Threads -> {"down", "ready", "run", "xack", "xdel", "final"}]
        /\ \A a \in Threads : phase'[a] \in {"run", "xack", "xdel", "final"}
                                => cur[a] # 0
        /\ budget' \in [EventKinds -> Nat]
    BY <1>7, <2>1, DeliverType DEF ClaimStale, Threads, Claimer
  <2>3. pel' \in [Workers -> SUBSET Ids]
    BY <1>7, <2>1 DEF TypeOK, ClaimStale
  <2>4. QED
    BY <1>7, <2>2, <2>3 DEF TypeOK, ClaimStale, Ids, historyVars
<1>8. ASSUME NEW w \in Workers, Start(w) PROVE TypeOK'
  BY <1>8 DEF TypeOK, Start, Ids, redisVars, historyVars
<1>9. ASSUME NEW w \in Workers, Shutdown(w) PROVE TypeOK'
  <2>1. budget' \in [EventKinds -> Nat]
    BY <1>9, SpendType DEF TypeOK, Shutdown, EventKinds
  <2>2. QED
    BY <1>9, <2>1 DEF TypeOK, Shutdown, Ids, redisVars, historyVars
<1>10. ASSUME NEW w \in Workers, MainStops(w) PROVE TypeOK'
  BY <1>10 DEF TypeOK, MainStops, Ids, redisVars, historyVars
<1>11. ASSUME NEW w \in Workers, SubscribeFails(w) PROVE TypeOK'
  <2>1. budget' \in [EventKinds -> Nat]
    BY <1>11, SpendType DEF TypeOK, SubscribeFails, EventKinds
  <2>2. QED
    BY <1>11, <2>1 DEF TypeOK, SubscribeFails, Ids, redisVars, historyVars
<1>12. ASSUME NEW w \in Workers, Crash(w) PROVE TypeOK'
  <2>1. budget' \in [EventKinds -> Nat]
    BY <1>12, SpendType DEF TypeOK, Crash, EventKinds
  <2>2. QED
    BY <1>12, <2>1 DEF TypeOK, Crash, Terminate, Ids, redisVars, historyVars
<1>13. ASSUME NEW w \in Workers, Exit(w) PROVE TypeOK'
  BY <1>13 DEF TypeOK, Exit, Terminate, Ids, redisVars, historyVars
<1>14. ASSUME NEW th \in Threads, NEW id \in batch[th], DropInvalid(th, id) PROVE TypeOK'
  BY <1>14, AckedType
  DEF TypeOK, DropInvalid, AfterMessage, Spend, Ids, historyVars
<1>15. ASSUME NEW th \in Threads, NEW id \in batch[th], BeginRetry(th, id) PROVE TypeOK'
  BY <1>15 DEF TypeOK, BeginRetry, Take, Ids, redisVars, historyVars
<1>16. ASSUME NEW th \in Threads, NEW id \in batch[th], BeginFirst(th, id) PROVE TypeOK'
  <2>1. id \in Ids /\ id # 0 /\ log[id].task \in Tasks
    BY EntryType DEF TypeOK, Ids
  <2>2. processed' \subseteq Tasks
    BY <1>16, <2>1 DEF TypeOK, BeginFirst, SetNX
  <2>3. starts' \in [Tasks -> Nat]
    BY <1>16, <2>1 DEF TypeOK, BeginFirst
  <2>4. /\ batch' \in [Threads -> SUBSET Ids]
        /\ cur' \in [Threads -> 0 .. Len(log)]
        /\ phase' \in [Threads -> {"down", "ready", "run", "xack", "xdel", "final"}]
        /\ \A a \in Threads : phase'[a] \in {"run", "xack", "xdel", "final"}
                                => cur'[a] # 0
        /\ verdict' \in [Threads -> {"none", "skip", "done", "retry", "dead"}]
    BY <1>16, <2>1 DEF TypeOK, BeginFirst, Take, Ids
  <2>5. QED
    BY <1>16, <2>2, <2>3, <2>4 DEF TypeOK, BeginFirst, Ids
<1>17. ASSUME NEW th \in Threads, NEW id \in batch[th], SkipProcessed(th, id) PROVE TypeOK'
  BY <1>17 DEF TypeOK, SkipProcessed, Take, Ids, redisVars, historyVars
<1>18. ASSUME NEW th \in Threads, NEW id \in batch[th], BeginFailOpen(th, id) PROVE TypeOK'
  <2>1. id \in Ids /\ id # 0 /\ log[id].task \in Tasks
    BY EntryType DEF TypeOK, Ids
  <2>2. budget' \in [EventKinds -> Nat] /\ processed' \subseteq Tasks
    BY <1>18, <2>1, SpendType DEF TypeOK, BeginFailOpen, EventKinds
  <2>3. starts' \in [Tasks -> Nat] /\ lapses' \in [Tasks -> Nat]
    BY <1>18, <2>1 DEF TypeOK, BeginFailOpen
  <2>4. /\ batch' \in [Threads -> SUBSET Ids]
        /\ cur' \in [Threads -> 0 .. Len(log)]
        /\ phase' \in [Threads -> {"down", "ready", "run", "xack", "xdel", "final"}]
        /\ \A a \in Threads : phase'[a] \in {"run", "xack", "xdel", "final"}
                                => cur'[a] # 0
        /\ verdict' \in [Threads -> {"none", "skip", "done", "retry", "dead"}]
    BY <1>18, <2>1 DEF TypeOK, BeginFailOpen, Take, Ids
  <2>5. QED
    BY <1>18, <2>2, <2>3, <2>4 DEF TypeOK, BeginFailOpen, Ids
<1>19. ASSUME NEW th \in Threads, Succeed(th) PROVE TypeOK'
  <2>1. cur[th] \in Ids /\ log[cur[th]].task \in Tasks
    BY <1>19, CurType, EntryType DEF Succeed
  <2>2. successes' \in [Tasks -> Nat]
    BY <1>19, <2>1 DEF TypeOK, Succeed
  <2>3. QED
    BY <1>19, <2>2 DEF TypeOK, Succeed, Ids, redisVars
<1>20. ASSUME NEW th \in Threads, Fail(th) PROVE TypeOK'
  BY <1>20 DEF TypeOK, Fail, Ids, redisVars, historyVars
<1>21. ASSUME NEW th \in Threads, XAck(th) PROVE TypeOK'
  BY <1>21, AckedType DEF TypeOK, XAck, Ids, historyVars
<1>22. ASSUME NEW th \in Threads, XDel(th) PROVE TypeOK'
  BY <1>22 DEF TypeOK, XDel, Ids, historyVars
<1>23. ASSUME NEW th \in Threads, CountCompleted(th) PROVE TypeOK'
  <2>1. counted' \subseteq Ids
    BY <1>23, CurType DEF TypeOK, CountCompleted
  <2>2. /\ cur' \in [Threads -> 0 .. Len(log)]
        /\ batch' \in [Threads -> SUBSET Ids]
        /\ phase' \in [Threads -> {"down", "ready", "run", "xack", "xdel", "final"}]
        /\ \A a \in Threads : phase'[a] \in {"run", "xack", "xdel", "final"}
                                => cur'[a] # 0
        /\ verdict' \in [Threads -> {"none", "skip", "done", "retry", "dead"}]
    BY <1>23 DEF TypeOK, CountCompleted, Release, AfterMessage, Ids
  <2>3. completed' \in Nat
    BY <1>23 DEF TypeOK, CountCompleted
  <2>4. QED
    BY <1>23, <2>1, <2>2, <2>3 DEF TypeOK, CountCompleted, Ids, historyVars
<1>24. ASSUME NEW th \in Threads, AddRetry(th) PROVE TypeOK'
  BY <1>24, CopyType DEF TypeOK, AddRetry, Release, AfterMessage, Ids, historyVars
<1>25. ASSUME NEW th \in Threads, AddDead(th) PROVE TypeOK'
  BY <1>25, CopyType DEF TypeOK, AddDead, Release, AfterMessage, Ids, historyVars
<1>26. ASSUME NEW th \in Threads, PipelineError(th) PROVE TypeOK'
  BY <1>26
  DEF TypeOK, PipelineError, Release, AfterMessage, Spend, Ids, redisVars, historyVars
<1>27. CASE UNCHANGED vars
  BY <1>27 DEF TypeOK, vars, redisVars, threadVars, historyVars, Ids
<1>28. QED
  BY <1>1, <1>2, <1>3, <1>4, <1>5, <1>6, <1>7, <1>8, <1>9, <1>10, <1>11,
     <1>12, <1>13, <1>14, <1>15, <1>16, <1>17, <1>18, <1>19, <1>20, <1>21,
     <1>22, <1>23, <1>24, <1>25, <1>26, <1>27
  DEF Next, Scheduler, Fetch, Process, ThreadStep, Begin, Pipeline

(* Every variable keeps its type, and every ID in use names an entry. *)
THEOREM TypeCorrect == Spec => []TypeOK
<1>1. QED
  BY TypeInit, TypeStep, PTL DEF Spec

-----------------------------------------------------------------------------
(* The idempotency key.  A task without its key has a run of its first      *)
(* attempt in hand: SET NX takes it, and only a lapse gives one back.       *)

FirstAttemptInv ==
    \A t \in Tasks :
        starts[t] + (IF t \in processed THEN 0 ELSE 1) <= 1 + lapses[t]

(* Every step keeps that account balanced. *)
LEMMA FirstAttemptStep ==
    ASSUME TypeOK, FirstAttemptInv, [Next]_vars
    PROVE  FirstAttemptInv'
<1>1. ASSUME NEW t \in Tasks, Enqueue(t) PROVE FirstAttemptInv'
  BY <1>1 DEF FirstAttemptInv, Enqueue, redisVars, historyVars
<1>2. ASSUME NEW t \in Tasks, ExpireProcessed(t) PROVE FirstAttemptInv'
  <2>1. /\ processed' = processed \ {t}
        /\ lapses' = [lapses EXCEPT ![t] = @ + 1]
        /\ starts' = starts
    BY <1>2 DEF ExpireProcessed
  <2>2. QED
    BY <2>1 DEF TypeOK, FirstAttemptInv
<1>3. ASSUME NEW t \in Tasks, EnqueueScheduled(t) PROVE FirstAttemptInv'
  BY <1>3 DEF FirstAttemptInv, EnqueueScheduled, redisVars, historyVars
<1>4. ASSUME NEW c \in retry, EnqueueRetry(c) PROVE FirstAttemptInv'
  BY <1>4 DEF FirstAttemptInv, EnqueueRetry, redisVars, historyVars
<1>5. ASSUME NEW w \in Workers, Consume(w) PROVE FirstAttemptInv'
  BY <1>5 DEF FirstAttemptInv, Consume, redisVars, historyVars
<1>6. ASSUME NEW w \in Workers, RecoverOwnPending(w) PROVE FirstAttemptInv'
  BY <1>6 DEF FirstAttemptInv, RecoverOwnPending, redisVars, historyVars
<1>7. ASSUME NEW w \in Workers, ClaimStale(w) PROVE FirstAttemptInv'
  BY <1>7 DEF FirstAttemptInv, ClaimStale, redisVars, historyVars
<1>8. ASSUME NEW w \in Workers, Start(w) PROVE FirstAttemptInv'
  BY <1>8 DEF FirstAttemptInv, Start, redisVars, historyVars
<1>9. ASSUME NEW w \in Workers, Shutdown(w) PROVE FirstAttemptInv'
  BY <1>9 DEF FirstAttemptInv, Shutdown, redisVars, historyVars
<1>10. ASSUME NEW w \in Workers, MainStops(w) PROVE FirstAttemptInv'
  BY <1>10 DEF FirstAttemptInv, MainStops, redisVars, historyVars
<1>11. ASSUME NEW w \in Workers, SubscribeFails(w) PROVE FirstAttemptInv'
  BY <1>11 DEF FirstAttemptInv, SubscribeFails, redisVars, historyVars
<1>12. ASSUME NEW w \in Workers, Crash(w) PROVE FirstAttemptInv'
  BY <1>12 DEF FirstAttemptInv, Crash, Terminate, redisVars, historyVars
<1>13. ASSUME NEW w \in Workers, Exit(w) PROVE FirstAttemptInv'
  BY <1>13 DEF FirstAttemptInv, Exit, Terminate, redisVars, historyVars
<1>14. ASSUME NEW th \in Threads, NEW id \in batch[th], DropInvalid(th, id) PROVE FirstAttemptInv'
  BY <1>14 DEF FirstAttemptInv, DropInvalid, redisVars, historyVars
<1>15. ASSUME NEW th \in Threads, NEW id \in batch[th], BeginRetry(th, id) PROVE FirstAttemptInv'
  BY <1>15 DEF FirstAttemptInv, BeginRetry, redisVars, historyVars
<1>16. ASSUME NEW th \in Threads, NEW id \in batch[th], BeginFirst(th, id) PROVE FirstAttemptInv'
  <2>1. log[id].task \in Tasks
    BY EntryType DEF TypeOK
  <2>2. /\ log[id].task \notin processed
        /\ processed' = processed \cup {log[id].task}
        /\ starts' = [starts EXCEPT ![log[id].task] = @ + 1]
        /\ lapses' = lapses
    BY <1>16 DEF BeginFirst, SetNX
  <2>3. QED
    BY <2>1, <2>2 DEF TypeOK, FirstAttemptInv
<1>17. ASSUME NEW th \in Threads, NEW id \in batch[th], SkipProcessed(th, id) PROVE FirstAttemptInv'
  BY <1>17 DEF FirstAttemptInv, SkipProcessed, redisVars, historyVars
<1>18. ASSUME NEW th \in Threads, NEW id \in batch[th], BeginFailOpen(th, id) PROVE FirstAttemptInv'
  <2>1. log[id].task \in Tasks
    BY EntryType DEF TypeOK
  <2>2. processed \subseteq processed'
    BY <1>18 DEF BeginFailOpen
  <2>3. /\ starts' = [starts EXCEPT ![log[id].task] = @ + 1]
        /\ lapses' = [lapses EXCEPT ![log[id].task] = @ + 1]
    BY <1>18 DEF BeginFailOpen
  <2>4. ASSUME NEW t \in Tasks
        PROVE  starts'[t] + (IF t \in processed' THEN 0 ELSE 1) <= 1 + lapses'[t]
    <3>1. starts[t] \in Nat /\ lapses[t] \in Nat
      BY DEF TypeOK
    <3>2. \/ starts'[t] = starts[t] /\ lapses'[t] = lapses[t]
          \/ starts'[t] = starts[t] + 1 /\ lapses'[t] = lapses[t] + 1
      BY <2>1, <2>3 DEF TypeOK
    <3>3. starts[t] + (IF t \in processed THEN 0 ELSE 1) <= 1 + lapses[t]
      BY DEF FirstAttemptInv
    <3>4. QED
      BY <2>2, <3>1, <3>2, <3>3
  <2>5. QED
    BY <2>4 DEF FirstAttemptInv
<1>19. ASSUME NEW th \in Threads, Succeed(th) PROVE FirstAttemptInv'
  BY <1>19 DEF FirstAttemptInv, Succeed, redisVars, historyVars
<1>20. ASSUME NEW th \in Threads, Fail(th) PROVE FirstAttemptInv'
  BY <1>20 DEF FirstAttemptInv, Fail, redisVars, historyVars
<1>21. ASSUME NEW th \in Threads, XAck(th) PROVE FirstAttemptInv'
  BY <1>21 DEF FirstAttemptInv, XAck, redisVars, historyVars
<1>22. ASSUME NEW th \in Threads, XDel(th) PROVE FirstAttemptInv'
  BY <1>22 DEF FirstAttemptInv, XDel, redisVars, historyVars
<1>23. ASSUME NEW th \in Threads, CountCompleted(th) PROVE FirstAttemptInv'
  BY <1>23 DEF FirstAttemptInv, CountCompleted, redisVars, historyVars
<1>24. ASSUME NEW th \in Threads, AddRetry(th) PROVE FirstAttemptInv'
  BY <1>24 DEF FirstAttemptInv, AddRetry, redisVars, historyVars
<1>25. ASSUME NEW th \in Threads, AddDead(th) PROVE FirstAttemptInv'
  BY <1>25 DEF FirstAttemptInv, AddDead, redisVars, historyVars
<1>26. ASSUME NEW th \in Threads, PipelineError(th) PROVE FirstAttemptInv'
  BY <1>26 DEF FirstAttemptInv, PipelineError, redisVars, historyVars
<1>27. CASE UNCHANGED vars
  BY <1>27 DEF FirstAttemptInv, vars, redisVars, threadVars, historyVars
<1>28. QED
  BY <1>1, <1>2, <1>3, <1>4, <1>5, <1>6, <1>7, <1>8, <1>9, <1>10, <1>11,
     <1>12, <1>13, <1>14, <1>15, <1>16, <1>17, <1>18, <1>19, <1>20, <1>21,
     <1>22, <1>23, <1>24, <1>25, <1>26, <1>27
  DEF Next, Scheduler, Fetch, Process, ThreadStep, Begin, Pipeline

(* SET NX lets the first attempt of a task run once, plus once for every    *)
(* check that failed open and every key that expired (processTask).         *)
THEOREM FirstAttemptRunsOnce == Spec => []FirstAttemptOnce
<1>1. Init => FirstAttemptInv
  BY DEF Init, FirstAttemptInv
<1>2. TypeOK /\ FirstAttemptInv => FirstAttemptOnce
  <2> SUFFICES ASSUME TypeOK, FirstAttemptInv, NEW t \in Tasks
               PROVE  starts[t] <= 1 + lapses[t]
    BY DEF FirstAttemptOnce
  <2>1. starts[t] \in Nat /\ lapses[t] \in Nat
    BY DEF TypeOK
  <2>2. starts[t] + 0 <= 1 + lapses[t] \/ starts[t] + 1 <= 1 + lapses[t]
    BY DEF FirstAttemptInv
  <2>3. QED
    BY <2>1, <2>2
<1>3. QED
  BY <1>1, <1>2, TypeCorrect, FirstAttemptStep, PTL DEF Spec

-----------------------------------------------------------------------------
(* Steps that give no goroutine new work: it keeps what it does, or it is   *)
(* done with it.                                                            *)

ThreadFrame ==
    \A u \in Threads :
        /\ batch'[u] \subseteq batch[u]
        /\ \/ UNCHANGED <<phase[u], cur[u], verdict[u]>>
           \/ phase'[u] \in {"down", "ready"} /\ UNCHANGED <<cur[u], verdict[u]>>
           \/ phase'[u] \in {"down", "ready"} /\ cur'[u] = 0 /\ verdict'[u] = "none"

(* The steps of a process: starting, stopping, failing, ending. *)
LEMMA ProcessFrame ==
    ASSUME TypeOK, NEW w \in Workers, Process(w)
    PROVE  UNCHANGED redisVars /\ ThreadFrame
<1>1. CASE Start(w) \/ Shutdown(w) \/ SubscribeFails(w)
  <2>1. UNCHANGED <<batch, cur, verdict>> /\ UNCHANGED redisVars
    BY <1>1 DEF Start, Shutdown, SubscribeFails
  <2>2. \A u \in Threads : phase'[u] \in {phase[u], "down", "ready"}
    BY <1>1 DEF Start, Shutdown, SubscribeFails
  <2>3. QED
    BY <2>1, <2>2 DEF ThreadFrame
<1>2. CASE MainStops(w)
  BY <1>2 DEF TypeOK, MainStops, ThreadFrame
<1>3. CASE Crash(w) \/ Exit(w)
  <2>1. Terminate(w)
    BY <1>3 DEF Crash, Exit
  <2>2. QED
    BY <2>1 DEF Terminate, ThreadFrame
<1>4. QED
  BY <1>1, <1>2, <1>3 DEF Process

(* The end of a pipeline. *)
LEMMA ReleaseFrame ==
    ASSUME TypeOK, NEW th \in Threads, Release(th)
    PROVE  ThreadFrame
<1>1. AfterMessage(th, batch[th]) \in {"down", "ready"}
  BY DEF AfterMessage
<1>2. QED
  BY <1>1 DEF TypeOK, Release, ThreadFrame

-----------------------------------------------------------------------------
(* Bounded attempts.  A verdict remembers the comparison handleFailure made *)
(* until the pipeline stores the copy.                                      *)

VerdictsBounded ==
    \A th \in Threads :
        /\ verdict[th] = "retry" => cur[th] \in Ids /\ log[cur[th]].rc + 1 < MaxRetry
        /\ verdict[th] = "dead"  => cur[th] \in Ids /\ log[cur[th]].rc + 1 = MaxRetry

AttemptInv == AttemptsBounded /\ VerdictsBounded

(* An entry with attempts left may be added to the stream. *)
LEMMA AttemptXAdd ==
    ASSUME TypeOK, AttemptInv,
           NEW t \in Tasks, NEW rc \in Nat, NEW ok \in BOOLEAN, rc < MaxRetry,
           XAdd(t, rc, ok), retry' \subseteq retry, UNCHANGED <<dlq, cur, verdict>>
    PROVE  AttemptInv'
<1> log \in Seq(Entry) /\ stream \subseteq Ids
  BY DEF TypeOK
<1>1. /\ Ids' = Ids \cup {Len(log) + 1}
      /\ \A id \in Ids : log'[id] = log[id]
      /\ log'[Len(log) + 1] = [task |-> t, rc |-> rc, ok |-> ok]
  BY XAddType
<1>2. AttemptsBounded'
  <2>1. ASSUME NEW id \in Ids' PROVE log'[id].rc < MaxRetry
    BY <1>1, <2>1 DEF AttemptInv, AttemptsBounded
  <2>2. QED
    BY <2>1 DEF AttemptInv, AttemptsBounded
<1>3. VerdictsBounded'
  BY <1>1 DEF AttemptInv, VerdictsBounded
<1>4. QED
  BY <1>2, <1>3 DEF AttemptInv

(* A step that stores no copy and gives no verdict keeps them bounded. *)
LEMMA AttemptFrame ==
    ASSUME AttemptInv, UNCHANGED <<log, retry, dlq>>,
           \A u \in Threads : \/ UNCHANGED <<cur[u], verdict[u]>>
                              \/ verdict'[u] \notin {"retry", "dead"}
    PROVE  AttemptInv'
BY DEF AttemptInv, AttemptsBounded, VerdictsBounded, Ids

(* Every step keeps the attempts bounded. *)
LEMMA AttemptStep ==
    ASSUME TypeOK, AttemptInv, [Next]_vars
    PROVE  AttemptInv'
<1>1. ASSUME NEW t \in Tasks, Enqueue(t) PROVE AttemptInv'
  <2>1. CASE XAdd(t, 0, TRUE)
    <3>1. UNCHANGED <<retry, dlq, cur, verdict>>
      BY <1>1 DEF Enqueue, threadVars
    <3>2. 0 < MaxRetry
      BY ConstantsAssumption
    <3>3. QED
      BY <2>1, <3>1, <3>2, AttemptXAdd
  <2>2. CASE UNCHANGED <<log, stream>>
    BY <1>1, <2>2 DEF AttemptInv, AttemptsBounded, VerdictsBounded, Ids, Enqueue, threadVars
  <2>3. QED
    BY <1>1, <2>1, <2>2 DEF Enqueue
<1>2. ASSUME NEW t \in Tasks, ExpireProcessed(t) PROVE AttemptInv'
  BY <1>2, AttemptFrame DEF ExpireProcessed, threadVars
<1>3. ASSUME NEW t \in Tasks, EnqueueScheduled(t) PROVE AttemptInv'
  <2>1. UNCHANGED <<retry, dlq, cur, verdict>>
    BY <1>3 DEF EnqueueScheduled, threadVars
  <2>2. XAdd(t, 0, t \notin Undecodable)
    BY <1>3 DEF EnqueueScheduled
  <2>3. 0 < MaxRetry /\ (t \notin Undecodable) \in BOOLEAN
    BY ConstantsAssumption
  <2>4. QED
    BY <2>1, <2>2, <2>3, AttemptXAdd
<1>4. ASSUME NEW c \in retry, EnqueueRetry(c) PROVE AttemptInv'
  <2>1. c.task \in Tasks /\ c.rc \in Nat /\ c.rc < MaxRetry
    BY ConstantsAssumption DEF TypeOK, RetryCopy, AttemptInv, AttemptsBounded
  <2>2. retry' \subseteq retry /\ UNCHANGED <<dlq, cur, verdict>>
    BY <1>4 DEF EnqueueRetry, threadVars
  <2>3. XAdd(c.task, c.rc, c.task \notin Undecodable)
    BY <1>4 DEF EnqueueRetry
  <2>4. QED
    BY <2>1, <2>2, <2>3, AttemptXAdd
<1>5. ASSUME NEW w \in Workers, Consume(w) PROVE AttemptInv'
  BY <1>5, AttemptFrame DEF Consume
<1>6. ASSUME NEW w \in Workers, RecoverOwnPending(w) PROVE AttemptInv'
  BY <1>6, AttemptFrame DEF RecoverOwnPending, redisVars
<1>7. ASSUME NEW w \in Workers, ClaimStale(w) PROVE AttemptInv'
  BY <1>7, AttemptFrame DEF ClaimStale
<1>8. ASSUME NEW w \in Workers, Start(w) PROVE AttemptInv'
  BY <1>8, ProcessFrame, AttemptFrame DEF Process, ThreadFrame, redisVars
<1>9. ASSUME NEW w \in Workers, Shutdown(w) PROVE AttemptInv'
  BY <1>9, ProcessFrame, AttemptFrame DEF Process, ThreadFrame, redisVars
<1>10. ASSUME NEW w \in Workers, MainStops(w) PROVE AttemptInv'
  BY <1>10, ProcessFrame, AttemptFrame DEF Process, ThreadFrame, redisVars
<1>11. ASSUME NEW w \in Workers, SubscribeFails(w) PROVE AttemptInv'
  BY <1>11, ProcessFrame, AttemptFrame DEF Process, ThreadFrame, redisVars
<1>12. ASSUME NEW w \in Workers, Crash(w) PROVE AttemptInv'
  BY <1>12, ProcessFrame, AttemptFrame DEF Process, ThreadFrame, redisVars
<1>13. ASSUME NEW w \in Workers, Exit(w) PROVE AttemptInv'
  BY <1>13, ProcessFrame, AttemptFrame DEF Process, ThreadFrame, redisVars
<1>14. ASSUME NEW th \in Threads, NEW id \in batch[th], DropInvalid(th, id) PROVE AttemptInv'
  BY <1>14, AttemptFrame DEF DropInvalid
<1>15. ASSUME NEW th \in Threads, NEW id \in batch[th], BeginRetry(th, id) PROVE AttemptInv'
  <2>1. verdict' = [verdict EXCEPT ![th] = "none"] /\ cur' = [cur EXCEPT ![th] = id]
    BY <1>15 DEF BeginRetry, Take
  <2>2. UNCHANGED <<log, retry, dlq>>
    BY <1>15 DEF BeginRetry, redisVars
  <2>3. QED
    BY <2>1, <2>2, AttemptFrame DEF TypeOK
<1>16. ASSUME NEW th \in Threads, NEW id \in batch[th], BeginFirst(th, id) PROVE AttemptInv'
  <2>1. verdict' = [verdict EXCEPT ![th] = "none"] /\ cur' = [cur EXCEPT ![th] = id]
    BY <1>16 DEF BeginFirst, Take
  <2>2. UNCHANGED <<log, retry, dlq>>
    BY <1>16 DEF BeginFirst, redisVars
  <2>3. QED
    BY <2>1, <2>2, AttemptFrame DEF TypeOK
<1>17. ASSUME NEW th \in Threads, NEW id \in batch[th], SkipProcessed(th, id) PROVE AttemptInv'
  <2>1. verdict' = [verdict EXCEPT ![th] = "skip"] /\ cur' = [cur EXCEPT ![th] = id]
    BY <1>17 DEF SkipProcessed, Take
  <2>2. UNCHANGED <<log, retry, dlq>>
    BY <1>17 DEF SkipProcessed, redisVars
  <2>3. QED
    BY <2>1, <2>2, AttemptFrame DEF TypeOK
<1>18. ASSUME NEW th \in Threads, NEW id \in batch[th], BeginFailOpen(th, id) PROVE AttemptInv'
  <2>1. verdict' = [verdict EXCEPT ![th] = "none"] /\ cur' = [cur EXCEPT ![th] = id]
    BY <1>18 DEF BeginFailOpen, Take
  <2>2. UNCHANGED <<log, retry, dlq>>
    BY <1>18 DEF BeginFailOpen, redisVars
  <2>3. QED
    BY <2>1, <2>2, AttemptFrame DEF TypeOK
<1>19. ASSUME NEW th \in Threads, Succeed(th) PROVE AttemptInv'
  <2>1. /\ verdict' = [verdict EXCEPT ![th] = "done"]
        /\ UNCHANGED <<log, retry, dlq, cur>>
    BY <1>19 DEF Succeed, redisVars
  <2>2. QED
    BY <2>1, AttemptFrame DEF TypeOK
<1>20. ASSUME NEW th \in Threads, Fail(th) PROVE AttemptInv'
  <2>1. cur[th] \in Ids /\ log[cur[th]].rc \in Nat
    BY <1>20, CurType, EntryType DEF Fail
  <2>2. log[cur[th]].rc < MaxRetry
    BY <2>1 DEF AttemptInv, AttemptsBounded
  <2>3. VerdictsBounded'
    BY <1>20, <2>1, <2>2, ConstantsAssumption
    DEF TypeOK, AttemptInv, VerdictsBounded, Ids, Fail, Exhausted, redisVars
  <2>4. QED
    BY <1>20, <2>3 DEF AttemptInv, AttemptsBounded, Ids, Fail, redisVars
<1>21. ASSUME NEW th \in Threads, XAck(th) PROVE AttemptInv'
  BY <1>21, AttemptFrame DEF XAck, threadVars
<1>22. ASSUME NEW th \in Threads, XDel(th) PROVE AttemptInv'
  BY <1>22, AttemptFrame DEF XDel, threadVars
<1>23. ASSUME NEW th \in Threads, CountCompleted(th) PROVE AttemptInv'
  <2>1. Release(th) /\ UNCHANGED <<log, retry, dlq>>
    BY <1>23 DEF CountCompleted, redisVars
  <2>2. QED
    BY <2>1, ReleaseFrame, AttemptFrame DEF ThreadFrame
<1>24. ASSUME NEW th \in Threads, AddRetry(th) PROVE AttemptInv'
  <2>1. cur[th] \in Ids /\ log[cur[th]].rc \in Nat
    BY <1>24, CurType, EntryType DEF AddRetry
  <2>2. Copy(th).rc \in 1 .. MaxRetry - 1
    BY <1>24, <2>1, ConstantsAssumption DEF AddRetry, AttemptInv, VerdictsBounded, Copy
  <2>3. AttemptsBounded'
    BY <1>24, <2>2 DEF AttemptInv, AttemptsBounded, Ids, AddRetry
  <2>4. VerdictsBounded'
    BY <1>24 DEF TypeOK, AttemptInv, VerdictsBounded, Ids, AddRetry, Release
  <2>5. QED
    BY <2>3, <2>4 DEF AttemptInv
<1>25. ASSUME NEW th \in Threads, AddDead(th) PROVE AttemptInv'
  <2>1. cur[th] \in Ids /\ log[cur[th]].rc \in Nat
    BY <1>25, CurType, EntryType DEF AddDead
  <2>2. Copy(th).rc = MaxRetry
    BY <1>25, <2>1, ConstantsAssumption DEF AddDead, AttemptInv, VerdictsBounded, Copy
  <2>3. AttemptsBounded'
    BY <1>25, <2>2 DEF AttemptInv, AttemptsBounded, Ids, AddDead
  <2>4. VerdictsBounded'
    BY <1>25 DEF TypeOK, AttemptInv, VerdictsBounded, Ids, AddDead, Release
  <2>5. QED
    BY <2>3, <2>4 DEF AttemptInv
<1>26. ASSUME NEW th \in Threads, PipelineError(th) PROVE AttemptInv'
  <2>1. Release(th) /\ UNCHANGED <<log, retry, dlq>>
    BY <1>26 DEF PipelineError, redisVars
  <2>2. QED
    BY <2>1, ReleaseFrame, AttemptFrame DEF ThreadFrame
<1>27. CASE UNCHANGED vars
  BY <1>27, AttemptFrame DEF vars, redisVars, threadVars
<1>28. QED
  BY <1>1, <1>2, <1>3, <1>4, <1>5, <1>6, <1>7, <1>8, <1>9, <1>10, <1>11,
     <1>12, <1>13, <1>14, <1>15, <1>16, <1>17, <1>18, <1>19, <1>20, <1>21,
     <1>22, <1>23, <1>24, <1>25, <1>26, <1>27
  DEF Next, Scheduler, Fetch, Process, ThreadStep, Begin, Pipeline

(* Nothing that waits, runs or is dead was attempted more than MaxRetry     *)
(* times, and what is dead exactly that often (handleFailure).              *)
THEOREM AttemptsStayBounded == Spec => []AttemptsBounded
<1>1. Init => AttemptInv
  BY DEF Init, AttemptInv, AttemptsBounded, VerdictsBounded, Ids
<1>2. AttemptInv => AttemptsBounded
  BY DEF AttemptInv
<1>3. QED
  BY <1>1, <1>2, TypeCorrect, AttemptStep, PTL DEF Spec

-----------------------------------------------------------------------------
(* The stream and the pending entries lists.                                *)

StreamInv ==
    /\ PendingInStream
    /\ \A id \in Ids : ~Delivered(id) => id \in stream
    /\ \A th \in Threads : \A id \in batch[th] : Delivered(id)
    /\ \A th \in Threads : Delivered(cur[th])
    /\ \A th \in Threads : phase[th] = "xdel" => cur[th] \notin Pending

(* Message IDs, and the counters that range over them, are numbers. *)
LEMMA NumberTypes ==
    ASSUME TypeOK
    PROVE  /\ Len(log) \in Nat
           /\ lastDelivered \in Nat
           /\ Ids \subseteq Nat \ {0}
           /\ Pending \subseteq Ids
           /\ Undelivered \subseteq Ids
           /\ \A th \in Threads : batch[th] \subseteq Ids /\ cur[th] \in Nat
<1>1. Len(log) \in Nat
  BY DEF TypeOK
<1>2. lastDelivered \in Nat
  BY <1>1 DEF TypeOK
<1>3. Ids \subseteq Nat \ {0}
  BY <1>1 DEF Ids
<1>4. Pending \subseteq Ids /\ Undelivered \subseteq Ids
  BY DEF TypeOK, Pending, Undelivered
<1>5. \A th \in Threads : batch[th] \subseteq Ids /\ cur[th] \in 0 .. Len(log)
  BY DEF TypeOK
<1>6. QED
  BY <1>1, <1>2, <1>3, <1>4, <1>5

(* A batch of the oldest elements of a set leaves out nothing older than    *)
(* one of its members.                                                      *)
LEMMA FirstOfDownClosed ==
    ASSUME TypeOK, NEW S \in SUBSET Ids,
           NEW i \in S, NEW j \in FirstOf(S), i <= j
    PROVE  i \in FirstOf(S)
<1> DEFINE Bi == {k \in S : k < i}
           Bj == {k \in S : k < j}
<1>1. S \subseteq Nat /\ j \in S /\ i \in Nat /\ j \in Nat
  BY NumberTypes DEF FirstOf
<1>2. Bi \subseteq Bj
  <2>1. \A k \in S : k < i => k < j
    BY <1>1
  <2>2. QED
    BY <2>1
<1>3. IsFiniteSet(Bj)
  <2>1. IsFiniteSet(1 .. Len(log))
    BY NumberTypes, FS_Interval
  <2>2. Bj \in SUBSET (1 .. Len(log))
    BY DEF Ids
  <2>3. QED
    BY <2>1, <2>2, FS_Subset
<1>4. Cardinality(Bj) < BatchSize
  BY DEF FirstOf
<1>5. Cardinality(Bi) < BatchSize
  <2> HIDE DEF Bi, Bj
  <2>1. IsFiniteSet(Bi) /\ Cardinality(Bi) <= Cardinality(Bj)
    BY <1>2, <1>3, FS_Subset, Zenon
  <2>2. Cardinality(Bi) \in Nat /\ Cardinality(Bj) \in Nat
    BY <1>3, <2>1, FS_CardinalityType
  <2>3. QED
    BY <1>4, <2>1, <2>2, ConstantsAssumption
<1>6. QED
  BY <1>5 DEF FirstOf

(* What XREADGROUP delivers is everything undelivered up to its last ID.    *)
LEMMA ConsumeDelivers ==
    ASSUME TypeOK, NEW w \in Workers, Consume(w)
    PROVE  /\ lastDelivered < lastDelivered'
           /\ lastDelivered' \in Ids
           /\ Pending' = Pending \cup {id \in Undelivered : id <= lastDelivered'}
           /\ UNCHANGED <<log, stream>>
<1> DEFINE got == FirstOf(Undelivered)
<1>1. /\ got \subseteq Undelivered
      /\ lastDelivered' \in got
      /\ \A id \in got : id <= lastDelivered'
      /\ pel' = [pel EXCEPT ![w] = @ \cup got]
      /\ UNCHANGED <<log, stream>>
  BY FirstOfSubset DEF Consume
<1>2. Pending' = Pending \cup got
  BY <1>1 DEF TypeOK, Pending
<1>3. \A id \in Undelivered : id <= lastDelivered' => id \in got
  BY <1>1, NumberTypes, FirstOfDownClosed
<1>4. got = {id \in Undelivered : id <= lastDelivered'}
  BY <1>1, <1>3
<1>5. lastDelivered' \in Undelivered /\ Undelivered \subseteq Ids
  BY <1>1, NumberTypes
<1>6. lastDelivered < lastDelivered'
  BY <1>5 DEF Undelivered
<1>7. QED
  BY <1>1, <1>2, <1>4, <1>5, <1>6

(* A new entry is undelivered, in the stream and in nobody's hands. *)
LEMMA StreamXAdd ==
    ASSUME TypeOK, StreamInv,
           NEW t \in Tasks, NEW rc \in Nat, NEW ok \in BOOLEAN, XAdd(t, rc, ok),
           UNCHANGED <<lastDelivered, pel, batch, cur, phase>>
    PROVE  StreamInv'
<1>1. Ids' = Ids \cup {Len(log) + 1}
  <2>1. log \in Seq(Entry) /\ stream \subseteq Ids
    BY DEF TypeOK
  <2>2. QED
    BY <2>1, XAddType
<1>2. stream' = stream \cup {Len(log) + 1}
  BY DEF XAdd
<1>3. QED
  BY <1>1, <1>2 DEF StreamInv, PendingInStream, Pending, Delivered

(* A step that leaves Redis alone, and whose goroutines work on what they   *)
(* held already, keeps the stream and the lists consistent.                 *)
LEMMA StreamFrame ==
    ASSUME TypeOK, StreamInv, UNCHANGED <<log, stream, lastDelivered, pel>>,
           \A u \in Threads :
               /\ batch'[u] \subseteq batch[u]
               /\ cur'[u] \in batch[u] \cup {cur[u], 0}
               /\ phase'[u] = "xdel" => phase[u] = "xdel" /\ cur'[u] = cur[u]
    PROVE  StreamInv'
<1>1. UNCHANGED <<Ids, Pending>> /\ \A i : Delivered(i)' <=> Delivered(i)
  BY DEF Ids, Pending, Delivered
<1>2. Delivered(0)
  BY NumberTypes DEF Delivered
<1>3. QED
  BY <1>1, <1>2 DEF StreamInv, PendingInStream

(* A goroutine that takes a message of its batch changes nothing else here. *)
LEMMA StreamTake ==
    ASSUME TypeOK, StreamInv,
           NEW th \in Threads, NEW id \in batch[th],
           NEW where \in {"run", "xack"}, NEW v, Take(th, id, where, v),
           UNCHANGED <<log, stream, lastDelivered, pel>>
    PROVE  StreamInv'
<1>1. /\ batch' = [batch EXCEPT ![th] = @ \ {id}]
      /\ cur' = [cur EXCEPT ![th] = id]
      /\ phase' = [phase EXCEPT ![th] = where]
  BY DEF Take
<1>2. QED
  BY <1>1, StreamFrame DEF TypeOK

(* Every step keeps the stream and the lists consistent. *)
LEMMA StreamStep ==
    ASSUME TypeOK, StreamInv, [Next]_vars
    PROVE  StreamInv'
<1>1. ASSUME NEW t \in Tasks, Enqueue(t) PROVE StreamInv'
  <2>1. UNCHANGED <<lastDelivered, pel, batch, cur, phase>>
    BY <1>1 DEF Enqueue, threadVars
  <2>2. CASE XAdd(t, 0, TRUE)
    BY <2>1, <2>2, StreamXAdd
  <2>3. CASE UNCHANGED <<log, stream>>
    BY <2>1, <2>3 DEF StreamInv, PendingInStream, Pending, Delivered, Ids
  <2>4. QED
    BY <1>1, <2>2, <2>3 DEF Enqueue
<1>2. ASSUME NEW t \in Tasks, ExpireProcessed(t) PROVE StreamInv'
  BY <1>2, StreamFrame DEF ExpireProcessed, threadVars
<1>3. ASSUME NEW t \in Tasks, EnqueueScheduled(t) PROVE StreamInv'
  <2>1. UNCHANGED <<lastDelivered, pel, batch, cur, phase>>
    BY <1>3 DEF EnqueueScheduled, threadVars
  <2>2. XAdd(t, 0, t \notin Undecodable) /\ (t \notin Undecodable) \in BOOLEAN
    BY <1>3 DEF EnqueueScheduled
  <2>3. QED
    BY <2>1, <2>2, StreamXAdd
<1>4. ASSUME NEW c \in retry, EnqueueRetry(c) PROVE StreamInv'
  <2>1. UNCHANGED <<lastDelivered, pel, batch, cur, phase>>
    BY <1>4 DEF EnqueueRetry, threadVars
  <2>2. c.task \in Tasks /\ c.rc \in Nat
    BY DEF TypeOK, RetryCopy
  <2>3. XAdd(c.task, c.rc, c.task \notin Undecodable)
    BY <1>4 DEF EnqueueRetry
  <2>4. QED
    BY <2>1, <2>2, <2>3, StreamXAdd
<1>5. ASSUME NEW w \in Workers, Consume(w) PROVE StreamInv'
  <2> DEFINE got == FirstOf(Undelivered)
  <2>1. /\ got \subseteq Undelivered
        /\ lastDelivered' \in got
        /\ \A id \in got : id <= lastDelivered'
        /\ pel' = [pel EXCEPT ![w] = @ \cup got]
        /\ UNCHANGED <<log, stream, cur>>
    BY <1>5, FirstOfSubset DEF Consume
  <2>2. lastDelivered \in Nat /\ lastDelivered' \in Nat /\ lastDelivered < lastDelivered'
    BY <2>1, NumberTypes DEF Undelivered
  <2>3. Pending' = Pending \cup got
    BY <2>1 DEF TypeOK, Pending
  <2>4. PendingInStream'
    <3>1. ASSUME NEW id \in Pending PROVE id \in stream /\ id <= lastDelivered'
      BY <2>2, NumberTypes DEF StreamInv, PendingInStream, Delivered
    <3>2. ASSUME NEW id \in got PROVE id \in stream /\ id <= lastDelivered'
      BY <2>1 DEF Undelivered
    <3>3. QED
      BY <2>1, <2>3, <3>1, <3>2 DEF PendingInStream, Delivered
  <2>5. \A id \in Ids' : ~Delivered(id)' => id \in stream'
    BY <2>1, <2>2 DEF TypeOK, StreamInv, Delivered, Ids
  <2>6. batch' = [batch EXCEPT ![Main(w)] = got] \/ batch' = batch
    BY <1>5 DEF Consume, Deliver
  <2>7. \A th \in Threads : \A id \in batch'[th] : Delivered(id)'
    <3>1. ASSUME NEW th \in Threads, NEW id \in batch[th] PROVE id <= lastDelivered'
      BY <2>2, NumberTypes DEF StreamInv, Delivered
    <3>2. QED
      BY <2>1, <2>6, <3>1 DEF TypeOK, Delivered
  <2>8. \A th \in Threads : Delivered(cur[th])'
    BY <2>1, <2>2 DEF TypeOK, StreamInv, Delivered, Ids
  <2>9. \A th \in Threads : phase'[th] \in {"xdel"} => phase[th] = "xdel"
    BY <1>5 DEF TypeOK, Consume, Deliver
  <2>10. \A th \in Threads : phase'[th] = "xdel" => cur'[th] \notin Pending'
    <3>1. \A id \in got : id > lastDelivered
      BY <2>1 DEF Undelivered
    <3>2. ASSUME NEW th \in Threads PROVE cur[th] \notin got
      BY <2>2, <3>1, NumberTypes DEF StreamInv, Delivered
    <3>3. QED
      BY <2>1, <2>3, <2>9, <3>2 DEF StreamInv
  <2>11. QED
    BY <2>4, <2>5, <2>7, <2>8, <2>10 DEF StreamInv
<1>6. ASSUME NEW w \in Workers, RecoverOwnPending(w) PROVE StreamInv'
  <2>1. /\ UNCHANGED <<log, stream, lastDelivered, pel, cur, phase>>
        /\ batch' = batch \/ batch' = [batch EXCEPT ![Main(w)] = FirstOf(pel[w])]
    BY <1>6 DEF RecoverOwnPending, redisVars
  <2>2. FirstOf(pel[w]) \subseteq Pending
    BY FirstOfSubset DEF Pending
  <2>3. \A th \in Threads : \A id \in batch'[th] : Delivered(id)
    BY <2>1, <2>2 DEF TypeOK, StreamInv, PendingInStream
  <2>4. QED
    BY <2>1, <2>3 DEF StreamInv, PendingInStream, Pending, Delivered, Ids
<1>7. ASSUME NEW w \in Workers, ClaimStale(w) PROVE StreamInv'
  <2> DEFINE got == FirstOf({id \in Pending : Stale(id)})
  <2>1. /\ got \subseteq Pending
        /\ UNCHANGED <<log, stream, lastDelivered, cur>>
        /\ pel' = [v \in Workers |-> IF v = w THEN pel[v] \cup got ELSE pel[v] \ got]
        /\ batch' = [batch EXCEPT ![Claimer(w)] = got] \/ batch' = batch
    BY <1>7, FirstOfSubset DEF ClaimStale, Deliver
  <2>2. Pending' \subseteq Pending
    BY <2>1 DEF Pending
  <2>3. \A th \in Threads : \A id \in batch'[th] : Delivered(id)
    BY <2>1 DEF TypeOK, StreamInv, PendingInStream
  <2>4. \A th \in Threads : phase'[th] = "xdel" => phase[th] = "xdel"
    BY <1>7 DEF TypeOK, ClaimStale, Deliver
  <2>5. QED
    BY <2>1, <2>2, <2>3, <2>4 DEF StreamInv, PendingInStream, Delivered, Ids
<1>8. ASSUME NEW w \in Workers, Start(w) PROVE StreamInv'
  BY <1>8, ProcessFrame, StreamFrame DEF Process, ThreadFrame, redisVars
<1>9. ASSUME NEW w \in Workers, Shutdown(w) PROVE StreamInv'
  BY <1>9, ProcessFrame, StreamFrame DEF Process, ThreadFrame, redisVars
<1>10. ASSUME NEW w \in Workers, MainStops(w) PROVE StreamInv'
  BY <1>10, ProcessFrame, StreamFrame DEF Process, ThreadFrame, redisVars
<1>11. ASSUME NEW w \in Workers, SubscribeFails(w) PROVE StreamInv'
  BY <1>11, ProcessFrame, StreamFrame DEF Process, ThreadFrame, redisVars
<1>12. ASSUME NEW w \in Workers, Crash(w) PROVE StreamInv'
  BY <1>12, ProcessFrame, StreamFrame DEF Process, ThreadFrame, redisVars
<1>13. ASSUME NEW w \in Workers, Exit(w) PROVE StreamInv'
  BY <1>13, ProcessFrame, StreamFrame DEF Process, ThreadFrame, redisVars
<1>14. ASSUME NEW th \in Threads, NEW id \in batch[th], DropInvalid(th, id) PROVE StreamInv'
  <2>1. /\ UNCHANGED <<log, stream, lastDelivered, cur>>
        /\ batch' = [batch EXCEPT ![th] = @ \ {id}]
        /\ pel' = Acked(id) \/ pel' = pel
    BY <1>14 DEF DropInvalid
  <2>2. Pending' \subseteq Pending
    BY <2>1 DEF Pending, Acked
  <2>3. \A a \in Threads : phase'[a] = "xdel" => phase[a] = "xdel"
    BY <1>14 DEF TypeOK, DropInvalid, AfterMessage
  <2>4. QED
    BY <2>1, <2>2, <2>3 DEF TypeOK, StreamInv, PendingInStream, Delivered, Ids
<1>15. ASSUME NEW th \in Threads, NEW id \in batch[th], BeginRetry(th, id) PROVE StreamInv'
  BY <1>15, StreamTake DEF BeginRetry, redisVars
<1>16. ASSUME NEW th \in Threads, NEW id \in batch[th], BeginFirst(th, id) PROVE StreamInv'
  BY <1>16, StreamTake DEF BeginFirst, redisVars
<1>17. ASSUME NEW th \in Threads, NEW id \in batch[th], SkipProcessed(th, id) PROVE StreamInv'
  BY <1>17, StreamTake DEF SkipProcessed, redisVars
<1>18. ASSUME NEW th \in Threads, NEW id \in batch[th], BeginFailOpen(th, id) PROVE StreamInv'
  BY <1>18, StreamTake DEF BeginFailOpen, redisVars
<1>19. ASSUME NEW th \in Threads, Succeed(th) PROVE StreamInv'
  <2>1. /\ phase' = [phase EXCEPT ![th] = "xack"]
        /\ UNCHANGED <<log, stream, lastDelivered, pel, batch, cur>>
    BY <1>19 DEF Succeed, redisVars
  <2>2. QED
    BY <2>1, StreamFrame DEF TypeOK
<1>20. ASSUME NEW th \in Threads, Fail(th) PROVE StreamInv'
  <2>1. /\ phase' = [phase EXCEPT ![th] = "xack"]
        /\ UNCHANGED <<log, stream, lastDelivered, pel, batch, cur>>
    BY <1>20 DEF Fail, redisVars
  <2>2. QED
    BY <2>1, StreamFrame DEF TypeOK
<1>21. ASSUME NEW th \in Threads, XAck(th) PROVE StreamInv'
  <2>1. /\ UNCHANGED <<log, stream, lastDelivered, cur, batch>>
        /\ phase' = [phase EXCEPT ![th] = "xdel"]
        /\ pel' = Acked(cur[th])
    BY <1>21 DEF XAck
  <2>2. Pending' \subseteq Pending /\ cur[th] \notin Pending'
    BY <2>1 DEF Pending, Acked
  <2>3. QED
    BY <2>1, <2>2 DEF TypeOK, StreamInv, PendingInStream, Delivered, Ids
<1>22. ASSUME NEW th \in Threads, XDel(th) PROVE StreamInv'
  <2>1. /\ UNCHANGED <<log, lastDelivered, pel, batch, cur>>
        /\ stream' = stream \ {cur[th]}
        /\ phase' = [phase EXCEPT ![th] = "final"]
        /\ phase[th] = "xdel"
    BY <1>22 DEF XDel
  <2>2. Delivered(cur[th]) /\ cur[th] \notin Pending
    BY <2>1 DEF StreamInv
  <2>3. UNCHANGED <<Ids, Pending>> /\ \A i : Delivered(i)' <=> Delivered(i)
    BY <2>1 DEF Ids, Pending, Delivered
  <2>4. \A u \in Threads : phase'[u] = "xdel" => phase[u] = "xdel"
    BY <2>1 DEF TypeOK
  <2>5. QED
    BY <2>1, <2>2, <2>3, <2>4 DEF StreamInv, PendingInStream
<1>23. ASSUME NEW th \in Threads, CountCompleted(th) PROVE StreamInv'
  <2>1. Release(th) /\ UNCHANGED <<log, stream, lastDelivered, pel>>
    BY <1>23 DEF CountCompleted, redisVars
  <2>2. QED
    BY <2>1, ReleaseFrame, StreamFrame DEF ThreadFrame
<1>24. ASSUME NEW th \in Threads, AddRetry(th) PROVE StreamInv'
  <2>1. Release(th) /\ UNCHANGED <<log, stream, lastDelivered, pel>>
    BY <1>24 DEF AddRetry, redisVars
  <2>2. QED
    BY <2>1, ReleaseFrame, StreamFrame DEF ThreadFrame
<1>25. ASSUME NEW th \in Threads, AddDead(th) PROVE StreamInv'
  <2>1. Release(th) /\ UNCHANGED <<log, stream, lastDelivered, pel>>
    BY <1>25 DEF AddDead, redisVars
  <2>2. QED
    BY <2>1, ReleaseFrame, StreamFrame DEF ThreadFrame
<1>26. ASSUME NEW th \in Threads, PipelineError(th) PROVE StreamInv'
  <2>1. Release(th) /\ UNCHANGED <<log, stream, lastDelivered, pel>>
    BY <1>26 DEF PipelineError, redisVars
  <2>2. QED
    BY <2>1, ReleaseFrame, StreamFrame DEF ThreadFrame
<1>27. CASE UNCHANGED vars
  BY <1>27, StreamFrame DEF vars, redisVars, threadVars
<1>28. QED
  BY <1>1, <1>2, <1>3, <1>4, <1>5, <1>6, <1>7, <1>8, <1>9, <1>10, <1>11,
     <1>12, <1>13, <1>14, <1>15, <1>16, <1>17, <1>18, <1>19, <1>20, <1>21,
     <1>22, <1>23, <1>24, <1>25, <1>26, <1>27
  DEF Next, Scheduler, Fetch, Process, ThreadStep, Begin, Pipeline

(* The empty stream is consistent. *)
LEMMA StreamInit == Init => StreamInv
BY DEF Init, StreamInv, PendingInStream, Pending, Delivered, Ids

(* What is pending is in the stream: XACK precedes XDEL in every pipeline.  *)
THEOREM PendingStaysInStream == Spec => []PendingInStream
<1>1. StreamInv => PendingInStream
  BY DEF StreamInv
<1>2. QED
  BY <1>1, StreamInit, TypeCorrect, StreamStep, PTL DEF Spec

-----------------------------------------------------------------------------
(* One goroutine to a message.  It holds where handlers are not slow and    *)
(* the names of consumers are not used again: a worker begins with an empty *)
(* list, and a message that somebody holds is not stale.                    *)

(* No two goroutines hold the same message. *)
Alone ==
    \A a, b \in Threads : a # b =>
        /\ batch[a] \cap batch[b] = {}
        /\ cur[a] \notin batch[b]
        /\ cur[a] = cur[b] => cur[a] = 0

(* What a goroutine holds is pending until it acknowledges it, and in the   *)
(* stream until it deletes it.                                              *)
InHand ==
    \A th \in Threads :
        /\ batch[th] \subseteq Pending
        /\ cur[th] \notin batch[th]
        /\ phase[th] \in {"run", "xack"} => cur[th] \in Pending
        /\ phase[th] = "xdel" => cur[th] \in stream

(* A worker begins with nothing. *)
Beginners ==
    /\ \A w \in Workers : status[w] \in {"off", "recovering"} => pel[w] = {}
    /\ \A w \in Workers : status[w] = "recovering" => Idle(Main(w))
    /\ \A th \in Threads : status[th[1]] = "off" => batch[th] = {}

Apart == Alone /\ InHand /\ Beginners

(* Goroutines that let go of messages hold none of each other's. *)
LEMMA AloneFrame ==
    ASSUME TypeOK, Alone,
           \A u \in Threads : batch'[u] \subseteq batch[u] /\ cur'[u] \in {cur[u], 0}
    PROVE  Alone'
<1>1. \A u \in Threads : 0 \notin batch[u]
  BY NumberTypes
<1>2. QED
  BY <1>1 DEF Alone

(* A goroutine may be given what nobody holds. *)
LEMMA AloneGiven ==
    ASSUME TypeOK, Alone, NEW th \in Threads, NEW got \in SUBSET Ids,
           \A u \in Threads : batch[u] \cap got = {} /\ cur[u] \notin got,
           batch' \in {batch, [batch EXCEPT ![th] = got]}, UNCHANGED cur
    PROVE  Alone'
<1>1. batch \in [Threads -> SUBSET Ids]
  BY DEF TypeOK
<1>2. CASE batch' = batch
  BY <1>2 DEF Alone
<1>3. CASE batch' = [batch EXCEPT ![th] = got]
  <2>1. \A u \in Threads : batch'[u] = IF u = th THEN got ELSE batch[u]
    BY <1>1, <1>3
  <2>2. QED
    BY <2>1 DEF Alone
<1>4. QED
  BY <1>2, <1>3

(* To begin a message of the batch is to hold the same messages. *)
LEMMA AloneTake ==
    ASSUME TypeOK, Alone, NEW th \in Threads, NEW id \in batch[th],
           NEW where, NEW v, Take(th, id, where, v)
    PROVE  Alone'
<1>1. \A u \in Threads : /\ batch'[u] = IF u = th THEN batch[u] \ {id} ELSE batch[u]
                         /\ cur'[u] = IF u = th THEN id ELSE cur[u]
  BY DEF Take, TypeOK
<1>2. QED
  BY <1>1 DEF Alone

(* While the keys stay, goroutines that let go keep the rest in hand. *)
LEMMA InHandFrame ==
    ASSUME TypeOK, InHand, UNCHANGED pel, stream \subseteq stream',
           \A u \in Threads :
               /\ batch'[u] \subseteq batch[u]
               /\ \/ cur'[u] = cur[u]
                  \/ cur'[u] = 0 /\ phase'[u] \in {"down", "ready"}
               /\ phase'[u] \in {"run", "xack"} => phase[u] \in {"run", "xack"}
               /\ phase'[u] = "xdel" => phase[u] = "xdel"
    PROVE  InHand'
<1>1. \A u \in Threads : 0 \notin batch[u]
  BY NumberTypes
<1>2. UNCHANGED Pending
  BY DEF Pending
<1>3. QED
  BY <1>1, <1>2 DEF InHand

(* A worker that is under way stays so. *)
LEMMA BeginnersFrame ==
    ASSUME TypeOK, Beginners,
           \A w \in Workers : pel'[w] \subseteq pel[w],
           \A u \in Threads : batch'[u] \subseteq batch[u],
           \A w \in Workers : \/ status'[w] = status[w] /\ phase'[Main(w)] = phase[Main(w)]
                              \/ status'[w] \in {"consuming", "closing", "gone"}
                              \/ status'[w] = status[w] /\ status[w] # "recovering"
    PROVE  Beginners'
<1>1. \A w \in Workers : Main(w) \in Threads
  BY DEF Main, Threads
<1>2. \A th \in Threads : th[1] \in Workers
  BY DEF Threads
<1>3. QED
  BY <1>1, <1>2 DEF Beginners, Idle

(* Every step keeps the goroutines apart. *)
LEMMA ApartStep ==
    ASSUME TypeOK, StreamInv, Apart, ~SlowHandlers, ~StableNames, [Next]_vars
    PROVE  Apart'
<1> Alone /\ InHand /\ Beginners
  BY DEF Apart
<1>1. ASSUME UNCHANGED <<pel, status, threadVars>>, stream \subseteq stream'
      PROVE  Apart'
  <2>1. UNCHANGED <<pel, status, phase, batch, cur>>
    BY <1>1 DEF threadVars
  <2>2. QED
    BY <1>1, <2>1, AloneFrame, InHandFrame, BeginnersFrame DEF Apart
<1>2. ASSUME NEW t \in Tasks, Enqueue(t) \/ EnqueueScheduled(t) \/ ExpireProcessed(t)
      PROVE  Apart'
  BY <1>1, <1>2 DEF Enqueue, EnqueueScheduled, ExpireProcessed, XAdd
<1>3. ASSUME NEW c \in retry, EnqueueRetry(c) PROVE Apart'
  BY <1>1, <1>3 DEF EnqueueRetry, XAdd
<1>4. ASSUME NEW w \in Workers, Consume(w) PROVE Apart'
  <2> DEFINE got == FirstOf(Undelivered)
  <2>1. /\ got \subseteq Undelivered /\ Main(w) \in Threads
        /\ pel' = [pel EXCEPT ![w] = @ \cup got]
        /\ batch' \in {batch, [batch EXCEPT ![Main(w)] = got]}
        /\ UNCHANGED <<stream, cur, status>>
        /\ batch[Main(w)] = {} /\ phase[Main(w)] = "ready"
        /\ status[w] \notin {"off", "recovering"}
    BY <1>4, FirstOfSubset DEF Consume, Deliver, Idle, Main, Threads
  <2>2. \A u \in Threads : phase'[u] \in {phase[u], "down"}
    BY <1>4 DEF Consume, Deliver, TypeOK
  <2>3. \A id \in got : ~Delivered(id)
    <3>1. \A id \in Undelivered : id \in Nat /\ lastDelivered \in Nat
      BY NumberTypes
    <3>2. QED
      BY <2>1, <3>1 DEF Undelivered, Delivered
  <2>4. \A u \in Threads : batch[u] \cap got = {} /\ cur[u] \notin got
    BY <2>3 DEF StreamInv
  <2>5. got \subseteq Ids
    BY <2>1, NumberTypes
  <2>6. Pending' = Pending \cup got
    BY <2>1 DEF TypeOK, Pending
  <2> HIDE DEF got
  <2>7. Alone'
    BY <2>1, <2>4, <2>5, AloneGiven
  <2>8. InHand'
    <3>1. \A u \in Threads : batch'[u] \subseteq batch[u] \cup got
      BY <2>1 DEF TypeOK
    <3>2. QED
      BY <2>1, <2>2, <2>4, <2>6, <3>1 DEF InHand
  <2>9. Beginners'
    <3>1. \A v \in Workers : v # w => /\ Main(v) # Main(w) /\ pel'[v] = pel[v]
                                      /\ phase'[Main(v)] = phase[Main(v)]
                                      /\ batch'[Main(v)] = batch[Main(v)]
      BY <1>4, <2>1 DEF Consume, Deliver, TypeOK, Main, Threads
    <3>2. \A th \in Threads : th[1] # w => batch'[th] = batch[th]
      BY <2>1 DEF TypeOK, Main, Threads
    <3>3. QED
      BY <2>1, <3>1, <3>2 DEF Beginners, Idle
  <2>10. QED
    BY <2>7, <2>8, <2>9 DEF Apart
<1>5. ASSUME NEW w \in Workers, RecoverOwnPending(w) PROVE Apart'
  <2>1. pel[w] = {}
    BY <1>5 DEF RecoverOwnPending, Beginners
  <2>2. /\ status' = [status EXCEPT ![w] = "consuming"]
        /\ UNCHANGED <<stream, pel, batch, cur, phase>>
    BY <1>5, <2>1 DEF RecoverOwnPending, redisVars
  <2>3. \A v \in Workers : status'[v] \in {status[v], "consuming"}
    BY <2>2 DEF TypeOK
  <2>4. QED
    BY <2>2, <2>3, AloneFrame, InHandFrame, BeginnersFrame DEF Apart
<1>6. ASSUME NEW w \in Workers, ClaimStale(w) PROVE Apart'
  <2> DEFINE due == {id \in Pending : Stale(id)}
             got == FirstOf(due)
  <2>1. /\ got \subseteq due /\ Claimer(w) \in Threads
        /\ pel' = [v \in Workers |-> IF v = w THEN pel[v] \cup got ELSE pel[v] \ got]
        /\ batch' \in {batch, [batch EXCEPT ![Claimer(w)] = got]}
        /\ UNCHANGED <<stream, cur, status>>
        /\ batch[Claimer(w)] = {}
    BY <1>6, FirstOfSubset DEF ClaimStale, Deliver, Idle, Claimer, Threads
  <2>2. \A u \in Threads : phase'[u] \in {phase[u], "down"}
    BY <1>6 DEF ClaimStale, Deliver, TypeOK
  <2>3. status[w] = "consuming"
    BY <1>6 DEF ClaimStale, ClaimerTicks, Beginners
  <2>4. \A u \in Threads : batch[u] \cap got = {} /\ cur[u] \notin got
    BY <2>1 DEF Stale, Holds
  <2>5. got \subseteq Pending /\ got \subseteq Ids
    BY <2>1, NumberTypes
  <2> HIDE DEF due, got
  <2>6. Pending' = Pending
    BY <2>1, <2>5 DEF Pending
  <2>7. Alone'
    BY <2>1, <2>4, <2>5, AloneGiven
  <2>8. InHand'
    <3>1. \A u \in Threads : batch'[u] \subseteq batch[u] \cup got
      BY <2>1 DEF TypeOK
    <3>2. QED
      BY <2>1, <2>2, <2>4, <2>5, <2>6, <3>1 DEF InHand
  <2>9. Beginners'
    <3>1. \A v \in Workers : v # w => pel'[v] \subseteq pel[v]
      BY <2>1
    <3>2. \A v \in Workers : /\ Main(v) # Claimer(w)
                             /\ phase'[Main(v)] = phase[Main(v)]
                             /\ batch'[Main(v)] = batch[Main(v)]
      BY <1>6, <2>1 DEF ClaimStale, Deliver, TypeOK, Main, Claimer, Threads
    <3>3. \A th \in Threads : th[1] # w => batch'[th] = batch[th]
      BY <2>1 DEF TypeOK, Claimer, Threads
    <3>4. QED
      BY <2>1, <2>3, <3>1, <3>2, <3>3 DEF Beginners, Idle
  <2>10. QED
    BY <2>7, <2>8, <2>9 DEF Apart
<1>7. ASSUME NEW w \in Workers, Start(w) PROVE Apart'
  <2>1. /\ status[w] = "off" /\ status' = [status EXCEPT ![w] = "recovering"]
        /\ phase' = [th \in Threads |-> IF th[1] = w THEN "ready" ELSE phase[th]]
        /\ UNCHANGED <<stream, pel, batch, cur>>
    BY <1>7 DEF Start, redisVars
  <2>2. \A u \in Threads : phase'[u] \in {phase[u], "ready"}
    BY <2>1
  <2>3. Beginners'
    <3>1. \A v \in Workers : /\ Main(v) \in Threads /\ Main(v)[1] = v
                             /\ phase'[Main(v)] = IF v = w THEN "ready" ELSE phase[Main(v)]
                             /\ status'[v] = IF v = w THEN "recovering" ELSE status[v]
      BY <2>1 DEF Main, Threads, TypeOK
    <3>2. \A th \in Threads : th[1] \in Workers
      BY DEF Threads
    <3>3. QED
      BY <2>1, <3>1, <3>2 DEF Beginners, Idle
  <2>4. QED
    BY <2>1, <2>2, <2>3, AloneFrame, InHandFrame DEF Apart
<1>8. ASSUME NEW w \in Workers,
             \/ Shutdown(w) \/ MainStops(w) \/ SubscribeFails(w) \/ Crash(w) \/ Exit(w)
      PROVE  Apart'
  <2>1. UNCHANGED redisVars /\ ThreadFrame
    BY <1>8, ProcessFrame DEF Process
  <2>2. \A v \in Workers : \/ status'[v] = status[v] /\ phase'[Main(v)] = phase[Main(v)]
                           \/ status'[v] \in {"consuming", "closing", "gone"}
                           \/ status'[v] = status[v] /\ status[v] # "recovering"
    BY <1>8
    DEF Shutdown, MainStops, SubscribeFails, Crash, Exit, Terminate, TypeOK, Main, Threads
  <2>3. UNCHANGED <<pel, stream>>
    BY <2>1 DEF redisVars
  <2>4. \A u \in Threads :
            /\ batch'[u] \subseteq batch[u]
            /\ \/ cur'[u] = cur[u]
               \/ cur'[u] = 0 /\ phase'[u] \in {"down", "ready"}
            /\ phase'[u] \in {"run", "xack"} => phase[u] \in {"run", "xack"}
            /\ phase'[u] = "xdel" => phase[u] = "xdel"
    BY <2>1 DEF ThreadFrame
  <2>5. QED
    BY <2>2, <2>3, <2>4, AloneFrame, InHandFrame, BeginnersFrame DEF Apart
<1>9. ASSUME NEW th \in Threads, NEW id \in batch[th], DropInvalid(th, id) PROVE Apart'
  <2>1. /\ batch' = [batch EXCEPT ![th] = @ \ {id}]
        /\ pel' = Acked(id) \/ pel' = pel
        /\ UNCHANGED <<stream, cur, status>>
        /\ phase[th] = "ready"
    BY <1>9 DEF DropInvalid
  <2>2. \A u \in Threads : /\ batch'[u] = IF u = th THEN batch[u] \ {id} ELSE batch[u]
                           /\ u # th => phase'[u] = phase[u]
    BY <1>9, <2>1 DEF DropInvalid, TypeOK
  <2>3. phase'[th] \in {"down", "ready"}
    BY <1>9 DEF DropInvalid, AfterMessage, TypeOK
  <2>4. Pending \ {id} \subseteq Pending' /\ \A w \in Workers : pel'[w] \subseteq pel[w]
    BY <2>1 DEF Pending, Acked
  <2>5. Alone'
    BY <2>1, <2>2, AloneFrame
  <2>6. \A u \in Threads : u # th => id \notin batch[u] /\ cur[u] # id
    BY DEF Alone
  <2>7. InHand'
    BY <2>1, <2>2, <2>3, <2>4, <2>6 DEF InHand
  <2>8. Beginners'
    <3>1. \A w \in Workers : status[w] = "recovering" => th # Main(w)
      BY DEF Beginners, Idle
    <3>2. \A w \in Workers : status[w] = "recovering" => phase'[Main(w)] = phase[Main(w)]
      BY <2>2, <3>1 DEF Main, Threads
    <3>3. QED
      BY <2>1, <2>2, <2>4, <3>2, BeginnersFrame
  <2>9. QED
    BY <2>5, <2>7, <2>8 DEF Apart
<1>10. ASSUME NEW th \in Threads, NEW id \in batch[th],
              BeginRetry(th, id) \/ BeginFirst(th, id) \/ SkipProcessed(th, id)
                \/ BeginFailOpen(th, id)
       PROVE  Apart'
  <2>1. PICK where, v : where \in {"run", "xack"} /\ Take(th, id, where, v)
    BY <1>10 DEF BeginRetry, BeginFirst, SkipProcessed, BeginFailOpen
  <2>2. UNCHANGED <<stream, pel, status>>
    BY <1>10 DEF BeginRetry, BeginFirst, SkipProcessed, BeginFailOpen, redisVars
  <2>3. \A u \in Threads : /\ batch'[u] = IF u = th THEN batch[u] \ {id} ELSE batch[u]
                           /\ cur'[u] = IF u = th THEN id ELSE cur[u]
                           /\ phase'[u] = IF u = th THEN where ELSE phase[u]
    BY <2>1 DEF Take, TypeOK
  <2>4. UNCHANGED Pending
    BY <2>2 DEF Pending
  <2>5. InHand'
    BY <2>1, <2>2, <2>3, <2>4 DEF InHand
  <2>6. Beginners'
    <3>1. \A w \in Workers : status[w] = "recovering" => th # Main(w)
      BY DEF Beginners, Idle
    <3>2. \A w \in Workers : status[w] = "recovering" => phase'[Main(w)] = phase[Main(w)]
      BY <2>3, <3>1 DEF Main, Threads
    <3>3. QED
      BY <2>2, <2>3, <3>2, BeginnersFrame
  <2>7. QED
    BY <2>1, <2>5, <2>6, AloneTake DEF Apart
<1>11. ASSUME NEW th \in Threads, Succeed(th) \/ Fail(th) PROVE Apart'
  <2>1. /\ phase[th] = "run" /\ phase' = [phase EXCEPT ![th] = "xack"]
        /\ UNCHANGED <<stream, pel, status, batch, cur>>
    BY <1>11 DEF Succeed, Fail, redisVars
  <2>2. \A u \in Threads : phase'[u] = IF u = th THEN "xack" ELSE phase[u]
    BY <2>1 DEF TypeOK
  <2>3. InHand'
    BY <2>1, <2>2, InHandFrame
  <2>4. Beginners'
    <3>1. \A w \in Workers : status[w] = "recovering" => phase'[Main(w)] = phase[Main(w)]
      BY <2>1, <2>2 DEF Beginners, Idle, Main, Threads
    <3>2. QED
      BY <2>1, <3>1, BeginnersFrame
  <2>5. QED
    BY <2>1, <2>3, <2>4, AloneFrame DEF Apart
<1>12. ASSUME NEW th \in Threads, XAck(th) PROVE Apart'
  <2>1. /\ phase[th] = "xack" /\ phase' = [phase EXCEPT ![th] = "xdel"]
        /\ pel' = Acked(cur[th])
        /\ UNCHANGED <<stream, status, batch, cur>>
    BY <1>12 DEF XAck
  <2>2. \A u \in Threads : phase'[u] = IF u = th THEN "xdel" ELSE phase[u]
    BY <2>1 DEF TypeOK
  <2>3. Pending' = Pending \ {cur[th]} /\ \A w \in Workers : pel'[w] \subseteq pel[w]
    BY <2>1 DEF Pending, Acked
  <2>4. cur[th] \in Pending /\ Pending \subseteq stream /\ cur[th] # 0
    BY <2>1, NumberTypes DEF InHand, StreamInv, PendingInStream
  <2>5. \A u \in Threads : cur[th] \notin batch[u] /\ (cur[u] = cur[th] => u = th)
    BY <2>4 DEF Alone, InHand
  <2>6. InHand'
    BY <2>1, <2>2, <2>3, <2>4, <2>5 DEF InHand
  <2>7. Beginners'
    <3>1. \A w \in Workers : status[w] = "recovering" => phase'[Main(w)] = phase[Main(w)]
      BY <2>1, <2>2 DEF Beginners, Idle, Main, Threads
    <3>2. QED
      BY <2>1, <2>3, <3>1, BeginnersFrame
  <2>8. QED
    BY <2>1, <2>6, <2>7, AloneFrame DEF Apart
<1>13. ASSUME NEW th \in Threads, XDel(th) PROVE Apart'
  <2>1. /\ phase[th] = "xdel" /\ phase' = [phase EXCEPT ![th] = "final"]
        /\ stream' = stream \ {cur[th]}
        /\ UNCHANGED <<pel, status, batch, cur>>
    BY <1>13 DEF XDel
  <2>2. \A u \in Threads : phase'[u] = IF u = th THEN "final" ELSE phase[u]
    BY <2>1 DEF TypeOK
  <2>3. UNCHANGED Pending
    BY <2>1 DEF Pending
  <2>4. cur[th] # 0
    BY <2>1 DEF TypeOK
  <2>5. \A u \in Threads : cur[u] = cur[th] => u = th
    BY <2>4 DEF Alone
  <2>6. InHand'
    BY <2>1, <2>2, <2>3, <2>5 DEF InHand
  <2>7. Beginners'
    <3>1. \A w \in Workers : status[w] = "recovering" => phase'[Main(w)] = phase[Main(w)]
      BY <2>1, <2>2 DEF Beginners, Idle, Main, Threads
    <3>2. QED
      BY <2>1, <3>1, BeginnersFrame
  <2>8. QED
    BY <2>1, <2>6, <2>7, AloneFrame DEF Apart
<1>14. ASSUME NEW th \in Threads,
              CountCompleted(th) \/ AddRetry(th) \/ AddDead(th) \/ PipelineError(th)
       PROVE  Apart'
  <2>1. Release(th) /\ UNCHANGED <<stream, pel, status>> /\ phase[th] \in {"xack", "xdel", "final"}
    BY <1>14 DEF CountCompleted, AddRetry, AddDead, PipelineError, redisVars
  <2>2. ThreadFrame
    BY <2>1, ReleaseFrame
  <2>3. \A w \in Workers : status[w] = "recovering" => phase'[Main(w)] = phase[Main(w)]
    BY <2>1 DEF Release, Beginners, Idle, Main, Threads, TypeOK
  <2>4. Beginners'
    BY <2>1, <2>2, <2>3, BeginnersFrame DEF ThreadFrame
  <2>5. InHand'
    BY <2>1, <2>2, InHandFrame DEF ThreadFrame
  <2>6. Alone'
    BY <2>2, AloneFrame DEF ThreadFrame
  <2>7. QED
    BY <2>4, <2>5, <2>6 DEF Apart
<1>15. CASE UNCHANGED vars
  BY <1>1, <1>15 DEF vars, redisVars
<1>16. QED
  BY <1>2, <1>3, <1>4, <1>5, <1>6, <1>7, <1>8, <1>9, <1>10, <1>11, <1>12, <1>13, <1>14, <1>15
  DEF Next, Scheduler, Fetch, Process, ThreadStep, Begin, Pipeline

(* Nobody holds anything before the first worker starts. *)
LEMMA ApartInit == Init => Apart
BY DEF Init, Apart, Alone, InHand, Beginners, Idle, Main, Threads

-----------------------------------------------------------------------------
(* Exclusive runs.  What a task can be run from is passed on from hand to   *)
(* hand: the idempotency key that is free, a copy in the retry set, the     *)
(* message of a retry, a goroutine that runs the task or will store it.  As *)
(* long as the key did not lapse there is one such chance at most.          *)

RetryMessage(id, t) ==
    id \in Ids /\ log[id].task = t /\ log[id].rc > 0 /\ Deliverable(id)

(* The message of a retry stands for the goroutine that runs it until XACK. *)
Bears(th, t) ==
    /\ cur[th] # 0 /\ log[cur[th]].task = t
    /\ phase[th] = "run" \/ verdict[th] = "retry"
    /\ log[cur[th]].rc = 0 \/ phase[th] \in {"xdel", "final"}

FreeKey(t)       == {k \in {<<"key", t>>} : t \notin processed}
RetryCopies(t)   == {<<"copy", c>> : c \in {d \in retry : d.task = t}}
RetryMessages(t) == {<<"message", id>> : id \in {i \in Ids : RetryMessage(i, t)}}
Bearers(t)       == {<<"thread", th>> : th \in {a \in Threads : Bears(a, t)}}

Chances(t) == FreeKey(t) \cup RetryCopies(t) \cup RetryMessages(t) \cup Bearers(t)

AtMostOne(S) == \A x, y \in S : x = y

OneChance == \A t \in Tasks : lapses[t] = 0 => AtMostOne(Chances(t))

(* A chance is kept, lost or passed on. *)
PassedOn(S, T) == T \subseteq S \/ \E x \in S : \E y : T \subseteq (S \ {x}) \cup {y}

(* Passing on does not multiply. *)
LEMMA PassedOnOne ==
    ASSUME NEW S, NEW T, AtMostOne(S), PassedOn(S, T)
    PROVE  AtMostOne(T)
BY DEF AtMostOne, PassedOn

(* The four kinds of chances are different. *)
LEMMA ChancesDiffer ==
    ASSUME NEW t
    PROVE  /\ \A c : /\ <<"copy", c>> \notin FreeKey(t) /\ <<"copy", c>> \notin RetryMessages(t)
                     /\ <<"copy", c>> \notin Bearers(t)
           /\ \A i : /\ <<"message", i>> \notin FreeKey(t)
                     /\ <<"message", i>> \notin RetryCopies(t)
                     /\ <<"message", i>> \notin Bearers(t)
           /\ \A a : /\ <<"thread", a>> \notin FreeKey(t)
                     /\ <<"thread", a>> \notin RetryCopies(t)
                     /\ <<"thread", a>> \notin RetryMessages(t)
BY DEF FreeKey, RetryCopies, RetryMessages, Bearers

(* Messages that are on their way out give no new chance. *)
LEMMA RetryMessagesFrame ==
    ASSUME UNCHANGED log, \A id \in Ids : Deliverable(id)' => Deliverable(id), NEW t
    PROVE  RetryMessages(t)' \subseteq RetryMessages(t)
<1>1. \A id : RetryMessage(id, t)' => RetryMessage(id, t)
  BY DEF RetryMessage, Ids
<1>2. UNCHANGED Ids
  BY DEF Ids
<1>3. QED
  BY <1>1, <1>2 DEF RetryMessages

(* Nor do goroutines that only let go. *)
LEMMA BearersFrame ==
    ASSUME UNCHANGED log,
           \A u \in Threads :
               \/ UNCHANGED <<phase[u], cur[u], verdict[u]>>
               \/ phase'[u] \in {"down", "ready"} /\ UNCHANGED <<cur[u], verdict[u]>>
               \/ cur'[u] = 0,
           NEW t
    PROVE  Bearers(t)' \subseteq Bearers(t)
<1>1. \A u \in Threads : Bears(u, t)' => Bears(u, t)
  BY DEF Bears
<1>2. QED
  BY <1>1 DEF Bearers

(* A message that XADD appends is a chance when it is a retry. *)
LEMMA ChanceXAdd ==
    ASSUME TypeOK,
           NEW task \in Tasks, NEW rc \in Nat, NEW ok \in BOOLEAN, XAdd(task, rc, ok),
           UNCHANGED <<lastDelivered, pel, threadVars>>, NEW t \in Tasks
    PROVE  /\ RetryMessages(t)' \subseteq RetryMessages(t) \cup
                  {m \in {<<"message", Len(log) + 1>>} : rc > 0 /\ task = t}
           /\ Bearers(t)' \subseteq Bearers(t)
<1> PICK n : n = Len(log) + 1
  OBVIOUS
<1>1. /\ Ids' = Ids \cup {n} /\ \A id \in Ids : log'[id] = log[id]
      /\ log'[n] = [task |-> task, rc |-> rc, ok |-> ok]
      /\ stream' = stream \cup {n} /\ n \notin Ids
  <2>1. log \in Seq(Entry) /\ stream \subseteq Ids
    BY DEF TypeOK
  <2>2. n \notin Ids
    BY NumberTypes DEF Ids
  <2>3. QED
    BY <2>1, <2>2, XAddType DEF XAdd
<1>2. \A id \in Ids : Deliverable(id)' <=> Deliverable(id)
  BY <1>1 DEF Deliverable, Delivered, Pending
<1>3. \A id \in Ids : RetryMessage(id, t)' => RetryMessage(id, t)
  BY <1>1, <1>2 DEF RetryMessage
<1>4. RetryMessage(n, t)' => rc > 0 /\ task = t
  BY <1>1 DEF RetryMessage
<1>5. RetryMessages(t)' \subseteq RetryMessages(t) \cup
          {m \in {<<"message", n>>} : rc > 0 /\ task = t}
  BY <1>1, <1>3, <1>4 DEF RetryMessages
<1>6. \A u \in Threads : cur[u] # 0 => cur[u] \in Ids
  BY NumberTypes DEF TypeOK, Ids
<1>7. \A u \in Threads : Bears(u, t)' => Bears(u, t)
  BY <1>1, <1>6 DEF Bears, threadVars
<1>8. QED
  BY <1>5, <1>7 DEF Bearers

(* Every step passes a chance on. *)
LEMMA ChanceStep ==
    ASSUME TypeOK, StreamInv, Apart, [Next]_vars, NEW t \in Tasks,
           lapses'[t] = lapses[t]
    PROVE  PassedOn(Chances(t), Chances(t)')
<1>1. ASSUME FreeKey(t)' \subseteq FreeKey(t), RetryCopies(t)' \subseteq RetryCopies(t),
             RetryMessages(t)' \subseteq RetryMessages(t), Bearers(t)' \subseteq Bearers(t)
      PROVE  PassedOn(Chances(t), Chances(t)')
  BY <1>1 DEF PassedOn, Chances
<1>2. UNCHANGED processed => FreeKey(t)' \subseteq FreeKey(t)
  BY DEF FreeKey
<1>3. UNCHANGED retry => RetryCopies(t)' \subseteq RetryCopies(t)
  BY DEF RetryCopies
<1>4. ASSUME UNCHANGED <<processed, retry, log>>,
             \A id \in Ids : Deliverable(id)' => Deliverable(id),
             \A u \in Threads :
                \/ UNCHANGED <<phase[u], cur[u], verdict[u]>>
                \/ phase'[u] \in {"down", "ready"} /\ UNCHANGED <<cur[u], verdict[u]>>
                \/ cur'[u] = 0
      PROVE  PassedOn(Chances(t), Chances(t)')
  BY <1>1, <1>2, <1>3, <1>4, RetryMessagesFrame, BearersFrame
<1>5. ASSUME UNCHANGED <<stream, lastDelivered, pel>>
      PROVE  \A id : Deliverable(id)' => Deliverable(id)
  BY <1>5 DEF Deliverable, Delivered, Pending
<1>6. ASSUME NEW task \in Tasks, Enqueue(task) \/ EnqueueScheduled(task)
      PROVE  PassedOn(Chances(t), Chances(t)')
  <2>1. UNCHANGED <<processed, retry, lastDelivered, pel, threadVars>>
    BY <1>6 DEF Enqueue, EnqueueScheduled
  <2>2. \/ UNCHANGED <<log, stream>>
        \/ \E ok \in BOOLEAN : XAdd(task, 0, ok)
    BY <1>6 DEF Enqueue, EnqueueScheduled
  <2>3. CASE UNCHANGED <<log, stream>>
    BY <1>4, <1>5, <2>1, <2>3 DEF threadVars
  <2>4. ASSUME NEW ok \in BOOLEAN, XAdd(task, 0, ok)
        PROVE  PassedOn(Chances(t), Chances(t)')
    <3>1. RetryMessages(t)' \subseteq RetryMessages(t) /\ Bearers(t)' \subseteq Bearers(t)
      BY <2>1, <2>4, ChanceXAdd
    <3>2. QED
      BY <1>1, <1>2, <1>3, <2>1, <3>1
  <2>5. QED
    BY <2>2, <2>3, <2>4
<1>7. ASSUME NEW c \in retry, EnqueueRetry(c) PROVE PassedOn(Chances(t), Chances(t)')
  <2>1. /\ retry' = retry \ {c} /\ XAdd(c.task, c.rc, c.task \notin Undecodable)
        /\ UNCHANGED <<processed, lastDelivered, pel, threadVars>>
    BY <1>7 DEF EnqueueRetry
  <2>2. c.task \in Tasks /\ c.rc \in Nat
    BY DEF TypeOK, RetryCopy
  <2> DEFINE x == <<"copy", c>>
             y == <<"message", Len(log) + 1>>
  <2>3. /\ RetryMessages(t)' \subseteq RetryMessages(t) \cup
               {m \in {y} : c.rc > 0 /\ c.task = t}
        /\ Bearers(t)' \subseteq Bearers(t)
    BY <2>1, <2>2, ChanceXAdd
  <2>4. RetryCopies(t)' \subseteq RetryCopies(t) \ {x}
    BY <2>1 DEF RetryCopies
  <2>5. CASE c.task = t
    <3>1. x \in RetryCopies(t)
      BY <2>5 DEF RetryCopies
    <3>2. x \notin FreeKey(t) /\ x \notin RetryMessages(t) /\ x \notin Bearers(t)
      BY ChancesDiffer
    <3> HIDE DEF x, y
    <3>3. x \in Chances(t) /\ Chances(t)' \subseteq (Chances(t) \ {x}) \cup {y}
      BY <1>2, <2>1, <2>3, <2>4, <3>1, <3>2 DEF Chances
    <3>4. QED
      BY <3>3 DEF PassedOn
  <2>6. CASE c.task # t
    BY <1>1, <1>2, <2>1, <2>3, <2>4, <2>6
  <2>7. QED
    BY <2>5, <2>6
<1>8. ASSUME NEW w \in Workers, Fetch(w) PROVE PassedOn(Chances(t), Chances(t)')
  <2>1. UNCHANGED <<processed, retry, log, stream, cur, verdict>>
    BY <1>8 DEF Fetch, Consume, RecoverOwnPending, ClaimStale, redisVars
  <2>2. \A u \in Threads : phase'[u] \in {phase[u], "down"}
    BY <1>8 DEF Fetch, Consume, RecoverOwnPending, ClaimStale, Deliver, TypeOK
  <2>3. \A id \in Ids : Deliverable(id)' => Deliverable(id)
    <3>1. CASE Consume(w)
      <4>1. /\ lastDelivered < lastDelivered'
            /\ lastDelivered \in Nat /\ lastDelivered' \in Nat
            /\ Pending' = Pending \cup {id \in Undelivered : id <= lastDelivered'}
        BY <3>1, ConsumeDelivers, NumberTypes DEF Ids
      <4>2. Ids \subseteq Nat
        BY NumberTypes
      <4>3. \A id \in Ids : id \in Pending' => id \in Pending \/ id > lastDelivered
        BY <4>1 DEF Undelivered
      <4>4. \A id \in Ids : id > lastDelivered' => id > lastDelivered
        BY <4>1, <4>2
      <4>5. ASSUME NEW id \in Ids, Deliverable(id)' PROVE Deliverable(id)
        <5>1. id \in stream /\ (~(id <= lastDelivered') \/ id \in Pending')
          BY <2>1, <4>5 DEF Deliverable, Delivered
        <5>2. id \in Nat
          BY <4>2
        <5>3. id \in Pending \/ id > lastDelivered
          BY <4>1, <4>3, <4>4, <5>1, <5>2
        <5>4. id \in Pending \/ ~(id <= lastDelivered)
          BY <4>1, <5>2, <5>3
        <5>5. QED
          BY <5>1, <5>4 DEF Deliverable, Delivered
      <4>6. QED
        BY <4>5
    <3>2. CASE RecoverOwnPending(w)
      BY <1>5, <3>2 DEF RecoverOwnPending, redisVars
    <3>3. CASE ClaimStale(w)
      <4> DEFINE got == FirstOf({id \in Pending : Stale(id)})
      <4>1. /\ got \subseteq Pending /\ UNCHANGED <<stream, lastDelivered>>
            /\ pel' = [v \in Workers |-> IF v = w THEN pel[v] \cup got ELSE pel[v] \ got]
        BY <3>3, FirstOfSubset DEF ClaimStale
      <4> HIDE DEF got
      <4>2. Pending' \subseteq Pending
        BY <4>1 DEF Pending
      <4>3. QED
        BY <4>1, <4>2 DEF Deliverable, Delivered
    <3>4. QED
      BY <1>8, <3>1, <3>2, <3>3 DEF Fetch
  <2>4. QED
    BY <1>4, <2>1, <2>2, <2>3
<1>9. ASSUME NEW w \in Workers, Process(w) PROVE PassedOn(Chances(t), Chances(t)')
  <2>1. UNCHANGED redisVars /\ ThreadFrame
    BY <1>9, ProcessFrame
  <2>2. QED
    BY <1>4, <1>5, <2>1 DEF redisVars, ThreadFrame
<1>10. ASSUME NEW th \in Threads, NEW id \in batch[th], DropInvalid(th, id)
       PROVE  PassedOn(Chances(t), Chances(t)')
  <2>1. /\ UNCHANGED <<processed, retry, log, stream, lastDelivered, cur, verdict>>
        /\ pel' = Acked(id) \/ pel' = pel
    BY <1>10 DEF DropInvalid
  <2>2. \A u \in Threads : phase'[u] \in {phase[u], "down", "ready"}
    BY <1>10 DEF DropInvalid, AfterMessage, TypeOK
  <2>3. Pending' \subseteq Pending
    BY <2>1 DEF Pending, Acked
  <2>4. \A i \in Ids : Deliverable(i)' => Deliverable(i)
    BY <2>1, <2>3 DEF Deliverable, Delivered
  <2>5. QED
    BY <1>4, <2>1, <2>2, <2>4
<1>11. ASSUME NEW th \in Threads, NEW id \in batch[th], NEW where, NEW v,
              Take(th, id, where, v), UNCHANGED <<log, stream, lastDelivered, pel>>
       PROVE  /\ RetryMessages(t)' \subseteq RetryMessages(t)
              /\ \A u \in Threads : u # th => UNCHANGED <<phase[u], cur[u], verdict[u]>>
              /\ cur'[th] = id /\ phase'[th] = where /\ verdict'[th] = v
  <2>1. RetryMessages(t)' \subseteq RetryMessages(t)
    BY <1>5, <1>11, RetryMessagesFrame
  <2>2. QED
    BY <1>11, <2>1 DEF Take, TypeOK
<1>12. ASSUME NEW th \in Threads, NEW id \in batch[th],
              BeginRetry(th, id) \/ SkipProcessed(th, id)
       PROVE  PassedOn(Chances(t), Chances(t)')
  <2>1. UNCHANGED <<log, stream, lastDelivered, pel, processed, retry>>
    BY <1>12 DEF BeginRetry, SkipProcessed, redisVars
  <2>2. PICK where, v : /\ Take(th, id, where, v)
                        /\ \/ where = "run" /\ v = "none" /\ log[id].rc # 0
                           \/ where = "xack" /\ v = "skip"
    BY <1>12 DEF BeginRetry, SkipProcessed, FirstAttempt
  <2>3. /\ RetryMessages(t)' \subseteq RetryMessages(t)
        /\ \A u \in Threads : u # th => UNCHANGED <<phase[u], cur[u], verdict[u]>>
        /\ cur'[th] = id /\ phase'[th] = where /\ verdict'[th] = v
    BY <1>11, <2>1, <2>2
  <2>4. \A u \in Threads : Bears(u, t)' => Bears(u, t)
    BY <2>1, <2>2, <2>3 DEF Bears
  <2>5. Bearers(t)' \subseteq Bearers(t)
    BY <2>4 DEF Bearers
  <2>6. QED
    BY <1>1, <1>2, <1>3, <2>1, <2>3, <2>5
<1>13. ASSUME NEW th \in Threads, NEW id \in batch[th],
              BeginFirst(th, id) \/ BeginFailOpen(th, id)
       PROVE  PassedOn(Chances(t), Chances(t)')
  <2> DEFINE task == log[id].task
  <2>1. /\ UNCHANGED <<log, stream, lastDelivered, pel, retry>>
        /\ Take(th, id, "run", "none")
        /\ processed \subseteq processed'
    BY <1>13 DEF BeginFirst, BeginFailOpen, SetNX
  <2>2. task \in Tasks
    BY EntryType, NumberTypes
  <2>3. /\ RetryMessages(t)' \subseteq RetryMessages(t)
        /\ \A u \in Threads : u # th => UNCHANGED <<phase[u], cur[u], verdict[u]>>
        /\ cur'[th] = id /\ phase'[th] = "run" /\ verdict'[th] = "none"
    BY <1>11, <2>1
  <2>4. FreeKey(t)' \subseteq FreeKey(t) /\ RetryCopies(t)' \subseteq RetryCopies(t)
    BY <2>1 DEF FreeKey, RetryCopies
  <2>5. CASE task # t
    <3>1. \A u \in Threads : Bears(u, t)' => Bears(u, t)
      BY <2>1, <2>3, <2>5 DEF Bears
    <3>2. Bearers(t)' \subseteq Bearers(t)
      BY <3>1 DEF Bearers
    <3>3. QED
      BY <1>1, <2>3, <2>4, <3>2
  <2>6. CASE task = t
    <3>1. BeginFirst(th, id)
      <4>1. ASSUME BeginFailOpen(th, id) PROVE FALSE
        <5>1. lapses' = [lapses EXCEPT ![t] = @ + 1]
          BY <2>6, <4>1 DEF BeginFailOpen
        <5>2. lapses'[t] = lapses[t] + 1 /\ lapses[t] \in Nat
          BY <5>1 DEF TypeOK
        <5>3. QED
          BY <5>2
      <4>2. QED
        BY <1>13, <4>1
    <3>2. t \notin processed /\ t \in processed'
      BY <2>6, <3>1 DEF BeginFirst, SetNX
    <3> DEFINE x == <<"key", t>>
               y == <<"thread", th>>
    <3>3. x \in FreeKey(t) /\ FreeKey(t)' = {}
      BY <3>2 DEF FreeKey
    <3>4. x \notin RetryCopies(t) /\ x \notin RetryMessages(t) /\ x \notin Bearers(t)
      BY DEF RetryCopies, RetryMessages, Bearers
    <3>5. Bearers(t)' \subseteq Bearers(t) \cup {y}
      <4>1. \A u \in Threads : u # th => (Bears(u, t)' => Bears(u, t))
        BY <2>1, <2>3 DEF Bears
      <4>2. QED
        BY <4>1 DEF Bearers
    <3> HIDE DEF x, y
    <3>6. x \in Chances(t) /\ Chances(t)' \subseteq (Chances(t) \ {x}) \cup {y}
      BY <2>3, <2>4, <3>3, <3>4, <3>5 DEF Chances
    <3>7. QED
      BY <3>6 DEF PassedOn
  <2>7. QED
    BY <2>5, <2>6
<1>14. ASSUME NEW th \in Threads, Succeed(th) \/ Fail(th)
       PROVE  PassedOn(Chances(t), Chances(t)')
  <2>1. /\ UNCHANGED <<log, stream, lastDelivered, pel, retry, processed, cur>>
        /\ phase[th] = "run" /\ phase' = [phase EXCEPT ![th] = "xack"]
        /\ \E v : verdict' = [verdict EXCEPT ![th] = v]
    BY <1>14 DEF Succeed, Fail, redisVars
  <2>2. \A u \in Threads : Bears(u, t)' => Bears(u, t)
    BY <2>1 DEF Bears, TypeOK
  <2>3. Bearers(t)' \subseteq Bearers(t)
    BY <2>2 DEF Bearers
  <2>4. RetryMessages(t)' \subseteq RetryMessages(t)
    BY <1>5, <2>1, RetryMessagesFrame
  <2>5. QED
    BY <1>1, <1>2, <1>3, <2>1, <2>3, <2>4
<1>15. ASSUME NEW th \in Threads, XAck(th) PROVE PassedOn(Chances(t), Chances(t)')
  <2>1. /\ UNCHANGED <<log, stream, lastDelivered, retry, processed, cur, verdict>>
        /\ phase[th] = "xack" /\ phase' = [phase EXCEPT ![th] = "xdel"]
        /\ pel' = Acked(cur[th])
    BY <1>15 DEF XAck
  <2>2. /\ cur[th] \in Pending /\ cur[th] \in stream /\ cur[th] \in Ids
        /\ Delivered(cur[th])
    BY <2>1, NumberTypes DEF Apart, InHand, StreamInv, PendingInStream
  <2>3. Pending' = Pending \ {cur[th]}
    BY <2>1 DEF Pending, Acked
  <2>4. \A id \in Ids : Deliverable(id)' => Deliverable(id) /\ id # cur[th]
    BY <2>1, <2>2, <2>3 DEF Deliverable, Delivered
  <2>5. RetryMessages(t)' \subseteq RetryMessages(t)
    BY <2>1, <2>4, RetryMessagesFrame
  <2> DEFINE x == <<"message", cur[th]>>
             y == <<"thread", th>>
  <2>6. CASE log[cur[th]].task = t /\ log[cur[th]].rc > 0
    <3>1. x \in RetryMessages(t)
      BY <2>2, <2>6 DEF RetryMessages, RetryMessage, Deliverable
    <3>2. x \notin RetryMessages(t)'
      <4>1. ~RetryMessage(cur[th], t)'
        BY <2>1, <2>2, <2>4 DEF RetryMessage
      <4>2. \A i : <<"message", i>> = <<"message", cur[th]>> => i = cur[th]
        OBVIOUS
      <4>3. QED
        BY <2>1, <4>1, <4>2 DEF RetryMessages
    <3>3. x \notin FreeKey(t) /\ x \notin RetryCopies(t) /\ x \notin Bearers(t)
      BY ChancesDiffer
    <3>4. Bearers(t)' \subseteq Bearers(t) \cup {y}
      <4>1. \A u \in Threads : u # th => (Bears(u, t)' => Bears(u, t))
        BY <2>1 DEF Bears, TypeOK
      <4>2. QED
        BY <4>1 DEF Bearers
    <3> HIDE DEF x, y
    <3>5. x \in Chances(t) /\ Chances(t)' \subseteq (Chances(t) \ {x}) \cup {y}
      BY <1>2, <1>3, <2>1, <2>5, <3>1, <3>2, <3>3, <3>4 DEF Chances
    <3>6. QED
      BY <3>5 DEF PassedOn
  <2>7. CASE ~(log[cur[th]].task = t /\ log[cur[th]].rc > 0)
    <3>1. log[cur[th]].rc \in Nat
      BY <2>2, EntryType
    <3>2. \A u \in Threads : Bears(u, t)' => Bears(u, t)
      BY <2>1, <2>7, <3>1 DEF Bears, TypeOK
    <3>3. Bearers(t)' \subseteq Bearers(t)
      BY <3>2 DEF Bearers
    <3>4. QED
      BY <1>1, <1>2, <1>3, <2>1, <2>5, <3>3
  <2>8. QED
    BY <2>6, <2>7
<1>16. ASSUME NEW th \in Threads, XDel(th) PROVE PassedOn(Chances(t), Chances(t)')
  <2>1. /\ UNCHANGED <<log, lastDelivered, pel, retry, processed, cur, verdict>>
        /\ phase[th] = "xdel" /\ phase' = [phase EXCEPT ![th] = "final"]
        /\ stream' \subseteq stream
    BY <1>16 DEF XDel
  <2>2. \A id \in Ids : Deliverable(id)' => Deliverable(id)
    BY <2>1 DEF Deliverable, Delivered, Pending
  <2>3. \A u \in Threads : Bears(u, t)' => Bears(u, t)
    BY <2>1 DEF Bears, TypeOK
  <2>4. Bearers(t)' \subseteq Bearers(t)
    BY <2>3 DEF Bearers
  <2>5. QED
    BY <1>1, <1>2, <1>3, <2>1, <2>2, <2>4, RetryMessagesFrame
<1>17. ASSUME NEW th \in Threads, CountCompleted(th) \/ AddDead(th) \/ PipelineError(th)
       PROVE  PassedOn(Chances(t), Chances(t)')
  <2>1. UNCHANGED <<log, stream, lastDelivered, pel, retry, processed>> /\ ThreadFrame
    BY <1>17, ReleaseFrame DEF CountCompleted, AddDead, PipelineError, redisVars
  <2>2. QED
    BY <1>4, <1>5, <2>1 DEF ThreadFrame
<1>18. ASSUME NEW th \in Threads, AddRetry(th) PROVE PassedOn(Chances(t), Chances(t)')
  <2>1. /\ UNCHANGED <<log, stream, lastDelivered, pel, processed>>
        /\ phase[th] = "final" /\ verdict[th] = "retry"
        /\ retry' = retry \cup {Copy(th)} /\ Release(th)
    BY <1>18 DEF AddRetry
  <2>2. ThreadFrame /\ cur[th] # 0 /\ cur'[th] = 0
    BY <2>1, ReleaseFrame DEF Release, TypeOK
  <2>3. RetryMessages(t)' \subseteq RetryMessages(t) /\ Bearers(t)' \subseteq Bearers(t)
    BY <1>5, <2>1, <2>2, RetryMessagesFrame, BearersFrame DEF ThreadFrame
  <2> DEFINE x == <<"thread", th>>
             y == <<"copy", Copy(th)>>
  <2>4. CASE log[cur[th]].task = t
    <3>1. x \in Bearers(t)
      BY <2>1, <2>2, <2>4 DEF Bearers, Bears
    <3>2. x \notin Bearers(t)'
      <4>1. ~Bears(th, t)'
        BY <2>2 DEF Bears
      <4>2. QED
        BY <4>1 DEF Bearers
    <3>3. x \notin FreeKey(t) /\ x \notin RetryCopies(t) /\ x \notin RetryMessages(t)
      BY ChancesDiffer
    <3>4. RetryCopies(t)' \subseteq RetryCopies(t) \cup {y}
      BY <2>1 DEF RetryCopies
    <3> HIDE DEF x, y
    <3>5. x \in Chances(t) /\ Chances(t)' \subseteq (Chances(t) \ {x}) \cup {y}
      BY <1>2, <2>1, <2>3, <3>1, <3>2, <3>3, <3>4 DEF Chances
    <3>6. QED
      BY <3>5 DEF PassedOn
  <2>5. CASE log[cur[th]].task # t
    <3>1. RetryCopies(t)' \subseteq RetryCopies(t)
      BY <2>1, <2>5 DEF RetryCopies, Copy
    <3>2. QED
      BY <1>1, <1>2, <2>1, <2>3, <3>1
  <2>6. QED
    BY <2>4, <2>5
<1>19. ASSUME NEW task \in Tasks, ExpireProcessed(task)
       PROVE  PassedOn(Chances(t), Chances(t)')
  <2>1. /\ lapses' = [lapses EXCEPT ![task] = @ + 1] /\ processed' = processed \ {task}
        /\ UNCHANGED <<log, stream, lastDelivered, pel, retry, threadVars>>
    BY <1>19 DEF ExpireProcessed
  <2>2. task # t
    <3>1. task = t => lapses'[t] = lapses[t] + 1 /\ lapses[t] \in Nat
      BY <2>1 DEF TypeOK
    <3>2. QED
      BY <3>1
  <2>3. FreeKey(t)' \subseteq FreeKey(t)
    BY <2>1, <2>2 DEF FreeKey
  <2>4. RetryMessages(t)' \subseteq RetryMessages(t)
    BY <1>5, <2>1, RetryMessagesFrame
  <2>5. Bearers(t)' \subseteq Bearers(t)
    BY <2>1, BearersFrame DEF threadVars
  <2>6. QED
    BY <1>1, <1>3, <2>1, <2>3, <2>4, <2>5
<1>20. CASE UNCHANGED vars
  BY <1>4, <1>5, <1>20 DEF vars, redisVars, threadVars
<1>21. QED
  BY <1>6, <1>7, <1>8, <1>9, <1>10, <1>12, <1>13, <1>14, <1>15, <1>16, <1>17, <1>18, <1>19, <1>20
  DEF Next, Scheduler, ThreadStep, Begin, Pipeline

(* A lapse is never forgotten. *)
LEMMA LapsesGrow ==
    ASSUME TypeOK, [Next]_vars, NEW t \in Tasks, lapses'[t] = 0
    PROVE  lapses[t] = 0
<1>1. lapses' = lapses \/ \E task \in Tasks : lapses' = [lapses EXCEPT ![task] = @ + 1]
  <2>1. ASSUME NEW th \in Threads, NEW id \in batch[th], BeginFailOpen(th, id)
        PROVE  \E task \in Tasks : lapses' = [lapses EXCEPT ![task] = @ + 1]
    <3>1. log[id].task \in Tasks
      BY EntryType, NumberTypes
    <3>2. QED
      BY <2>1, <3>1 DEF BeginFailOpen
  <2>2. ASSUME NEW task \in Tasks, ExpireProcessed(task)
        PROVE  lapses' = [lapses EXCEPT ![task] = @ + 1]
    BY <2>2 DEF ExpireProcessed
  <2>3. ASSUME \/ \E task \in Tasks : Enqueue(task) \/ EnqueueScheduled(task)
               \/ \E c \in retry : EnqueueRetry(c)
               \/ \E w \in Workers : Fetch(w) \/ Process(w)
        PROVE  lapses' = lapses
    BY <2>3
    DEF Enqueue, EnqueueScheduled, EnqueueRetry, Fetch, Consume, RecoverOwnPending,
        ClaimStale, Process, Start, Shutdown, MainStops, SubscribeFails, Crash, Exit,
        Terminate, historyVars
  <2>4. ASSUME NEW th \in Threads, ThreadStep(th),
               \A id \in batch[th] : ~BeginFailOpen(th, id)
        PROVE  lapses' = lapses
    BY <2>4
    DEF ThreadStep, Begin, DropInvalid, BeginRetry, BeginFirst, SkipProcessed, Succeed,
        Fail, Pipeline, XAck, XDel, CountCompleted, AddRetry, AddDead, PipelineError,
        historyVars
  <2>5. QED
    BY <2>1, <2>2, <2>3, <2>4 DEF Next, Scheduler, vars, historyVars
<1>2. lapses \in [Tasks -> Nat]
  BY DEF TypeOK
<1>3. QED
  BY <1>1, <1>2

(* In the beginning a task has its free key. *)
LEMMA OneChanceInit == Init => OneChance
<1> SUFFICES ASSUME Init, NEW t \in Tasks PROVE AtMostOne(Chances(t))
  BY DEF OneChance
<1>1. retry = {} /\ log = << >> /\ \A th \in Threads : cur[th] = 0
  BY DEF Init
<1>2. RetryCopies(t) = {} /\ RetryMessages(t) = {} /\ Bearers(t) = {}
  BY <1>1 DEF RetryCopies, RetryMessages, RetryMessage, Bearers, Bears, Ids
<1>3. Chances(t) \subseteq {<<"key", t>>}
  BY <1>2 DEF Chances, FreeKey
<1>4. QED
  BY <1>3 DEF AtMostOne

(* SET NX, XACK before ZADD and XAUTOCLAIM's MinIdle together keep runs of  *)
(* one task apart: across first attempts, retries, claims by other workers, *)
(* lost replies, shutdowns and crashes no two goroutines run it at the same *)
(* time (processTask, handleFailure, claimStale).                           *)
THEOREM RunsAreExclusive == Spec => []NoConcurrentRuns
<1> DEFINE Single == ~SlowHandlers /\ ~StableNames => Apart /\ OneChance
<1>1. Init => Single
  BY ApartInit, OneChanceInit
<1>2. TypeOK /\ StreamInv /\ Single /\ [Next]_vars => Single'
  <2> SUFFICES ASSUME TypeOK, StreamInv, Apart, OneChance, [Next]_vars,
                      ~SlowHandlers, ~StableNames
               PROVE  Apart' /\ OneChance'
    OBVIOUS
  <2>1. Apart'
    BY ApartStep
  <2>2. ASSUME NEW t \in Tasks, lapses'[t] = 0 PROVE AtMostOne(Chances(t)')
    <3>1. lapses[t] = 0
      BY <2>2, LapsesGrow
    <3>2. PassedOn(Chances(t), Chances(t)')
      BY <2>2, <3>1, ChanceStep
    <3>3. QED
      BY <3>1, <3>2, PassedOnOne DEF OneChance
  <2>3. QED
    BY <2>1, <2>2 DEF OneChance, AtMostOne
<1>3. TypeOK /\ StreamInv /\ Single => NoConcurrentRuns
  <2> SUFFICES ASSUME TypeOK, StreamInv, Apart, OneChance, NEW t \in Tasks, lapses[t] = 0,
                      NEW a \in Threads, NEW b \in Threads,
                      phase[a] = "run", log[cur[a]].task = t,
                      phase[b] = "run", log[cur[b]].task = t
               PROVE  a = b
    BY DEF NoConcurrentRuns
  <2>1. AtMostOne(Chances(t))
    BY DEF OneChance
  <2>2. ASSUME NEW c \in Threads, phase[c] = "run", log[cur[c]].task = t
        PROVE  /\ cur[c] # 0
               /\ \/ <<"thread", c>> \in Chances(t)
                  \/ <<"message", cur[c]>> \in Chances(t)
    <3>1. cur[c] \in Ids /\ cur[c] # 0 /\ log[cur[c]].rc \in Nat
      BY <2>2, CurType, EntryType DEF TypeOK
    <3>2. cur[c] \in Pending /\ cur[c] \in stream
      BY <2>2 DEF Apart, InHand, StreamInv, PendingInStream
    <3>3. CASE log[cur[c]].rc = 0
      BY <2>2, <3>1, <3>3 DEF Bears, Bearers, Chances
    <3>4. CASE log[cur[c]].rc > 0
      BY <2>2, <3>1, <3>2, <3>4
      DEF RetryMessage, RetryMessages, Deliverable, Chances
    <3>5. QED
      BY <3>1, <3>3, <3>4
  <2>3. /\ cur[a] # 0
        /\ <<"thread", a>> \in Chances(t) \/ <<"message", cur[a]>> \in Chances(t)
    BY <2>2
  <2>4. <<"thread", b>> \in Chances(t) \/ <<"message", cur[b]>> \in Chances(t)
    BY <2>2
  <2>5. a = b \/ cur[a] = cur[b]
    BY <2>1, <2>3, <2>4 DEF AtMostOne
  <2>6. QED
    BY <2>3, <2>5 DEF Apart, Alone
<1>4. QED
  BY <1>1, <1>2, <1>3, TypeCorrect, StreamInit, StreamStep, PTL DEF Spec

-----------------------------------------------------------------------------
(* The counter.  What was counted has left the stream, and whoever is at    *)
(* the last command of a pipeline has a message that has left it, too, and  *)
(* was not counted.                                                         *)
CountInv ==
    /\ completed = Cardinality(counted)
    /\ counted \cap stream = {}
    /\ \A th \in Threads : phase[th] = "final" => cur[th] \notin stream \cup counted

(* Messages are finite in number. *)
LEMMA CountTypes ==
    ASSUME TypeOK
    PROVE  IsFiniteSet(counted) /\ Cardinality(counted) \in Nat
<1>1. IsFiniteSet(Ids)
  <2>1. 1 \in Int /\ Len(log) \in Int
    BY NumberTypes
  <2>2. QED
    BY <2>1, FS_Interval, Zenon DEF Ids
<1>2. counted \subseteq Ids
  BY DEF TypeOK
<1>3. IsFiniteSet(counted)
  BY <1>1, <1>2, FS_Subset, Zenon
<1>4. QED
  BY <1>3, FS_CardinalityType, Zenon

(* A step that counts nothing, adds at most the next message to the stream  *)
(* and puts nobody at the last command of a pipeline.                       *)
LEMMA CountFrame ==
    ASSUME TypeOK, CountInv, UNCHANGED <<completed, counted>>,
           stream' \subseteq stream \cup {Len(log) + 1},
           \A u \in Threads : phase'[u] = "final" => phase[u] = "final" /\ cur'[u] = cur[u]
    PROVE  CountInv'
<1>1. completed' = Cardinality(counted')
  BY DEF CountInv
<1>2. Len(log) + 1 \notin Ids
  BY NumberTypes DEF Ids
<1>3. counted' \cap stream' = {}
  BY <1>2 DEF CountInv, TypeOK
<1>4. ASSUME NEW u \in Threads, phase'[u] = "final" PROVE cur'[u] \notin stream' \cup counted'
  <2>1. phase[u] = "final" /\ cur'[u] = cur[u]
    BY <1>4
  <2>2. cur[u] \in Ids
    BY <2>1, CurType
  <2>3. QED
    BY <1>2, <2>1, <2>2 DEF CountInv
<1>5. QED
  BY <1>1, <1>3, <1>4 DEF CountInv

(* Every step keeps it. *)
LEMMA CountStep ==
    ASSUME TypeOK, TypeOK', Apart, CountInv, [Next]_vars
    PROVE  CountInv'
<1>1. ASSUME NEW t, NEW rc, NEW ok, XAdd(t, rc, ok),
             UNCHANGED <<completed, threadVars, historyVars>>
      PROVE  CountInv'
  BY <1>1, CountFrame DEF XAdd, threadVars, historyVars
<1>2. ASSUME NEW t \in Tasks, Enqueue(t) \/ EnqueueScheduled(t) \/ ExpireProcessed(t)
      PROVE  CountInv'
  <2>1. CASE UNCHANGED <<log, stream>>
    BY <1>2, <2>1, CountFrame
    DEF Enqueue, EnqueueScheduled, ExpireProcessed, threadVars, historyVars
  <2>2. CASE \E rc, ok : XAdd(t, rc, ok)
    BY <1>1, <1>2, <2>2, CountFrame
    DEF Enqueue, EnqueueScheduled, ExpireProcessed, threadVars, XAdd
  <2>3. QED
    BY <1>2, <2>1, <2>2 DEF Enqueue, EnqueueScheduled, ExpireProcessed
<1>3. ASSUME NEW c \in retry, EnqueueRetry(c) PROVE CountInv'
  BY <1>1, <1>3 DEF EnqueueRetry
<1>4. ASSUME NEW w \in Workers, Fetch(w) PROVE CountInv'
  <2>1. UNCHANGED <<stream, completed, counted, cur>>
    BY <1>4 DEF Fetch, Consume, RecoverOwnPending, ClaimStale, redisVars, historyVars
  <2>2. \A u \in Threads : phase'[u] \in {phase[u], "down"}
    BY <1>4 DEF Fetch, Consume, RecoverOwnPending, ClaimStale, Deliver, TypeOK
  <2>3. QED
    BY <2>1, <2>2, CountFrame
<1>5. ASSUME ThreadFrame, UNCHANGED <<stream, completed, counted>> PROVE CountInv'
  BY <1>5, CountFrame DEF ThreadFrame
<1>6. ASSUME NEW w \in Workers, Process(w) PROVE CountInv'
  <2>1. UNCHANGED counted
    BY <1>6
    DEF Process, Start, Shutdown, MainStops, SubscribeFails, Crash, Exit, Terminate, historyVars
  <2>2. QED
    BY <1>5, <1>6, <2>1, ProcessFrame DEF redisVars
<1>7. ASSUME NEW th \in Threads, Begin(th) PROVE CountInv'
  <2>1. \A u \in Threads : phase'[u] = "final" => phase[u] = "final" /\ cur'[u] = cur[u]
    <3>1. PICK id \in batch[th] :
              \/ DropInvalid(th, id)
              \/ \E where \in {"run", "xack"} : \E v : Take(th, id, where, v)
      BY <1>7 DEF Begin, BeginRetry, BeginFirst, SkipProcessed, BeginFailOpen
    <3>2. CASE DropInvalid(th, id)
      BY <3>2 DEF DropInvalid, AfterMessage, TypeOK
    <3>3. ASSUME NEW where \in {"run", "xack"}, NEW v, Take(th, id, where, v)
          PROVE  \A u \in Threads :
                     phase'[u] = "final" => phase[u] = "final" /\ cur'[u] = cur[u]
      BY <3>3 DEF Take, TypeOK
    <3>4. QED
      BY <3>1, <3>2, <3>3
  <2>2. UNCHANGED <<stream, completed, counted>>
    BY <1>7
    DEF Begin, DropInvalid, BeginRetry, BeginFirst, SkipProcessed, BeginFailOpen, redisVars,
        historyVars
  <2>3. QED
    BY <2>1, <2>2, CountFrame
<1>8. ASSUME NEW th \in Threads, Succeed(th) \/ Fail(th) \/ XAck(th) PROVE CountInv'
  <2>1. \A u \in Threads : phase'[u] \in {phase[u], "xack", "xdel"}
    <3>1. /\ phase' \in {[phase EXCEPT ![th] = "xack"], [phase EXCEPT ![th] = "xdel"]}
          /\ phase \in [Threads -> {"down", "ready", "run", "xack", "xdel", "final"}]
      BY <1>8 DEF Succeed, Fail, XAck, TypeOK
    <3>2. QED
      BY <3>1
  <2>2. UNCHANGED <<stream, completed, counted, cur>>
    BY <1>8 DEF Succeed, Fail, XAck, redisVars, historyVars
  <2>3. QED
    BY <2>1, <2>2, CountFrame
<1>9. ASSUME NEW th \in Threads, AddRetry(th) \/ AddDead(th) \/ PipelineError(th)
      PROVE  CountInv'
  BY <1>5, <1>9, ReleaseFrame DEF AddRetry, AddDead, PipelineError, redisVars, historyVars
<1>10. ASSUME NEW th \in Threads, XDel(th) PROVE CountInv'
  <2>1. /\ phase[th] = "xdel" /\ stream' = stream \ {cur[th]}
        /\ phase' = [phase EXCEPT ![th] = "final"]
        /\ UNCHANGED <<cur, completed, counted>>
    BY <1>10 DEF XDel, historyVars
  <2>2. cur[th] \in stream
    BY <2>1 DEF Apart, InHand
  <2>3. \A u \in Threads : phase'[u] = IF u = th THEN "final" ELSE phase[u]
    BY <2>1 DEF TypeOK
  <2>4. QED
    BY <2>1, <2>2, <2>3 DEF CountInv
<1>11. ASSUME NEW th \in Threads, CountCompleted(th) PROVE CountInv'
  <2>1. /\ phase[th] = "final" /\ completed' = completed + 1 /\ Release(th)
        /\ counted' = counted \cup {cur[th]}
        /\ UNCHANGED stream
    BY <1>11 DEF CountCompleted
  <2>2. cur[th] # 0 /\ cur[th] \notin stream \cup counted
    BY <2>1 DEF TypeOK, CountInv
  <2>3. \A u \in Threads : u # th => cur[u] # cur[th] /\ cur'[u] = cur[u] /\ phase'[u] = phase[u]
    BY <2>1, <2>2 DEF Apart, Alone, Release, TypeOK
  <2>4. phase'[th] # "final"
    BY <2>1 DEF Release, AfterMessage, TypeOK
  <2>5. Cardinality(counted') = Cardinality(counted) + 1
    BY <2>1, <2>2, CountTypes, FS_AddElement
  <2>6. QED
    BY <2>1, <2>2, <2>3, <2>4, <2>5 DEF CountInv
<1>12. CASE UNCHANGED vars
  BY <1>12, CountFrame DEF vars, redisVars, threadVars, historyVars
<1>13. QED
  BY <1>2, <1>3, <1>4, <1>6, <1>7, <1>8, <1>9, <1>10, <1>11, <1>12
  DEF Next, Scheduler, ThreadStep, Pipeline

(* Ack counts a message when its pipeline ends.  While no goroutine takes   *)
(* a message from another that holds it, every increment is for a message   *)
(* that was not counted before.                                             *)
THEOREM CompletedIsCountedOnce == Spec => []CompletedCountsOnce
<1> DEFINE Exact == ~SlowHandlers /\ ~StableNames => Apart /\ CountInv
<1>1. Init => Exact
  <2> SUFFICES ASSUME Init PROVE Apart /\ CountInv
    OBVIOUS
  <2>1. Apart
    BY ApartInit
  <2>2. Cardinality(counted) = 0
    BY FS_EmptySet DEF Init
  <2>3. QED
    BY <2>1, <2>2 DEF CountInv, Init
<1>2. TypeOK /\ TypeOK' /\ StreamInv /\ Exact /\ [Next]_vars => Exact'
  BY ApartStep, CountStep
<1>3. Exact => CompletedCountsOnce
  BY DEF CompletedCountsOnce, CountInv
<1>4. QED
  BY <1>1, <1>2, <1>3, TypeCorrect, StreamInit, StreamStep, PTL DEF Spec

-----------------------------------------------------------------------------
(* Delivery implements MessageLifecycle.                                    *)

(* The states of the messages form a sequence as long as the stream's log. *)
LEMMA MessagesType ==
    ASSUME TypeOK
    PROVE  /\ Messages \in Seq(Lifecycle!States)
           /\ Len(Messages) = Len(log)
           /\ DOMAIN Messages = Ids
<1>1. Len(log) \in Nat
  BY NumberTypes
<1>2. \A id \in Ids : MessageState(id) \in Lifecycle!States
  BY DEF MessageState, Lifecycle!States
<1>3. Messages \in [1 .. Len(log) -> Lifecycle!States]
  BY <1>2 DEF Messages, Ids
<1>4. QED
  BY <1>1, <1>3, IsASeq DEF Messages, Ids

(* A step that leaves the stream, what was delivered and what is pending    *)
(* alone leaves every message in its state.                                 *)
LEMMA MessagesStutter ==
    ASSUME UNCHANGED <<log, stream, lastDelivered, Pending>>
    PROVE  UNCHANGED Messages
BY DEF Messages, MessageState, Ids, Delivered

(* XADD appends a message that waits. *)
LEMMA MessagesAdd ==
    ASSUME TypeOK,
           NEW t \in Tasks, NEW rc \in Nat, NEW ok \in BOOLEAN, XAdd(t, rc, ok),
           UNCHANGED <<lastDelivered, Pending>>
    PROVE  Lifecycle!Add
<1> DEFINE n == Len(log) + 1
           new == Append(Messages, "waiting")
<1>1. /\ Ids' = Ids \cup {n}
      /\ Len(log') = n
      /\ stream' = stream \cup {n}
  BY XAddType DEF TypeOK, XAdd
<1>2. n \in Nat /\ n \notin Ids /\ lastDelivered < n /\ Pending \subseteq Ids
  <2>1. Len(log) \in Nat /\ lastDelivered \in 0 .. Len(log)
    BY NumberTypes DEF TypeOK
  <2>2. QED
    BY <2>1, NumberTypes DEF Ids
<1>3. ASSUME NEW id \in Ids PROVE Messages'[id] = Messages[id]
  <2>1. id # n /\ id \in Ids'
    BY <1>1, <1>2
  <2>2. MessageState(id)' = MessageState(id)
    BY <1>1, <2>1 DEF MessageState, Delivered
  <2>3. QED
    BY <2>1, <2>2 DEF Messages
<1>4. ASSUME NEW id \in {n} PROVE Messages'[id] = "waiting"
  <2>1. id \in Ids' /\ id \in stream' /\ id \notin Pending'
    BY <1>1, <1>2
  <2>2. ~Delivered(id)'
    BY <1>2, NumberTypes DEF Delivered
  <2>3. QED
    BY <2>1, <2>2 DEF Messages, MessageState
<1>5. Messages \in Seq(Lifecycle!States) /\ Len(Messages) + 1 = n
  BY MessagesType
<1>6. "waiting" \in Lifecycle!States
  BY DEF Lifecycle!States
<1>7. /\ new \in Seq(Lifecycle!States)
      /\ Len(new) = n
      /\ \A i \in 1 .. Len(Messages) : new[i] = Messages[i]
      /\ new[n] = "waiting"
  BY <1>5, <1>6, AppendProperties
<1>8. new = [i \in 1 .. n |-> new[i]]
  BY <1>7, LenProperties
<1>9. Messages' = [i \in 1 .. n |-> Messages'[i]]
  BY <1>1 DEF Messages, Ids
<1>10. \A i \in 1 .. n : Messages'[i] = new[i]
  BY <1>1, <1>3, <1>4, <1>5, <1>7 DEF Ids
<1>11. Messages' = new
  BY <1>8, <1>9, <1>10
<1>12. QED
  BY <1>11 DEF Lifecycle!Add

(* A message that was not delivered waits, and only such a message does. *)
LEMMA WaitingIsUndelivered ==
    ASSUME TypeOK, StreamInv, NEW id \in Ids
    PROVE  Messages[id] = "waiting" <=> id \in Undelivered
<1>1. Messages[id] = MessageState(id)
  BY DEF Messages
<1>2. id \in Pending => Delivered(id)
  BY DEF StreamInv, PendingInStream
<1>3. Delivered(id) <=> ~(id > lastDelivered)
  BY NumberTypes DEF Delivered
<1>4. QED
  BY <1>1, <1>2, <1>3 DEF MessageState, Undelivered

(* XREADGROUP is a delivery. *)
LEMMA MessagesDeliver ==
    ASSUME TypeOK, StreamInv, NEW w \in Workers, Consume(w)
    PROVE  Lifecycle!Deliver
<1> DEFINE last == lastDelivered'
           moved == {id \in DOMAIN Messages : id <= last /\ Messages[id] = "waiting"}
<1>1. /\ lastDelivered < last
      /\ last \in Ids
      /\ Pending' = Pending \cup {id \in Undelivered : id <= last}
      /\ UNCHANGED <<log, stream, Ids>>
  BY ConsumeDelivers DEF Ids
<1>2. DOMAIN Messages = Ids
  BY DEF Messages
<1>3. moved = {id \in Undelivered : id <= last}
  BY <1>2, NumberTypes, WaitingIsUndelivered
<1>4. ASSUME NEW id \in Ids, id \in moved PROVE Messages'[id] = "pending"
  <2>1. id \in stream' /\ id \in Pending' /\ id \in Ids'
    BY <1>1, <1>3, <1>4 DEF Undelivered
  <2>2. QED
    BY <2>1 DEF Messages, MessageState
<1>5. ASSUME NEW id \in Ids, id \notin moved PROVE Messages'[id] = Messages[id]
  <2>1. /\ id \in stream' <=> id \in stream
        /\ id \in Pending' <=> id \in Pending
        /\ id \in Ids'
    BY <1>1, <1>3, <1>5
  <2>2. id \in stream => (Delivered(id)' <=> Delivered(id))
    BY <1>1, <1>3, <1>5, NumberTypes DEF Delivered, Undelivered
  <2>3. QED
    BY <2>1, <2>2 DEF Messages, MessageState
<1>6. Messages' = [id \in Ids |-> Messages'[id]]
  BY <1>1 DEF Messages
<1>7. Messages' = [id \in DOMAIN Messages |->
                      IF id \in moved THEN "pending" ELSE Messages[id]]
  BY <1>2, <1>4, <1>5, <1>6
<1>8. Lifecycle!Move(moved, "waiting", "pending")
  BY <1>7 DEF Lifecycle!Move
<1>9. QED
  BY <1>1, <1>2, <1>8 DEF Lifecycle!Deliver

(* XACK of a message that is pending acknowledges it, in the stream; of any *)
(* other message it changes nothing.                                        *)
LEMMA MessagesAck ==
    ASSUME TypeOK, StreamInv, NEW x \in Ids,
           UNCHANGED <<log, stream, lastDelivered>>, pel' = Acked(x)
    PROVE  Lifecycle!Ack \/ UNCHANGED Messages
<1>1. Pending' = Pending \ {x} /\ Ids' = Ids /\ DOMAIN Messages = Ids
  BY DEF Pending, Acked, Ids, Messages
<1>2. CASE x \notin Pending
  <2>1. Pending' = Pending
    BY <1>1, <1>2
  <2>2. QED
    BY <2>1, MessagesStutter
<1>3. CASE x \in Pending
  <2>1. x \in stream /\ Delivered(x)
    BY <1>3 DEF StreamInv, PendingInStream
  <2>2. Messages[x] = "pending"
    BY <1>3, <2>1 DEF Messages, MessageState
  <2>3. MessageState(x)' = "acked"
    BY <1>1, <2>1 DEF MessageState, Delivered
  <2>4. \A id \in Ids \ {x} : MessageState(id)' = MessageState(id)
    BY <1>1 DEF MessageState, Delivered
  <2>5. Messages' = [id \in DOMAIN Messages |->
                        IF id \in {x} THEN "acked" ELSE Messages[id]]
    BY <1>1, <2>3, <2>4 DEF Messages
  <2>6. Lifecycle!Move({x}, "pending", "acked")
    BY <2>2, <2>5 DEF Lifecycle!Move
  <2>7. QED
    BY <1>1, <2>6 DEF Lifecycle!Ack
<1>4. QED
  BY <1>2, <1>3

(* XDEL of a delivered message that nobody has pending deletes it. *)
LEMMA MessagesDelete ==
    ASSUME TypeOK, NEW x \in Ids, Delivered(x), x \notin Pending,
           UNCHANGED <<log, lastDelivered, pel>>, stream' = stream \ {x}
    PROVE  Lifecycle!Delete \/ UNCHANGED Messages
<1>1. Pending' = Pending /\ Ids' = Ids /\ DOMAIN Messages = Ids
  BY DEF Pending, Ids, Messages
<1>2. CASE x \notin stream
  <2>1. stream' = stream
    BY <1>2
  <2>2. QED
    BY <1>1, <2>1, MessagesStutter
<1>3. CASE x \in stream
  <2>1. Messages[x] = "acked"
    BY <1>3 DEF Messages, MessageState
  <2>2. MessageState(x)' = "deleted"
    BY DEF MessageState
  <2>3. \A id \in Ids \ {x} : MessageState(id)' = MessageState(id)
    BY <1>1 DEF MessageState, Delivered
  <2>4. Messages' = [id \in DOMAIN Messages |->
                        IF id \in {x} THEN "deleted" ELSE Messages[id]]
    BY <1>1, <2>2, <2>3 DEF Messages
  <2>5. Lifecycle!Move({x}, "acked", "deleted")
    BY <2>1, <2>4 DEF Lifecycle!Move
  <2>6. QED
    BY <1>1, <2>5 DEF Lifecycle!Delete
<1>4. QED
  BY <1>2, <1>3

(* Every step of Delivery is a step of the life of one message, or of none. *)
LEMMA LifecycleStep ==
    ASSUME TypeOK, StreamInv, [Next]_vars
    PROVE  [Lifecycle!Next]_Messages
<1>1. ASSUME NEW t \in Tasks, Enqueue(t) PROVE [Lifecycle!Next]_Messages
  <2>1. UNCHANGED <<lastDelivered, pel>>
    BY <1>1 DEF Enqueue
  <2>2. CASE XAdd(t, 0, TRUE)
    BY <2>1, <2>2, MessagesAdd DEF Pending, Lifecycle!Next
  <2>3. CASE UNCHANGED <<log, stream>>
    BY <2>1, <2>3, MessagesStutter DEF Pending
  <2>4. QED
    BY <1>1, <2>2, <2>3 DEF Enqueue
<1>2. ASSUME NEW t \in Tasks, ExpireProcessed(t) PROVE [Lifecycle!Next]_Messages
  <2>1. UNCHANGED <<log, stream, lastDelivered, pel>>
    BY <1>2 DEF ExpireProcessed, redisVars
  <2>2. QED
    BY <2>1, MessagesStutter DEF Pending
<1>3. ASSUME NEW t \in Tasks, EnqueueScheduled(t) PROVE [Lifecycle!Next]_Messages
  <2>1. UNCHANGED <<lastDelivered, pel>>
    BY <1>3 DEF EnqueueScheduled
  <2>2. XAdd(t, 0, t \notin Undecodable) /\ (t \notin Undecodable) \in BOOLEAN
    BY <1>3 DEF EnqueueScheduled
  <2>3. QED
    BY <2>1, <2>2, MessagesAdd DEF Pending, Lifecycle!Next
<1>4. ASSUME NEW c \in retry, EnqueueRetry(c) PROVE [Lifecycle!Next]_Messages
  <2>1. UNCHANGED <<lastDelivered, pel>>
    BY <1>4 DEF EnqueueRetry
  <2>2. c.task \in Tasks /\ c.rc \in Nat
    BY DEF TypeOK, RetryCopy
  <2>3. XAdd(c.task, c.rc, c.task \notin Undecodable)
    BY <1>4 DEF EnqueueRetry
  <2>4. QED
    BY <2>1, <2>2, <2>3, MessagesAdd DEF Pending, Lifecycle!Next
<1>5. ASSUME NEW w \in Workers, Consume(w) PROVE [Lifecycle!Next]_Messages
  BY <1>5, MessagesDeliver DEF Lifecycle!Next
<1>6. ASSUME NEW w \in Workers, RecoverOwnPending(w) PROVE [Lifecycle!Next]_Messages
  <2>1. UNCHANGED <<log, stream, lastDelivered, pel>>
    BY <1>6 DEF RecoverOwnPending, redisVars
  <2>2. QED
    BY <2>1, MessagesStutter DEF Pending
<1>7. ASSUME NEW w \in Workers, ClaimStale(w) PROVE [Lifecycle!Next]_Messages
  <2> DEFINE got == FirstOf({id \in Pending : Stale(id)})
  <2>1. /\ UNCHANGED <<log, stream, lastDelivered>>
        /\ pel' = [v \in Workers |-> IF v = w THEN pel[v] \cup got
                                                ELSE pel[v] \ got]
    BY <1>7 DEF ClaimStale
  <2>2. got \subseteq Pending
    BY FirstOfSubset
  <2>3. Pending' = Pending
    <3> HIDE DEF got
    <3>1. QED
      BY <2>1, <2>2 DEF Pending
  <2>4. QED
    BY <2>1, <2>3, MessagesStutter
<1>8. ASSUME NEW w \in Workers, Start(w) PROVE [Lifecycle!Next]_Messages
  <2>1. UNCHANGED <<log, stream, lastDelivered, pel>>
    BY <1>8 DEF Start, redisVars
  <2>2. QED
    BY <2>1, MessagesStutter DEF Pending
<1>9. ASSUME NEW w \in Workers, Shutdown(w) PROVE [Lifecycle!Next]_Messages
  <2>1. UNCHANGED <<log, stream, lastDelivered, pel>>
    BY <1>9 DEF Shutdown, redisVars
  <2>2. QED
    BY <2>1, MessagesStutter DEF Pending
<1>10. ASSUME NEW w \in Workers, MainStops(w) PROVE [Lifecycle!Next]_Messages
  <2>1. UNCHANGED <<log, stream, lastDelivered, pel>>
    BY <1>10 DEF MainStops, redisVars
  <2>2. QED
    BY <2>1, MessagesStutter DEF Pending
<1>11. ASSUME NEW w \in Workers, SubscribeFails(w) PROVE [Lifecycle!Next]_Messages
  <2>1. UNCHANGED <<log, stream, lastDelivered, pel>>
    BY <1>11 DEF SubscribeFails, redisVars
  <2>2. QED
    BY <2>1, MessagesStutter DEF Pending
<1>12. ASSUME NEW w \in Workers, Crash(w) PROVE [Lifecycle!Next]_Messages
  <2>1. UNCHANGED <<log, stream, lastDelivered, pel>>
    BY <1>12 DEF Crash, Terminate, redisVars
  <2>2. QED
    BY <2>1, MessagesStutter DEF Pending
<1>13. ASSUME NEW w \in Workers, Exit(w) PROVE [Lifecycle!Next]_Messages
  <2>1. UNCHANGED <<log, stream, lastDelivered, pel>>
    BY <1>13 DEF Exit, Terminate, redisVars
  <2>2. QED
    BY <2>1, MessagesStutter DEF Pending
<1>14. ASSUME NEW th \in Threads, NEW id \in batch[th], DropInvalid(th, id)
       PROVE  [Lifecycle!Next]_Messages
  <2>1. UNCHANGED <<log, stream, lastDelivered>> /\ (pel' = Acked(id) \/ pel' = pel)
    BY <1>14 DEF DropInvalid
  <2>2. id \in Ids
    BY DEF TypeOK
  <2>3. CASE pel' = Acked(id)
    BY <2>1, <2>2, <2>3, MessagesAck DEF Lifecycle!Next
  <2>4. CASE pel' = pel
    BY <2>1, <2>4, MessagesStutter DEF Pending
  <2>5. QED
    BY <2>1, <2>3, <2>4
<1>15. ASSUME NEW th \in Threads, NEW id \in batch[th], BeginRetry(th, id)
       PROVE  [Lifecycle!Next]_Messages
  <2>1. UNCHANGED <<log, stream, lastDelivered, pel>>
    BY <1>15 DEF BeginRetry, redisVars
  <2>2. QED
    BY <2>1, MessagesStutter DEF Pending
<1>16. ASSUME NEW th \in Threads, NEW id \in batch[th], BeginFirst(th, id)
       PROVE  [Lifecycle!Next]_Messages
  <2>1. UNCHANGED <<log, stream, lastDelivered, pel>>
    BY <1>16 DEF BeginFirst, redisVars
  <2>2. QED
    BY <2>1, MessagesStutter DEF Pending
<1>17. ASSUME NEW th \in Threads, NEW id \in batch[th], SkipProcessed(th, id)
       PROVE  [Lifecycle!Next]_Messages
  <2>1. UNCHANGED <<log, stream, lastDelivered, pel>>
    BY <1>17 DEF SkipProcessed, redisVars
  <2>2. QED
    BY <2>1, MessagesStutter DEF Pending
<1>18. ASSUME NEW th \in Threads, NEW id \in batch[th], BeginFailOpen(th, id)
       PROVE  [Lifecycle!Next]_Messages
  <2>1. UNCHANGED <<log, stream, lastDelivered, pel>>
    BY <1>18 DEF BeginFailOpen, redisVars
  <2>2. QED
    BY <2>1, MessagesStutter DEF Pending
<1>19. ASSUME NEW th \in Threads, Succeed(th) PROVE [Lifecycle!Next]_Messages
  <2>1. UNCHANGED <<log, stream, lastDelivered, pel>>
    BY <1>19 DEF Succeed, redisVars
  <2>2. QED
    BY <2>1, MessagesStutter DEF Pending
<1>20. ASSUME NEW th \in Threads, Fail(th) PROVE [Lifecycle!Next]_Messages
  <2>1. UNCHANGED <<log, stream, lastDelivered, pel>>
    BY <1>20 DEF Fail, redisVars
  <2>2. QED
    BY <2>1, MessagesStutter DEF Pending
<1>21. ASSUME NEW th \in Threads, XAck(th) PROVE [Lifecycle!Next]_Messages
  <2>1. UNCHANGED <<log, stream, lastDelivered>> /\ pel' = Acked(cur[th])
    BY <1>21 DEF XAck
  <2>2. cur[th] \in Ids
    BY <1>21, CurType DEF XAck
  <2>3. QED
    BY <2>1, <2>2, MessagesAck DEF Lifecycle!Next
<1>22. ASSUME NEW th \in Threads, XDel(th) PROVE [Lifecycle!Next]_Messages
  <2>1. /\ UNCHANGED <<log, lastDelivered, pel>>
        /\ stream' = stream \ {cur[th]}
        /\ phase[th] = "xdel"
    BY <1>22 DEF XDel
  <2>2. cur[th] \in Ids
    BY <2>1, CurType
  <2>3. Delivered(cur[th]) /\ cur[th] \notin Pending
    BY <2>1 DEF StreamInv
  <2>4. QED
    BY <2>1, <2>2, <2>3, MessagesDelete DEF Lifecycle!Next
<1>23. ASSUME NEW th \in Threads, CountCompleted(th) PROVE [Lifecycle!Next]_Messages
  <2>1. UNCHANGED <<log, stream, lastDelivered, pel>>
    BY <1>23 DEF CountCompleted, redisVars
  <2>2. QED
    BY <2>1, MessagesStutter DEF Pending
<1>24. ASSUME NEW th \in Threads, AddRetry(th) PROVE [Lifecycle!Next]_Messages
  <2>1. UNCHANGED <<log, stream, lastDelivered, pel>>
    BY <1>24 DEF AddRetry, redisVars
  <2>2. QED
    BY <2>1, MessagesStutter DEF Pending
<1>25. ASSUME NEW th \in Threads, AddDead(th) PROVE [Lifecycle!Next]_Messages
  <2>1. UNCHANGED <<log, stream, lastDelivered, pel>>
    BY <1>25 DEF AddDead, redisVars
  <2>2. QED
    BY <2>1, MessagesStutter DEF Pending
<1>26. ASSUME NEW th \in Threads, PipelineError(th) PROVE [Lifecycle!Next]_Messages
  <2>1. UNCHANGED <<log, stream, lastDelivered, pel>>
    BY <1>26 DEF PipelineError, redisVars
  <2>2. QED
    BY <2>1, MessagesStutter DEF Pending
<1>27. CASE UNCHANGED vars
  BY <1>27, MessagesStutter DEF Pending, vars, redisVars
<1>28. QED
  BY <1>1, <1>2, <1>3, <1>4, <1>5, <1>6, <1>7, <1>8, <1>9, <1>10, <1>11,
     <1>12, <1>13, <1>14, <1>15, <1>16, <1>17, <1>18, <1>19, <1>20, <1>21,
     <1>22, <1>23, <1>24, <1>25, <1>26, <1>27
  DEF Next, Scheduler, Fetch, Process, ThreadStep, Begin, Pipeline

(* Claims, recoveries, crashes and failed pipelines never make the stream   *)
(* deliver a message twice for the first time, bring one back, delete one   *)
(* that was not acknowledged or acknowledge one that was not delivered.     *)
THEOREM DeliveryImplementsLifecycle == Spec => ImplementsLifecycle
<1>1. Init => Lifecycle!Init
  BY DEF Init, Lifecycle!Init, Messages, Ids
<1>2. QED
  BY <1>1, TypeCorrect, StreamInit, StreamStep, LifecycleStep, PTL
  DEF Spec, ImplementsLifecycle, Lifecycle!Spec

=============================================================================
