-------------------------- MODULE DeadLetterProofs --------------------------
(***************************************************************************)
(* What is proved of Delivery stays true beside the operations on the dead *)
(* letter queue, for any number of requests.  A step of Delivery keeps the *)
(* invariants by the lemmas of DeliveryProofs; what is left are the steps  *)
(* of requests.                                                            *)
(***************************************************************************)
EXTENDS DeadLetter, DeliveryKeeps

-----------------------------------------------------------------------------
(* Types.                                                                   *)

(* Moving a call on to its next command keeps the calls well formed. *)
LEMMA AdvanceType ==
    ASSUME DLTypeOK, NEW k \in calls, NEW where \in {"xdel", "xadd", "del"},
           Advance(k, where)
    PROVE  /\ calls' \subseteq Call
           /\ \A i, j \in calls' : i.by = j.by => i = j
<1> DEFINE n == [k EXCEPT !.at = where]
<1>1. n \in Call /\ n.by = k.by
  BY DEF DLTypeOK, Call
<1>2. calls' = (calls \ {k}) \cup {n}
  BY DEF Advance
<1>3. QED
  BY <1>1, <1>2 DEF DLTypeOK

(* Every step keeps the types. *)
LEMMA DLTypeStep ==
    ASSUME DLTypeOK, [DLNext]_dlVars
    PROVE  DLTypeOK'
<1> TypeOK /\ MaxRequests \in Nat
  BY RequestsAssumption DEF DLTypeOK
<1>1. CASE DeliveryStep
  <2>1. TypeOK'
    BY <1>1, TypeStep DEF DeliveryStep
  <2>2. QED
    BY <1>1, <2>1 DEF DLTypeOK, DeliveryStep
<1>2. ASSUME NEW q \in Requests, RetryTask(q) PROVE DLTypeOK'
  <2>1. PICK c \in dlq : todo' = [todo EXCEPT ![q] = {c}]
    BY <1>2 DEF RetryTask
  <2>2. c \in RetryCopy
    BY DEF TypeOK
  <2>3. TypeOK'
    BY <1>2, TypeStep DEF RetryTask
  <2>4. QED
    BY <1>2, <2>1, <2>2, <2>3 DEF DLTypeOK, RetryTask, Receive
<1>3. ASSUME NEW q \in Requests, RetryAllDead(q) PROVE DLTypeOK'
  <2>1. TypeOK'
    BY <1>3, TypeStep DEF RetryAllDead
  <2>2. dlq \subseteq RetryCopy
    BY DEF TypeOK
  <2>3. QED
    BY <1>3, <2>1, <2>2 DEF DLTypeOK, RetryAllDead, Receive
<1>4. ASSUME NEW q \in Requests, Find(q) PROVE DLTypeOK'
  <2>1. TypeOK'
    BY <1>4, TypeStep DEF Find
  <2>2. \A k \in calls : k.by # q
    BY <1>4 DEF Find
  <2>3. todo' \in [Requests -> SUBSET RetryCopy]
    BY <1>4 DEF DLTypeOK, Find
  <2>4. \/ UNCHANGED calls
        \/ \E d \in dlq : calls' = calls \cup {[by |-> q, at |-> "xdel", copy |-> d]}
    BY <1>4 DEF Find
  <2>5. calls' \subseteq Call /\ \A i, j \in calls' : i.by = j.by => i = j
    <3>1. CASE UNCHANGED calls
      BY <3>1 DEF DLTypeOK
    <3>2. ASSUME NEW d \in dlq,
                 calls' = calls \cup {[by |-> q, at |-> "xdel", copy |-> d]}
          PROVE  calls' \subseteq Call /\ \A i, j \in calls' : i.by = j.by => i = j
      BY <2>2, <3>2 DEF DLTypeOK, TypeOK, Call
    <3>3. QED
      BY <2>4, <3>1, <3>2
  <2>6. QED
    BY <1>4, <2>1, <2>3, <2>5 DEF DLTypeOK, Find
<1>5. ASSUME NEW q \in Requests, Abandon(q) PROVE DLTypeOK'
  <2>1. budget' \in [EventKinds -> Nat]
    BY <1>5, SpendType DEF TypeOK, Abandon, EventKinds
  <2>2. TypeOK'
    BY <1>5, <2>1 DEF TypeOK, Abandon, redisVars, threadVars, historyVars, Ids
  <2>3. QED
    BY <1>5, <2>2 DEF DLTypeOK, Abandon
<1>6. ASSUME NEW k \in calls, XDelDead(k) PROVE DLTypeOK'
  <2>1. TypeOK'
    BY <1>6 DEF TypeOK, XDelDead, threadVars, historyVars, Ids
  <2>2. calls' \subseteq Call /\ \A i, j \in calls' : i.by = j.by => i = j
    BY <1>6, AdvanceType DEF XDelDead
  <2>3. QED
    BY <1>6, <2>1, <2>2 DEF DLTypeOK, XDelDead
<1>7. ASSUME NEW k \in calls, XAddRevived(k) PROVE DLTypeOK'
  <2>1. k.copy.task \in Tasks
    BY DEF DLTypeOK, Call, RetryCopy
  <2>2. TypeOK'
    BY <1>7, <2>1, TypeXAdd DEF TypeOK, XAddRevived
  <2>3. calls' \subseteq Call /\ \A i, j \in calls' : i.by = j.by => i = j
    BY <1>7, AdvanceType DEF XAddRevived
  <2>4. QED
    BY <1>7, <2>2, <2>3 DEF DLTypeOK, XAddRevived
<1>8. ASSUME NEW k \in calls, ClearProcessed(k) PROVE DLTypeOK'
  <2>1. lapses' \in [Tasks -> Nat]
    <3>1. PICK t : lapses' \in {lapses, [lapses EXCEPT ![t] = @ + 1]}
      BY <1>8 DEF ClearProcessed
    <3>2. QED
      BY <3>1 DEF TypeOK
  <2>2. TypeOK'
    BY <1>8, <2>1 DEF TypeOK, ClearProcessed, threadVars, Ids
  <2>3. QED
    BY <1>8, <2>2 DEF DLTypeOK, ClearProcessed
<1>9. ASSUME NEW k \in calls, CallFails(k) PROVE DLTypeOK'
  <2>1. budget' \in [EventKinds -> Nat]
    BY <1>9, SpendType DEF TypeOK, CallFails, EventKinds
  <2>2. TypeOK'
    BY <1>9, <2>1 DEF TypeOK, CallFails, redisVars, threadVars, historyVars, Ids
  <2>3. QED
    BY <1>9, <2>2 DEF DLTypeOK, CallFails
<1>10. CASE PurgeDLQ
  <2>1. TypeOK'
    BY <1>10 DEF TypeOK, PurgeDLQ, threadVars, historyVars, Ids
  <2>2. \A c \in dlq : c.task \in Tasks
    BY DEF TypeOK, RetryCopy
  <2>3. QED
    BY <1>10, <2>1, <2>2 DEF DLTypeOK, PurgeDLQ, Receive
<1>11. CASE UNCHANGED dlVars
  <2>1. TypeOK'
    BY <1>11, TypeStep DEF dlVars
  <2>2. QED
    BY <1>11, <2>1 DEF DLTypeOK, dlVars, apiVars
<1>12. QED
  BY <1>1, <1>2, <1>3, <1>4, <1>5, <1>6, <1>7, <1>8, <1>9, <1>10, <1>11
  DEF DLNext, Serve, RetryFromDLQ

(* Delivery keeps its types, and a request makes one call of RetryFromDLQ   *)
(* at a time (handleRetryAllDead).                                          *)
THEOREM DeadLetterTypeCorrect == DLSpec => []DLTypeOK
<1>1. DLInit => DLTypeOK
  BY TypeInit, RequestsAssumption DEF DLInit, DLTypeOK
<1>2. DLTypeOK /\ [DLNext]_dlVars => DLTypeOK'
  BY DLTypeStep
<1>3. QED
  BY <1>1, <1>2, PTL DEF DLSpec

-----------------------------------------------------------------------------
(* First attempts.                                                          *)

(* A request gives back the run of a first attempt only by removing a key.  *)
LEMMA DLFirstAttemptStep ==
    ASSUME DLTypeOK, FirstAttemptInv, [DLNext]_dlVars
    PROVE  FirstAttemptInv'
<1> TypeOK
  BY DEF DLTypeOK
<1>1. CASE DeliveryStep
  BY <1>1, FirstAttemptStep DEF DeliveryStep
<1>2. ASSUME NEW k \in calls, ClearProcessed(k) PROVE FirstAttemptInv'
  <2>1. PICK t : t = k.copy.task
    OBVIOUS
  <2>2. /\ processed' = processed \ {t}
        /\ lapses' = IF t \in processed THEN [lapses EXCEPT ![t] = @ + 1] ELSE lapses
        /\ starts' = starts
    BY <1>2, <2>1 DEF ClearProcessed
  <2>3. QED
    BY <2>2 DEF TypeOK, FirstAttemptInv
<1>3. ASSUME \/ \E q \in Requests : Serve(q)
             \/ \E k \in calls : XDelDead(k) \/ XAddRevived(k) \/ CallFails(k)
             \/ PurgeDLQ
             \/ UNCHANGED dlVars
      PROVE  FirstAttemptInv'
  <2>1. UNCHANGED <<processed, starts, lapses>>
    BY <1>3
    DEF Serve, RetryTask, RetryAllDead, Find, Abandon, XDelDead, XAddRevived,
        CallFails, PurgeDLQ, dlVars, vars, redisVars, historyVars
  <2>2. QED
    BY <2>1 DEF FirstAttemptInv
<1>4. QED
  BY <1>1, <1>2, <1>3 DEF DLNext, RetryFromDLQ

(* A revived task starts its first attempt again, once, for the key that    *)
(* RetryFromDLQ removed, however many requests revive it at the same time.  *)
THEOREM RevivedFirstAttemptRunsOnce == DLSpec => []FirstAttemptOnce
<1>1. DLInit => FirstAttemptInv
  BY DEF DLInit, Init, FirstAttemptInv
<1>2. DLTypeOK /\ FirstAttemptInv => FirstAttemptOnce
  <2> SUFFICES ASSUME DLTypeOK, FirstAttemptInv, NEW t \in Tasks
               PROVE  starts[t] <= 1 + lapses[t]
    BY DEF FirstAttemptOnce
  <2>1. starts[t] \in Nat /\ lapses[t] \in Nat
    BY DEF DLTypeOK, TypeOK
  <2>2. starts[t] + 0 <= 1 + lapses[t] \/ starts[t] + 1 <= 1 + lapses[t]
    BY DEF FirstAttemptInv
  <2>3. QED
    BY <2>1, <2>2
<1>3. QED
  BY <1>1, <1>2, DeadLetterTypeCorrect, DLFirstAttemptStep, PTL DEF DLSpec

-----------------------------------------------------------------------------
(* Attempts.                                                                *)

(* A revived task counts its attempts from zero; nothing else is counted.   *)
LEMMA DLAttemptStep ==
    ASSUME DLTypeOK, AttemptInv, [DLNext]_dlVars
    PROVE  AttemptInv'
<1> TypeOK
  BY DEF DLTypeOK
<1>1. CASE DeliveryStep
  BY <1>1, AttemptStep DEF DeliveryStep
<1>2. ASSUME NEW k \in calls, XAddRevived(k) PROVE AttemptInv'
  <2>1. k.copy.task \in Tasks /\ 0 < MaxRetry
    BY ConstantsAssumption DEF DLTypeOK, Call, RetryCopy
  <2>2. UNCHANGED <<retry, dlq, cur, verdict>> /\ XAdd(k.copy.task, 0, TRUE)
    BY <1>2 DEF XAddRevived, threadVars
  <2>3. QED
    BY <2>1, <2>2, AttemptXAdd
<1>3. ASSUME \/ \E q \in Requests : Serve(q)
             \/ \E k \in calls : XDelDead(k) \/ ClearProcessed(k) \/ CallFails(k)
             \/ PurgeDLQ
             \/ UNCHANGED dlVars
      PROVE  AttemptInv'
  <2>1. UNCHANGED <<log, retry, cur, verdict>> /\ dlq' \subseteq dlq
    BY <1>3
    DEF Serve, RetryTask, RetryAllDead, Find, Abandon, XDelDead, ClearProcessed,
        CallFails, PurgeDLQ, dlVars, vars, redisVars, threadVars
  <2>2. QED
    BY <2>1 DEF AttemptInv, AttemptsBounded, VerdictsBounded, Ids
<1>4. QED
  BY <1>1, <1>2, <1>3 DEF DLNext, RetryFromDLQ

(* Reviving a task resets its RetryCount, so that MaxRetry bounds the       *)
(* attempts of each of its lives (RetryFromDLQ).                            *)
THEOREM RevivedAttemptsStayBounded == DLSpec => []AttemptsBounded
<1>1. DLInit => AttemptInv
  BY DEF DLInit, Init, AttemptInv, AttemptsBounded, VerdictsBounded, Ids
<1>2. AttemptInv => AttemptsBounded
  BY DEF AttemptInv
<1>3. QED
  BY <1>1, <1>2, DeadLetterTypeCorrect, DLAttemptStep, PTL DEF DLSpec

-----------------------------------------------------------------------------
(* What is pending.                                                         *)

(* What RetryFromDLQ adds to the stream was delivered to nobody. *)
LEMMA DLStreamStep ==
    ASSUME DLTypeOK, StreamInv, [DLNext]_dlVars
    PROVE  StreamInv'
<1> TypeOK
  BY DEF DLTypeOK
<1>1. CASE DeliveryStep
  BY <1>1, StreamStep DEF DeliveryStep
<1>2. ASSUME NEW k \in calls, XAddRevived(k) PROVE StreamInv'
  <2>1. k.copy.task \in Tasks
    BY DEF DLTypeOK, Call, RetryCopy
  <2>2. UNCHANGED <<lastDelivered, pel, batch, cur, phase>> /\ XAdd(k.copy.task, 0, TRUE)
    BY <1>2 DEF XAddRevived, threadVars
  <2>3. QED
    BY <2>1, <2>2, StreamXAdd
<1>3. ASSUME \/ \E q \in Requests : Serve(q)
             \/ \E k \in calls : XDelDead(k) \/ ClearProcessed(k) \/ CallFails(k)
             \/ PurgeDLQ
             \/ UNCHANGED dlVars
      PROVE  StreamInv'
  <2>1. UNCHANGED <<log, stream, lastDelivered, pel, batch, cur, phase>>
    BY <1>3
    DEF Serve, RetryTask, RetryAllDead, Find, Abandon, XDelDead, ClearProcessed,
        CallFails, PurgeDLQ, dlVars, vars, redisVars, threadVars
  <2>2. QED
    BY <2>1 DEF StreamInv, PendingInStream, Pending, Delivered, Ids
<1>4. QED
  BY <1>1, <1>2, <1>3 DEF DLNext, RetryFromDLQ

(* What is pending stays in the stream while requests add to it.            *)
THEOREM RevivedPendingStaysInStream == DLSpec => []PendingInStream
<1>1. DLInit => StreamInv
  BY StreamInit DEF DLInit
<1>2. StreamInv => PendingInStream
  BY DEF StreamInv
<1>3. QED
  BY <1>1, <1>2, DeadLetterTypeCorrect, DLStreamStep, PTL DEF DLSpec

-----------------------------------------------------------------------------
(* What no request takes away.  A task is answered for by what no key can   *)
(* hide (Safe), by the call that has taken it from the queue, or, while its *)
(* key is not set or is about to be removed, by a message that nobody is    *)
(* skipping.                                                                *)

Skipped(id) == \E u \in Threads : cur[u] = id /\ verdict[u] = "skip"

Awaited(t) ==
    \/ t \in scheduled
    \/ \E id \in Ids : log[id].task = t /\ Deliverable(id) /\ ~Skipped(id)

Answered(t) ==
    \/ Safe(t)
    \/ InCall(t)
    \/ (t \notin processed \/ Reviving(t)) /\ Awaited(t)

AllAnswered ==
    \A t \in Tasks \ (Undecodable \cup purged \cup raced) :
        t \in processed \/ Published(t) => Answered(t)

DLKeepInv ==
    /\ BudgetInv
    /\ NoFaultYet => GoroutinesClean /\ SpoiltInvalid /\ AllAnswered

(* What a step of a worker may do to a task as long as nothing fails.       *)
Handed ==
    /\ scheduled \subseteq scheduled'
    /\ retry \cup dlq \subseteq retry' \cup dlq'
    /\ processed \subseteq processed'
    /\ \A t \in Tasks : t \in processed' \ processed => Safe(t)'
    /\ \A t \in Tasks : successes[t] > 0 => successes'[t] > 0
    /\ \A u \in Threads, t \in Tasks : Carries(u, t) => Carries(u, t)' \/ Safe(t)'
    /\ \A id \in Ids :
          log[id].task \notin Undecodable /\ Deliverable(id) =>
              \/ Deliverable(id)'
              \/ Safe(log[id].task)'
              \/ log[id].rc = 0 /\ Skipped(id)
    /\ \A id \in Ids :
          Skipped(id)' => Skipped(id) \/ (log[id].task \in processed /\ Skips(log[id].task))

(* A step of one goroutine that leaves the stream and the keys alone. *)
LEMMA HandedMove ==
    ASSUME TypeOK, NEW th \in Threads,
           UNCHANGED <<log, stream, lastDelivered, pel, scheduled, processed>>,
           \A u \in Threads \ {th} : UNCHANGED <<phase[u], cur[u], verdict[u]>>,
           retry \cup dlq \subseteq retry' \cup dlq',
           \A t \in Tasks : successes[t] > 0 => successes'[t] > 0,
           \A t \in Tasks : Carries(th, t) => Carries(th, t)' \/ Safe(t)',
           \A id \in Ids : verdict'[th] = "skip" /\ cur'[th] = id =>
               log[id].task \in processed /\ Skips(log[id].task)
    PROVE  Handed
<1>1. \A u \in Threads \ {th}, t \in Tasks : Carries(u, t) => Carries(u, t)'
  BY DEF Carries
<1>2. \A id \in Ids : Deliverable(id) => Deliverable(id)'
  BY DEF Deliverable, Delivered, Pending
<1>3. \A id \in Ids :
          Skipped(id)' => Skipped(id) \/ (log[id].task \in processed /\ Skips(log[id].task))
  BY DEF Skipped
<1>4. QED
  BY <1>1, <1>2, <1>3 DEF Handed

(* A step that leaves the goroutines alone but for what they hold. *)
LEMMA HandedFrame ==
    ASSUME UNCHANGED <<log, processed, successes, phase, cur, verdict>>,
           scheduled \subseteq scheduled', retry \cup dlq \subseteq retry' \cup dlq',
           \A id \in Ids : Deliverable(id) => Deliverable(id)'
    PROVE  Handed
<1>1. \A u \in Threads, t \in Tasks : Carries(u, t) => Carries(u, t)'
  BY DEF Carries
<1>2. \A id \in Ids : Skipped(id)' => Skipped(id)
  BY DEF Skipped
<1>3. QED
  BY <1>1, <1>2 DEF Handed

(* Fetching hands nothing on. *)
LEMMA HandedFetch ==
    ASSUME Shape, BudgetInv, NoFaultYet', GoroutinesClean, NEW w \in Workers, Fetch(w)
    PROVE  Handed
<1> TypeOK
  BY DEF Shape
<1>1. /\ UNCHANGED <<log, stream>>
      /\ Pending \subseteq Pending'
      /\ \A id \in stream : Delivered(id)' => Delivered(id) \/ id \in Pending'
  BY FetchDeliverable
<1>2. \A id \in Ids : Deliverable(id) => Deliverable(id)'
  BY <1>1 DEF Deliverable
<1>3. UNCHANGED <<processed, successes, phase, cur, verdict, scheduled, retry, dlq>>
  BY CleanSteps
  DEF Fetch, Consume, RecoverOwnPending, ClaimStale, Deliver, redisVars, historyVars
<1>4. QED
  BY <1>1, <1>2, <1>3, HandedFrame

(* Taking a message of a batch. *)
LEMMA HandedBegin ==
    ASSUME Shape, BudgetInv, NoFaultYet', GoroutinesClean, SpoiltInvalid,
           NEW th \in Threads, Begin(th)
    PROVE  Handed
<1> TypeOK
  BY DEF Shape
<1>1. PICK id \in batch[th] :
          \/ DropInvalid(th, id)
          \/ BeginRetry(th, id)
          \/ BeginFirst(th, id)
          \/ SkipProcessed(th, id)
  BY CleanSteps DEF Begin
<1>2. id \in Ids /\ id # 0
  BY NumberTypes
<1>3. phase[th] = "ready" /\ cur[th] = 0 /\ verdict[th] = "none"
  BY <1>1 DEF DropInvalid, BeginRetry, BeginFirst, SkipProcessed, Take, GoroutinesClean
<1>4. \A t \in Tasks : ~Carries(th, t)
  BY <1>3 DEF Carries
<1>5. CASE DropInvalid(th, id)
  <2>1. /\ UNCHANGED <<log, stream, lastDelivered, scheduled, retry, dlq,
                       processed, successes>>
        /\ UNCHANGED <<cur, verdict>>
        /\ \A u \in Threads \ {th} : phase'[u] = phase[u]
        /\ ~log[id].ok
        /\ pel' \in {Acked(id), pel}
    BY <1>5 DEF TypeOK, DropInvalid, historyVars
  <2>2. log[id].task \in Undecodable
    BY <1>2, <2>1 DEF SpoiltInvalid
  <2>3. \A j \in Ids : j # id /\ Deliverable(j) => Deliverable(j)'
    <3>1. CASE pel' = Acked(id)
      BY <2>1, <3>1, AckedDeliverable
    <3>2. CASE pel' = pel
      BY <2>1, <3>2 DEF Deliverable, Delivered, Pending
    <3>3. QED
      BY <2>1, <3>1, <3>2
  <2>4. \A j \in Ids : log[j].task \notin Undecodable /\ Deliverable(j) => Deliverable(j)'
    BY <2>2, <2>3
  <2>5. \A u \in Threads, t \in Tasks : Carries(u, t) => Carries(u, t)'
    BY <1>4, <2>1 DEF Carries
  <2>6. \A j \in Ids : Skipped(j)' => Skipped(j)
    BY <2>1 DEF Skipped
  <2>7. QED
    BY <2>1, <2>4, <2>5, <2>6 DEF Handed
<1>6. CASE BeginRetry(th, id)
  <2>1. /\ UNCHANGED <<log, stream, lastDelivered, pel, scheduled, retry, dlq,
                       processed, successes>>
        /\ \A u \in Threads \ {th} : UNCHANGED <<phase[u], cur[u], verdict[u]>>
        /\ verdict'[th] = "none"
    BY <1>6 DEF TypeOK, BeginRetry, Take, redisVars, historyVars
  <2>2. QED
    BY <1>4, <2>1, HandedMove
<1>7. CASE SkipProcessed(th, id)
  <2>1. /\ UNCHANGED <<log, stream, lastDelivered, pel, scheduled, retry, dlq,
                       processed, successes>>
        /\ \A u \in Threads \ {th} : UNCHANGED <<phase[u], cur[u], verdict[u]>>
        /\ cur'[th] = id /\ verdict'[th] = "skip"
        /\ log[id].task \in processed
    BY <1>7 DEF TypeOK, SkipProcessed, Take, redisVars, historyVars
  <2>2. Skips(log[id].task)
    BY <2>1 DEF Skips
  <2>3. QED
    BY <1>4, <2>1, <2>2, HandedMove
<1>8. CASE BeginFirst(th, id)
  <2>1. /\ UNCHANGED <<log, stream, lastDelivered, pel, scheduled, retry, dlq,
                       successes>>
        /\ \A u \in Threads \ {th} : UNCHANGED <<phase[u], cur[u], verdict[u]>>
        /\ phase'[th] = "run" /\ cur'[th] = id /\ verdict'[th] = "none"
        /\ processed' = processed \cup {log[id].task}
    BY <1>8 DEF TypeOK, BeginFirst, SetNX, Take
  <2>2. \A u \in Threads, t \in Tasks : Carries(u, t) => Carries(u, t)'
    <3>1. \A u \in Threads \ {th}, t \in Tasks : Carries(u, t) => Carries(u, t)'
      BY <2>1 DEF Carries
    <3>2. QED
      BY <1>4, <3>1
  <2>3. ASSUME NEW t \in Tasks, t \in processed' \ processed PROVE Safe(t)'
    <3>1. t = log[id].task
      BY <2>1, <2>3
    <3>2. Carries(th, t)'
      BY <1>2, <2>1, <3>1 DEF Carries
    <3>3. QED
      BY <3>2 DEF Safe
  <2>4. \A j \in Ids : Deliverable(j) => Deliverable(j)'
    BY <2>1 DEF Deliverable, Delivered, Pending
  <2>5. \A j \in Ids : Skipped(j)' => Skipped(j)
    BY <2>1 DEF Skipped
  <2>6. QED
    BY <2>1, <2>2, <2>3, <2>4, <2>5 DEF Handed
<1>9. QED
  BY <1>1, <1>5, <1>6, <1>7, <1>8

(* Handlers and pipelines hand a task on to the next that answers for it.   *)
LEMMA HandedWork ==
    ASSUME Shape, BudgetInv, NoFaultYet', GoroutinesClean,
           NEW th \in Threads, Succeed(th) \/ Fail(th) \/ Pipeline(th)
    PROVE  Handed
<1> TypeOK /\ StreamInv
  BY DEF Shape
<1>1. CASE Succeed(th)
  <2>1. /\ UNCHANGED <<log, stream, lastDelivered, pel, scheduled, retry, dlq,
                       processed, cur>>
        /\ phase[th] = "run"
        /\ \A u \in Threads \ {th} : UNCHANGED <<phase[u], cur[u], verdict[u]>>
        /\ verdict'[th] = "done"
        /\ successes' = [successes EXCEPT ![log[cur[th]].task] = @ + 1]
    BY <1>1 DEF TypeOK, Succeed, redisVars
  <2>2. log[cur[th]].task \in Tasks
    BY <2>1, CurType, EntryType
  <2>3. /\ \A t \in Tasks : successes[t] > 0 => successes'[t] > 0
        /\ successes'[log[cur[th]].task] > 0
    BY <2>1, <2>2 DEF TypeOK
  <2>4. \A t \in Tasks : Carries(th, t) => Safe(t)'
    BY <2>3 DEF Carries, Safe
  <2>5. QED
    BY <2>1, <2>3, <2>4, HandedMove
<1>2. CASE Fail(th)
  <2>1. /\ UNCHANGED <<log, stream, lastDelivered, pel, scheduled, retry, dlq,
                       processed, successes, cur>>
        /\ \A u \in Threads \ {th} : UNCHANGED <<phase[u], cur[u], verdict[u]>>
        /\ verdict'[th] \in {"retry", "dead"}
    BY <1>2 DEF TypeOK, Fail, redisVars, historyVars
  <2>2. \A t \in Tasks : Carries(th, t) => Carries(th, t)'
    BY <2>1 DEF Carries
  <2>3. QED
    BY <2>1, <2>2, HandedMove
<1>3. CASE XAck(th)
  <2>1. /\ UNCHANGED <<log, stream, lastDelivered, scheduled, retry, dlq, processed,
                       successes, cur, verdict>>
        /\ phase[th] = "xack"
        /\ pel' = Acked(cur[th])
        /\ \A u \in Threads \ {th} : phase'[u] = phase[u]
    BY <1>3 DEF TypeOK, XAck, historyVars
  <2>2. PICK n : n = cur[th]
    OBVIOUS
  <2>3. n \in Ids /\ n # 0 /\ log[n].task \in Tasks
    BY <2>1, <2>2, CurType, EntryType DEF TypeOK
  <2>4. \A j \in Ids : j # n /\ Deliverable(j) => Deliverable(j)'
    BY <2>1, <2>2, AckedDeliverable
  <2>5. \A u \in Threads, t \in Tasks : Carries(u, t) => Carries(u, t)'
    BY <2>1 DEF Carries
  <2>6. (log[n].rc = 0 /\ Skipped(n)) \/ Safe(log[n].task)'
    <3>1. CASE verdict[th] \in {"retry", "dead"}
      <4>1. Carries(th, log[n].task)'
        BY <2>1, <2>2, <2>3, <3>1 DEF Carries
      <4>2. QED
        BY <4>1 DEF Safe
    <3>2. CASE verdict[th] = "done" /\ successes[log[n].task] > 0
      BY <2>1, <3>2 DEF Safe
    <3>3. CASE verdict[th] = "skip" /\ log[n].rc = 0
      BY <2>2, <3>3 DEF Skipped
    <3>4. QED
      BY <2>1, <2>2, <3>1, <3>2, <3>3 DEF GoroutinesClean, VerdictsTrue
  <2>7. \A j \in Ids : Skipped(j)' => Skipped(j)
    BY <2>1 DEF Skipped
  <2>8. QED
    BY <2>1, <2>4, <2>5, <2>6, <2>7 DEF Handed
<1>4. CASE XDel(th)
  <2>1. /\ UNCHANGED <<log, lastDelivered, pel, scheduled, retry, dlq, processed,
                       successes, cur, verdict>>
        /\ phase[th] = "xdel"
        /\ stream' = stream \ {cur[th]}
        /\ \A u \in Threads \ {th} : phase'[u] = phase[u]
        /\ phase'[th] = "final"
    BY <1>4 DEF TypeOK, XDel, historyVars
  <2>2. Delivered(cur[th]) /\ cur[th] \notin Pending
    BY <2>1 DEF StreamInv
  <2>3. \A j \in Ids : Deliverable(j) => Deliverable(j)'
    BY <2>1, <2>2 DEF Deliverable, Delivered, Pending
  <2>4. \A u \in Threads, t \in Tasks : Carries(u, t) => Carries(u, t)'
    BY <2>1 DEF Carries
  <2>5. \A j \in Ids : Skipped(j)' => Skipped(j)
    BY <2>1 DEF Skipped
  <2>6. QED
    BY <2>1, <2>3, <2>4, <2>5 DEF Handed
<1>5. CASE CountCompleted(th) \/ AddRetry(th) \/ AddDead(th)
  <2>1. /\ UNCHANGED <<log, stream, lastDelivered, pel, scheduled, processed, successes>>
        /\ \A u \in Threads \ {th} : UNCHANGED <<phase[u], cur[u], verdict[u]>>
        /\ verdict'[th] = "none"
        /\ phase[th] = "final"
        /\ \/ verdict[th] \in {"skip", "done"} /\ UNCHANGED <<retry, dlq>>
           \/ retry' \cup dlq' = retry \cup dlq \cup {Copy(th)}
    BY <1>5 DEF TypeOK, CountCompleted, AddRetry, AddDead, Release, historyVars
  <2>2. ASSUME NEW t \in Tasks, Carries(th, t) PROVE Safe(t)'
    <3>1. Copy(th).task = t /\ verdict[th] \notin {"skip", "done"}
      BY <2>1, <2>2 DEF Carries, Copy
    <3>2. Copy(th) \in retry' \cup dlq'
      BY <2>1, <3>1
    <3>3. QED
      BY <3>1, <3>2 DEF Safe
  <2>3. retry \cup dlq \subseteq retry' \cup dlq'
    BY <2>1
  <2>4. QED
    BY <2>1, <2>2, <2>3, HandedMove
<1>6. QED
  BY <1>1, <1>2, <1>3, <1>4, <1>5, CleanSteps DEF Pipeline

(* A task that is handed on is answered for, unless a worker skips it while *)
(* a call is about to remove its key.                                       *)
LEMMA AnsweredHanded ==
    ASSUME TypeOK, Handed, UNCHANGED <<log, calls>>, NEW t \in Tasks \ Undecodable,
           Answered(t), ~(Reviving(t) /\ Skips(t))
    PROVE  Answered(t)'
<1>1. CASE Safe(t)
  <2>1. \A id \in Ids : log[id].task = t /\ log[id].rc > 0 /\ Deliverable(id)
                          => Deliverable(id)' \/ Safe(t)'
    BY EntryType DEF Handed
  <2>2. Safe(t)'
    BY <1>1, <2>1, SafeFrame DEF Handed
  <2>3. QED
    BY <2>2 DEF Answered
<1>2. CASE InCall(t)
  BY <1>2 DEF InCall, Answered
<1>3. CASE (t \notin processed \/ Reviving(t)) /\ Awaited(t)
  <2>1. t \notin processed' \/ Reviving(t)' \/ Safe(t)'
    BY <1>3 DEF Handed, Reviving
  <2>2. CASE t \in scheduled
    <3>1. Awaited(t)'
      BY <2>2 DEF Handed, Awaited
    <3>2. QED
      BY <2>1, <3>1 DEF Answered
  <2>3. CASE \E id \in Ids : log[id].task = t /\ Deliverable(id) /\ ~Skipped(id)
    <3>1. PICK id \in Ids : log[id].task = t /\ Deliverable(id) /\ ~Skipped(id)
      BY <2>3
    <3>2. Deliverable(id)' \/ Safe(t)'
      BY <3>1 DEF Handed
    <3>3. Skipped(id)' => t \in processed /\ Skips(t)
      BY <3>1 DEF Handed
    <3>4. ~Skipped(id)'
      BY <1>3, <3>3
    <3>5. id \in Ids' /\ log'[id].task = t
      BY <3>1 DEF Ids
    <3>6. Awaited(t)' \/ Safe(t)'
      BY <3>2, <3>4, <3>5 DEF Awaited
    <3>7. QED
      BY <2>1, <3>6 DEF Answered
  <2>4. QED
    BY <1>3, <2>2, <2>3 DEF Awaited
<1>4. QED
  BY <1>1, <1>2, <1>3 DEF Answered

(* So all are, those that are enqueued meanwhile included. *)
LEMMA AllAnsweredHanded ==
    ASSUME TypeOK, AllAnswered, Handed, UNCHANGED <<log, calls, purged>>,
           raced' = raced \cup {t \in Tasks : Reviving(t) /\ Skips(t)}
    PROVE  AllAnswered'
<1> SUFFICES ASSUME NEW t \in Tasks \ (Undecodable \cup purged \cup raced'),
                    t \in processed' \/ Published(t)'
             PROVE  Answered(t)'
  BY DEF AllAnswered
<1>1. t \notin raced /\ ~(Reviving(t) /\ Skips(t))
  OBVIOUS
<1>2. CASE t \in processed \/ Published(t)
  <2>1. Answered(t)
    BY <1>1, <1>2 DEF AllAnswered
  <2>2. QED
    BY <1>1, <2>1, AnsweredHanded
<1>3. CASE t \notin processed /\ ~Published(t)
  <2>1. CASE t \in processed'
    BY <1>3, <2>1 DEF Handed, Answered
  <2>2. CASE t \notin processed'
    <3>1. t \in scheduled'
      BY <1>3, <2>2 DEF Published, Ids
    <3>2. QED
      BY <2>2, <3>1 DEF Awaited, Answered
  <2>3. QED
    BY <2>1, <2>2
<1>4. QED
  BY <1>2, <1>3

(* A new entry answers for its task, if the task has no key, is a retry, or *)
(* the key is about to be removed.                                          *)
LEMMA AnsweredXAdd ==
    ASSUME TypeOK, AllAnswered,
           NEW t \in Tasks, NEW rc \in Nat, NEW ok \in BOOLEAN, XAdd(t, rc, ok),
           scheduled \ {t} \subseteq scheduled', scheduled' \subseteq scheduled,
           \A c \in retry : c \in retry' \/ (c.task = t /\ rc > 0),
           UNCHANGED <<lastDelivered, pel, dlq, processed, successes,
                       phase, cur, verdict, purged>>,
           raced \subseteq raced',
           \A x \in Tasks : Reviving(x) => Reviving(x)',
           \A x \in Tasks : InCall(x) => InCall(x)' \/ (x = t /\ Reviving(t)')
    PROVE  AllAnswered'
<1> SUFFICES ASSUME NEW x \in Tasks \ (Undecodable \cup purged \cup raced'),
                    x \in processed \/ Published(x)'
             PROVE  Answered(x)'
  BY DEF AllAnswered
<1>1. PICK n : n = Len(log) + 1
  OBVIOUS
<1>2. /\ Ids' = Ids \cup {n}
      /\ \A id \in Ids : log'[id] = log[id]
      /\ log'[n] = [task |-> t, rc |-> rc, ok |-> ok]
      /\ stream' = stream \cup {n}
  BY <1>1, XAddType DEF TypeOK, XAdd
<1>3. n \in Ids' /\ log'[n].task = t /\ log'[n].rc = rc /\ Deliverable(n)' /\ n \notin Ids
  BY <1>1, <1>2, NumberTypes DEF TypeOK, Deliverable, Delivered, Ids
<1>4. \A id \in Ids : Deliverable(id) => Deliverable(id)'
  BY <1>2 DEF Deliverable, Delivered, Pending
<1>5. \A id : Skipped(id)' => Skipped(id)
  BY DEF Skipped
<1>6. ~Skipped(n)
  <2>1. \A u \in Threads : cur[u] \in 0 .. Len(log)
    BY DEF TypeOK
  <2>2. Len(log) \in Nat
    BY NumberTypes
  <2>3. \A u \in Threads : cur[u] # n
    BY <1>1, <2>1, <2>2
  <2>4. QED
    BY <2>3 DEF Skipped
<1>7. x = t => Awaited(x)'
  BY <1>3, <1>5, <1>6 DEF Awaited
<1>8. x # t /\ Awaited(x) => Awaited(x)'
  BY <1>2, <1>4, <1>5 DEF Awaited
<1>9. CASE x \notin processed
  <2>1. CASE x = t
    BY <1>7, <1>9, <2>1 DEF Answered
  <2>2. CASE x # t
    <3>1. Published(x)
      BY <1>2, <1>9, <2>2 DEF Published
    <3>2. Answered(x)
      BY <3>1 DEF AllAnswered
    <3>3. CASE Awaited(x)
      BY <1>8, <1>9, <2>2, <3>3 DEF Answered
    <3>4. CASE Safe(x)
      <4>1. Safe(x)'
        BY <3>4, SafeXAdd
      <4>2. QED
        BY <4>1 DEF Answered
    <3>5. CASE InCall(x)
      BY <2>2, <3>5 DEF Answered
    <3>6. QED
      BY <3>2, <3>3, <3>4, <3>5 DEF Answered
  <2>3. QED
    BY <2>1, <2>2
<1>10. CASE x \in processed
  <2>1. Answered(x)
    BY <1>10 DEF AllAnswered
  <2>2. CASE Safe(x)
    <3>1. Safe(x)'
      BY <2>2, SafeXAdd
    <3>2. QED
      BY <3>1 DEF Answered
  <2>3. CASE InCall(x)
    BY <1>7, <2>3 DEF Answered
  <2>4. CASE Reviving(x) /\ Awaited(x)
    BY <1>7, <1>8, <2>4 DEF Answered
  <2>5. QED
    BY <1>10, <2>1, <2>2, <2>3, <2>4 DEF Answered
<1>11. QED
  BY <1>9, <1>10

(* Requests take dead tasks to the stream, or purge them, and lose no other.*)
LEMMA AnsweredRequest ==
    ASSUME DLTypeOK, StreamInv, AllAnswered,
           \/ \E q \in Requests : RetryTask(q) \/ RetryAllDead(q) \/ Find(q)
           \/ \E k \in calls : XDelDead(k) \/ XAddRevived(k) \/ ClearProcessed(k)
           \/ PurgeDLQ
    PROVE  AllAnswered'
<1> TypeOK
  BY DEF DLTypeOK
<1>1. ASSUME NEW k \in calls, XAddRevived(k) PROVE AllAnswered'
  <2>1. k.copy.task \in Tasks
    BY DEF DLTypeOK, Call, RetryCopy
  <2>2. PICK t \in Tasks : t = k.copy.task
    BY <2>1
  <2>3. /\ XAdd(t, 0, TRUE)
        /\ calls' = (calls \ {k}) \cup {[k EXCEPT !.at = "del"]}
        /\ k.at = "xadd"
        /\ UNCHANGED <<lastDelivered, pel, scheduled, retry, dlq, processed, successes,
                       phase, cur, verdict, purged, raced>>
    BY <1>1, <2>2 DEF XAddRevived, Advance, threadVars, historyVars
  <2>4. [k EXCEPT !.at = "del"].at = "del" /\ [k EXCEPT !.at = "del"].copy.task = t
    BY <2>2 DEF DLTypeOK, Call
  <2>5. Reviving(t)'
    BY <2>3, <2>4 DEF Reviving
  <2>6. \A x \in Tasks : Reviving(x) => Reviving(x)'
    BY <2>3 DEF Reviving
  <2>7. \A x \in Tasks : InCall(x) => InCall(x)' \/ (x = t /\ Reviving(t)')
    BY <2>2, <2>3, <2>5 DEF InCall
  <2>8. PICK rc \in Nat, ok \in BOOLEAN : rc = 0 /\ XAdd(t, rc, ok)
    BY <2>3
  <2>9. QED
    BY <2>3, <2>6, <2>7, <2>8, AnsweredXAdd
<1>2. ASSUME UNCHANGED <<log, stream, lastDelivered, pel, scheduled, retry, successes,
                         phase, cur, verdict, raced>>,
             purged \subseteq purged',
             \A x \in Tasks : InCall(x) => InCall(x)',
             \A x \in Tasks : Reviving(x) => Reviving(x)' \/ x \notin processed',
             processed' \subseteq processed,
             \A c \in dlq : c \in dlq' \/ InCall(c.task)' \/ c.task \in purged'
      PROVE  AllAnswered'
  <2> SUFFICES ASSUME NEW x \in Tasks \ (Undecodable \cup purged' \cup raced),
                      x \in processed' \/ Published(x)'
               PROVE  Answered(x)'
    BY <1>2 DEF AllAnswered
  <2>1. Answered(x)
    BY <1>2 DEF AllAnswered, Published, Ids
  <2>2. \A id \in Ids : Deliverable(id) => Deliverable(id)'
    BY <1>2 DEF Deliverable, Delivered, Pending
  <2>3. Ids' = Ids /\ \A id : Skipped(id)' <=> Skipped(id)
    BY <1>2 DEF Ids, Skipped
  <2>4. \A u \in Threads : Carries(u, x) => Carries(u, x)'
    BY <1>2 DEF Carries
  <2>5. CASE Safe(x)
    <3>1. Safe(x)' \/ InCall(x)'
      BY <1>2, <2>2, <2>3, <2>4, <2>5 DEF Safe
    <3>2. QED
      BY <3>1 DEF Answered
  <2>6. CASE InCall(x)
    BY <1>2, <2>6 DEF Answered
  <2>7. CASE (x \notin processed \/ Reviving(x)) /\ Awaited(x)
    <3>1. Awaited(x)'
      BY <1>2, <2>2, <2>3, <2>7 DEF Awaited
    <3>2. QED
      BY <1>2, <2>7, <3>1 DEF Answered
  <2>8. QED
    BY <2>1, <2>5, <2>6, <2>7 DEF Answered
<1>3. ASSUME NEW q \in Requests, RetryTask(q) \/ RetryAllDead(q) PROVE AllAnswered'
  <2>1. UNCHANGED <<vars, calls, purged, raced>>
    BY <1>3 DEF RetryTask, RetryAllDead
  <2>2. QED
    BY <1>2, <2>1 DEF vars, redisVars, threadVars, historyVars, InCall, Reviving
<1>4. ASSUME NEW q \in Requests, Find(q) PROVE AllAnswered'
  <2>1. calls \subseteq calls' /\ UNCHANGED <<vars, purged, raced>>
    BY <1>4 DEF Find
  <2>2. QED
    BY <1>2, <2>1 DEF vars, redisVars, threadVars, historyVars, InCall, Reviving
<1>5. ASSUME NEW k \in calls, XDelDead(k) PROVE AllAnswered'
  <2>1. /\ dlq' = dlq \ {k.copy}
        /\ calls' = (calls \ {k}) \cup {[k EXCEPT !.at = "xadd"]}
        /\ k.at = "xdel"
        /\ UNCHANGED <<log, stream, lastDelivered, pel, scheduled, retry, processed,
                       successes, phase, cur, verdict, purged, raced>>
    BY <1>5 DEF XDelDead, Advance, threadVars, historyVars
  <2>2. [k EXCEPT !.at = "xadd"].at = "xadd" /\ [k EXCEPT !.at = "xadd"].copy = k.copy
    BY DEF DLTypeOK, Call
  <2>3. InCall(k.copy.task)'
    BY <2>1, <2>2 DEF InCall
  <2>4. \A x : InCall(x) => InCall(x)'
    BY <2>1 DEF InCall
  <2>5. \A x : Reviving(x) => Reviving(x)'
    BY <2>1 DEF Reviving
  <2>6. QED
    BY <1>2, <2>1, <2>3, <2>4, <2>5
<1>6. ASSUME NEW k \in calls, ClearProcessed(k) PROVE AllAnswered'
  <2>1. /\ processed' = processed \ {k.copy.task}
        /\ calls' = calls \ {k}
        /\ k.at = "del"
        /\ UNCHANGED <<log, stream, lastDelivered, pel, scheduled, retry, dlq,
                       successes, phase, cur, verdict, purged, raced>>
    BY <1>6 DEF ClearProcessed, threadVars
  <2>2. \A x : InCall(x) => InCall(x)'
    BY <2>1 DEF InCall
  <2>3. \A x : Reviving(x) => Reviving(x)' \/ x \notin processed'
    BY <2>1 DEF Reviving
  <2>4. QED
    BY <1>2, <2>1, <2>2, <2>3
<1>7. CASE PurgeDLQ
  <2>1. UNCHANGED <<log, stream, lastDelivered, pel, scheduled, retry, processed,
                    successes, phase, cur, verdict, raced, calls>>
    BY <1>7 DEF PurgeDLQ, threadVars, historyVars
  <2>2. purged' = purged \cup {c.task : c \in dlq}
    BY <1>7 DEF PurgeDLQ
  <2>3. QED
    BY <1>2, <2>1, <2>2 DEF InCall, Reviving
<1>8. QED
  BY <1>1, <1>3, <1>4, <1>5, <1>6, <1>7

(* The steps of the workers. *)
LEMMA AnsweredDelivery ==
    ASSUME Shape, BudgetInv, NoFaultYet', GoroutinesClean, SpoiltInvalid, AllAnswered,
           DeliveryStep
    PROVE  AllAnswered'
<1> TypeOK /\ AttemptInv
  BY DEF Shape
<1>0. /\ UNCHANGED <<calls, purged>>
      /\ raced' = raced \cup {t \in Tasks : Reviving(t) /\ Skips(t)}
      /\ Next
  BY DEF DeliveryStep
<1>1. ASSUME Handed, UNCHANGED log PROVE AllAnswered'
  BY <1>0, <1>1, AllAnsweredHanded
<1>2. ASSUME NEW t \in Tasks, NEW rc \in Nat, NEW ok \in BOOLEAN, XAdd(t, rc, ok),
             scheduled \ {t} \subseteq scheduled', scheduled' \subseteq scheduled,
             \A c \in retry : c \in retry' \/ (c.task = t /\ rc > 0),
             UNCHANGED <<lastDelivered, pel, dlq, processed, successes,
                         phase, cur, verdict>>
      PROVE  AllAnswered'
  <2>1. /\ \A x \in Tasks : Reviving(x) => Reviving(x)'
        /\ \A x \in Tasks : InCall(x) => InCall(x)'
    BY <1>0 DEF Reviving, InCall
  <2>2. QED
    BY <1>0, <1>2, <2>1, AnsweredXAdd
<1>3. ASSUME NEW t \in Tasks, Enqueue(t) PROVE AllAnswered'
  <2>1. UNCHANGED <<lastDelivered, pel, retry, dlq, processed, successes,
                    phase, cur, verdict>>
    BY <1>3 DEF Enqueue, threadVars, historyVars
  <2>2. CASE XAdd(t, 0, TRUE) /\ UNCHANGED scheduled
    <3>1. PICK rc \in Nat, ok \in BOOLEAN : rc = 0 /\ XAdd(t, rc, ok)
      BY <2>2
    <3>2. QED
      BY <1>2, <2>1, <2>2, <3>1
  <2>3. CASE UNCHANGED <<log, stream>> /\ scheduled' = scheduled \cup {t}
    <3>1. \A id \in Ids : Deliverable(id) => Deliverable(id)'
      BY <2>1, <2>3 DEF Deliverable, Delivered, Pending
    <3>2. Handed
      BY <2>1, <2>3, <3>1, HandedFrame
    <3>3. QED
      BY <1>1, <2>3, <3>2
  <2>4. QED
    BY <1>3, <2>2, <2>3 DEF Enqueue
<1>4. ASSUME NEW t \in Tasks, EnqueueScheduled(t) PROVE AllAnswered'
  <2>1. /\ UNCHANGED <<lastDelivered, pel, retry, dlq, processed, successes,
                       phase, cur, verdict>>
        /\ scheduled' = scheduled \ {t}
    BY <1>4 DEF EnqueueScheduled, threadVars, historyVars
  <2>2. PICK rc \in Nat, ok \in BOOLEAN : rc = 0 /\ XAdd(t, rc, ok)
    BY <1>4 DEF EnqueueScheduled
  <2>3. QED
    BY <1>2, <2>1, <2>2
<1>5. ASSUME NEW c \in retry, EnqueueRetry(c) PROVE AllAnswered'
  <2>1. /\ UNCHANGED <<lastDelivered, pel, scheduled, dlq, processed, successes,
                       phase, cur, verdict>>
        /\ retry' = retry \ {c}
    BY <1>5 DEF EnqueueRetry, threadVars, historyVars
  <2>2. c.task \in Tasks /\ c.rc \in Nat /\ c.rc > 0
    BY ConstantsAssumption DEF TypeOK, RetryCopy, AttemptInv, AttemptsBounded
  <2>3. PICK ok \in BOOLEAN : XAdd(c.task, c.rc, ok)
    BY <1>5 DEF EnqueueRetry
  <2>4. QED
    BY <1>2, <2>1, <2>2, <2>3
<1>6. ASSUME NEW w \in Workers, Fetch(w) PROVE AllAnswered'
  <2>1. UNCHANGED log
    BY <1>6, FetchDeliverable
  <2>2. QED
    BY <1>1, <1>6, <2>1, HandedFetch
<1>7. ASSUME NEW w \in Workers, Process(w) PROVE AllAnswered'
  <2>1. Start(w) \/ Exit(w)
    BY <1>7, CleanSteps DEF Process
  <2>2. /\ UNCHANGED <<log, stream, lastDelivered, pel, scheduled, retry, dlq,
                       processed, successes>>
        /\ UNCHANGED <<cur, verdict>>
        /\ \A u \in Threads : phase'[u] = phase[u] \/ cur[u] = 0
    <3>1. CASE Start(w)
      <4>1. /\ status[w] = "off"
            /\ UNCHANGED <<redisVars, cur, verdict, historyVars>>
            /\ \A u \in Threads : u[1] # w => phase'[u] = phase[u]
        BY <3>1 DEF Start
      <4>2. \A u \in Threads : u[1] = w => cur[u] = 0
        BY <4>1 DEF GoroutinesClean
      <4>3. QED
        BY <4>1, <4>2 DEF redisVars, historyVars
    <3>2. CASE Exit(w)
      BY <3>2, CleanExit DEF redisVars, historyVars
    <3>3. QED
      BY <2>1, <3>1, <3>2
  <2>3. \A u \in Threads, t \in Tasks : Carries(u, t) => Carries(u, t)'
    BY <2>2 DEF Carries
  <2>4. \A id \in Ids : Deliverable(id) => Deliverable(id)'
    BY <2>2 DEF Deliverable, Delivered, Pending
  <2>5. \A id : Skipped(id)' => Skipped(id)
    BY <2>2 DEF Skipped
  <2>6. Handed
    BY <2>2, <2>3, <2>4, <2>5 DEF Handed
  <2>7. QED
    BY <1>1, <2>2, <2>6
<1>8. ASSUME NEW th \in Threads, ThreadStep(th) PROVE AllAnswered'
  <2>1. UNCHANGED log
    BY <1>8
    DEF ThreadStep, Begin, DropInvalid, BeginRetry, BeginFirst, SkipProcessed,
        BeginFailOpen, Succeed, Fail, Pipeline, XAck, XDel, CountCompleted, AddRetry,
        AddDead, PipelineError, redisVars
  <2>2. QED
    BY <1>1, <1>8, <2>1, HandedBegin, HandedWork DEF ThreadStep
<1>9. QED
  BY <1>0, <1>3, <1>4, <1>5, <1>6, <1>7, <1>8, CleanSteps DEF Next, Scheduler

(* Every step keeps every task answered for, as long as nothing failed.     *)
LEMMA DLKeepStep ==
    ASSUME DLTypeOK, StreamInv, AttemptInv, DLKeepInv, [DLNext]_dlVars
    PROVE  DLKeepInv'
<1> Shape /\ TypeOK /\ BudgetInv
  BY DEF Shape, DLTypeOK, DLKeepInv
<1>1. BudgetInv' /\ (NoFaultYet' => NoFaultYet)
  <2>1. CASE [Next]_vars
    BY <2>1, BudgetStep
  <2>2. CASE UNCHANGED budget \/ Spend("fault")
    BY <2>2, BudgetSpent DEF EventKinds
  <2>3. [Next]_vars \/ UNCHANGED budget \/ Spend("fault")
    BY DEF DLNext, DeliveryStep, Serve, RetryTask, RetryAllDead, Find, Abandon,
       RetryFromDLQ, XDelDead, XAddRevived, ClearProcessed, CallFails, PurgeDLQ,
       dlVars, vars
  <2>4. QED
    BY <2>1, <2>2, <2>3
<1>2. ASSUME NoFaultYet' PROVE GoroutinesClean' /\ SpoiltInvalid' /\ AllAnswered'
  <2>1. GoroutinesClean /\ SpoiltInvalid /\ AllAnswered
    BY <1>1, <1>2 DEF DLKeepInv
  <2>2. CASE DeliveryStep
    BY <1>2, <2>1, <2>2, GoroutinesStep, SpoiltStep, AnsweredDelivery DEF DeliveryStep
  <2>3. ASSUME NEW k \in calls, XAddRevived(k) PROVE GoroutinesClean' /\ SpoiltInvalid'
    <3>0. k.copy.task \in Tasks /\ XAdd(k.copy.task, 0, TRUE)
      BY <2>3 DEF DLTypeOK, Call, RetryCopy, XAddRevived
    <3>1. PICK t \in Tasks, rc \in Nat, ok \in BOOLEAN : ok /\ XAdd(t, rc, ok)
      BY <3>0
    <3>2. /\ Ids' = Ids \cup {Len(log) + 1}
          /\ \A id \in Ids : log'[id] = log[id]
          /\ log'[Len(log) + 1] = [task |-> t, rc |-> rc, ok |-> ok]
      BY <3>1, XAddType DEF TypeOK
    <3>3. UNCHANGED <<status, phase, cur, verdict, successes>>
      BY <2>3 DEF XAddRevived, threadVars, historyVars
    <3>4. GoroutinesClean'
      BY <2>1, <3>2, <3>3, GoroutinesFrame
    <3>5. QED
      BY <2>1, <3>1, <3>2, <3>4 DEF SpoiltInvalid
  <2>4. ASSUME UNCHANGED <<log, status, phase, cur, verdict, successes>>
        PROVE  GoroutinesClean' /\ SpoiltInvalid'
    BY <2>1, <2>4, GoroutinesFrame DEF SpoiltInvalid, Ids
  <2>5. ASSUME NEW q \in Requests, RetryTask(q) \/ RetryAllDead(q) \/ Find(q)
        PROVE  GoroutinesClean' /\ SpoiltInvalid' /\ AllAnswered'
    <3>1. UNCHANGED vars
      BY <2>5 DEF RetryTask, RetryAllDead, Find
    <3>2. QED
      BY <2>1, <2>4, <2>5, <3>1, AnsweredRequest DEF vars, redisVars, threadVars, historyVars
  <2>6. ASSUME NEW k \in calls, XDelDead(k) \/ ClearProcessed(k)
        PROVE  GoroutinesClean' /\ SpoiltInvalid' /\ AllAnswered'
    <3>1. UNCHANGED <<log, status, phase, cur, verdict, successes>>
      BY <2>6 DEF XDelDead, ClearProcessed, threadVars, historyVars
    <3>2. QED
      BY <2>1, <2>4, <2>6, <3>1, AnsweredRequest
  <2>7. CASE PurgeDLQ
    <3>1. UNCHANGED <<log, status, phase, cur, verdict, successes>>
      BY <2>7 DEF PurgeDLQ, threadVars, historyVars
    <3>2. QED
      BY <2>1, <2>4, <2>7, <3>1, AnsweredRequest
  <2>8. \A k \in calls : ~CallFails(k)
    BY <1>2, <2>1, CleanSteps DEF CallFails
  <2>9. \A q \in Requests : ~Abandon(q)
    BY <1>2, <2>1, CleanSteps DEF Abandon
  <2>10. CASE UNCHANGED dlVars
    <3>1. UNCHANGED vars /\ UNCHANGED <<calls, purged, raced>>
      BY <2>10 DEF dlVars, apiVars
    <3>2. GoroutinesClean' /\ SpoiltInvalid'
      BY <2>4, <3>1 DEF vars, redisVars, threadVars, historyVars
    <3>3. AllAnswered'
      BY <2>1, <3>1
      DEF vars, redisVars, threadVars, historyVars, AllAnswered, Answered, Safe, InCall,
          Reviving, Awaited, Skipped, Published, Carries, Deliverable, Delivered, Pending, Ids
    <3>4. QED
      BY <3>2, <3>3
  <2>11. QED
    BY <2>1, <2>2, <2>3, <2>5, <2>6, <2>7, <2>8, <2>9, <2>10, AnsweredRequest
    DEF DLNext, Serve, RetryFromDLQ
<1>3. QED
  BY <1>1, <1>2 DEF DLKeepInv

(* As long as nothing failed, a task is lost only to a purge, or because a  *)
(* worker skipped its message while RetryFromDLQ was about to remove the    *)
(* key: however many requests revive it at the same time, and however often.*)
THEOREM LostInNoOtherWay == DLSpec => []LostOnlyInTheRace
<1>1. DLInit => StreamInv /\ AttemptInv /\ DLKeepInv
  <2> SUFFICES ASSUME DLInit PROVE StreamInv /\ AttemptInv /\ DLKeepInv
    OBVIOUS
  <2>1. Init
    BY DEF DLInit
  <2>2. StreamInv /\ KeepInv
    BY <2>1, StreamInit, KeepInit
  <2>3. AttemptInv
    BY <2>1 DEF Init, AttemptInv, AttemptsBounded, VerdictsBounded, Ids
  <2>4. AllAnswered
    BY <2>1 DEF Init, AllAnswered, Published, Ids
  <2>5. QED
    BY <2>2, <2>3, <2>4 DEF KeepInv, KeysClean, DLKeepInv
<1>2. DLKeepInv => LostOnlyInTheRace
  <2> SUFFICES ASSUME DLKeepInv, NoFaultYet,
                      NEW t \in Tasks \ (Undecodable \cup purged \cup raced), Published(t)
               PROVE  KeptOrRevived(t)
    BY DEF LostOnlyInTheRace
  <2>1. Answered(t)
    BY DEF DLKeepInv, AllAnswered
  <2>2. QED
    BY <2>1 DEF Answered, Safe, Awaited, KeptOrRevived, Kept, HasCopy
<1>3. DLTypeOK /\ StreamInv /\ AttemptInv /\ DLKeepInv /\ [DLNext]_dlVars
        => StreamInv' /\ AttemptInv' /\ DLKeepInv'
  BY DLStreamStep, DLAttemptStep, DLKeepStep
<1>4. QED
  BY <1>1, <1>2, <1>3, DeadLetterTypeCorrect, PTL DEF DLSpec

=============================================================================
