-------------------------- MODULE QueueAdminProofs --------------------------
(***************************************************************************)
(* Theorems of QueueAdmin, for every set of tasks and of workers and any   *)
(* number of pages and purges: the types, what a page can show that reads  *)
(* its numbers one after the other, and what a purge leaves.               *)
(***************************************************************************)
EXTENDS QueueAdmin, DeliveryKeeps

-----------------------------------------------------------------------------
(* The pages, and the order in which they read.                             *)

Reads == {"groups", "stream", "pending", "dlq", "stats", "scheduled", "retry"}
Sets  == {"dlq", "scheduled", "retry"}

Order == PageReads[page.kind]

(* handleQueues reads eight numbers, a page of one group seven. *)
LEMMA OrderOf ==
    /\ Len(PageReads["queues"]) = 8
    /\ PageReads["queues"][1] = "stream"
    /\ PageReads["queues"][2] = "pending"
    /\ PageReads["queues"][3] = "dlq"
    /\ PageReads["queues"][4] = "stats"
    /\ PageReads["queues"][5] = "scheduled"
    /\ PageReads["queues"][6] = "retry"
    /\ PageReads["queues"][7] = "scheduled"
    /\ PageReads["queues"][8] = "retry"
    /\ Len(PageReads["group"]) = 7
    /\ PageReads["group"][1] = "groups"
    /\ PageReads["group"][2] = "stream"
    /\ PageReads["group"][3] = "pending"
    /\ PageReads["group"][4] = "dlq"
    /\ PageReads["group"][5] = "stats"
    /\ PageReads["group"][6] = "scheduled"
    /\ PageReads["group"][7] = "retry"
<1>1. /\ QueueInfo \in Seq(Reads)
      /\ Len(QueueInfo) = 6
      /\ QueueInfo[1] = "stream" /\ QueueInfo[2] = "pending" /\ QueueInfo[3] = "dlq"
      /\ QueueInfo[4] = "stats" /\ QueueInfo[5] = "scheduled" /\ QueueInfo[6] = "retry"
  BY DEF QueueInfo, Reads
<1>2. /\ PageReads["queues"] = QueueInfo \o <<"scheduled", "retry">>
      /\ PageReads["group"] = <<"groups">> \o QueueInfo
  BY DEF PageReads
<1> DEFINE first == <<"groups">>
           last == <<"scheduled", "retry">>
<1>3. /\ last \in Seq(Reads) /\ Len(last) = 2 /\ last[1] = "scheduled" /\ last[2] = "retry"
      /\ first \in Seq(Reads) /\ Len(first) = 1 /\ first[1] = "groups"
  BY DEF Reads
<1> HIDE DEF QueueInfo, PageReads, first, last
<1>4. /\ Len(QueueInfo \o last) = 8
      /\ \A i \in 1 .. 8 : (QueueInfo \o last)[i] =
                             IF i <= 6 THEN QueueInfo[i] ELSE last[i - 6]
  <2>1. /\ Len(QueueInfo \o last) = Len(QueueInfo) + Len(last)
        /\ \A i \in 1 .. Len(QueueInfo) + Len(last) : (QueueInfo \o last)[i] =
              IF i <= Len(QueueInfo) THEN QueueInfo[i] ELSE last[i - Len(QueueInfo)]
    <3>1. QueueInfo \in Seq(Reads) /\ last \in Seq(Reads)
      BY <1>1, <1>3
    <3>2. QED
      BY <3>1, ConcatProperties, Zenon
  <2>2. QED
    BY <1>1, <1>3, <2>1
<1>5. /\ Len(first \o QueueInfo) = 7
      /\ \A i \in 1 .. 7 : (first \o QueueInfo)[i] =
                             IF i <= 1 THEN first[i] ELSE QueueInfo[i - 1]
  <2>1. /\ Len(first \o QueueInfo) = Len(first) + Len(QueueInfo)
        /\ \A i \in 1 .. Len(first) + Len(QueueInfo) : (first \o QueueInfo)[i] =
              IF i <= Len(first) THEN first[i] ELSE QueueInfo[i - Len(first)]
    <3>1. QueueInfo \in Seq(Reads) /\ first \in Seq(Reads)
      BY <1>1, <1>3
    <3>2. QED
      BY <3>1, ConcatProperties, Zenon
  <2>2. QED
    BY <1>1, <1>3, <2>1
<1>6. /\ PageReads["queues"] = QueueInfo \o last
      /\ PageReads["group"] = first \o QueueInfo
  BY <1>2 DEF first, last
<1>7. QED
  BY <1>1, <1>3, <1>4, <1>5, <1>6

(* The numbers a page reads, one after the other; what is stored in the     *)
(* sets comes after what was in the stream.                                 *)
LEMMA OrderType ==
    ASSUME NEW kind \in DOMAIN PageReads
    PROVE  /\ Len(PageReads[kind]) \in Nat
           /\ \A i \in 1 .. Len(PageReads[kind]) : PageReads[kind][i] \in Reads
           /\ \E i \in 1 .. Len(PageReads[kind]) : PageReads[kind][i] = "stream"
           /\ \A i \in 1 .. Len(PageReads[kind]) : PageReads[kind][i] = "stream" =>
                 \A r \in Sets : \E j \in i + 1 .. Len(PageReads[kind]) : PageReads[kind][j] = r
<1>1. kind = "queues" \/ kind = "group"
  BY DEF PageReads
<1>2. \A i \in 1 .. 8 : i = 1 \/ i = 2 \/ i = 3 \/ i = 4 \/ i = 5 \/ i = 6 \/ i = 7 \/ i = 8
  OBVIOUS
<1>3. \A i \in 1 .. 7 : i = 1 \/ i = 2 \/ i = 3 \/ i = 4 \/ i = 5 \/ i = 6 \/ i = 7
  OBVIOUS
<1>4. CASE kind = "queues"
  <2> DEFINE o == PageReads[kind]
  <2>1. /\ Len(o) = 8
        /\ o[1] = "stream" /\ o[2] = "pending" /\ o[3] = "dlq" /\ o[4] = "stats"
        /\ o[5] = "scheduled" /\ o[6] = "retry" /\ o[7] = "scheduled" /\ o[8] = "retry"
    BY <1>4, OrderOf
  <2> HIDE DEF o
  <2>2. \A i \in 1 .. 8 : o[i] \in Reads /\ (o[i] = "stream" => i = 1)
    BY <1>2, <2>1 DEF Reads
  <2>3. \A r \in Sets : \E j \in {3, 5, 6} : o[j] = r
    BY <2>1 DEF Sets
  <2>4. QED
    BY <2>1, <2>2, <2>3 DEF o
<1>5. CASE kind = "group"
  <2> DEFINE o == PageReads[kind]
  <2>1. /\ Len(o) = 7
        /\ o[1] = "groups" /\ o[2] = "stream" /\ o[3] = "pending" /\ o[4] = "dlq"
        /\ o[5] = "stats" /\ o[6] = "scheduled" /\ o[7] = "retry"
    BY <1>5, OrderOf
  <2> HIDE DEF o
  <2>2. \A i \in 1 .. 7 : o[i] \in Reads /\ (o[i] = "stream" => i = 2)
    BY <1>3, <2>1 DEF Reads
  <2>3. \A r \in Sets : \E j \in {4, 6, 7} : o[j] = r
    BY <2>1 DEF Sets
  <2>4. QED
    BY <2>1, <2>2, <2>3 DEF o
<1>6. QED
  BY <1>1, <1>4, <1>5

-----------------------------------------------------------------------------
(* What the steps do to the sets that a page reads.                         *)

(* Copies leave the sets only in the hands of a scheduler. *)
Moves(moved) ==
    /\ dlq \subseteq dlq'
    /\ scheduled \subseteq scheduled' \cup moved
    /\ \A c \in retry : c \in retry' \/ c.task \in moved

(* Without the group nothing becomes pending. *)
GroupKept == ~group' => ~group /\ Pending' \subseteq Pending

(* Fetching leaves the sets alone. *)
LEMMA FetchMoves ==
    ASSUME NEW w \in Workers, Fetch(w)
    PROVE  UNCHANGED <<scheduled, retry, dlq>>
BY DEF Fetch, Consume, RecoverOwnPending, ClaimStale, redisVars

(* The start and the end of a worker send no command that writes. *)
LEMMA ProcessMoves ==
    ASSUME NEW w \in Workers, Process(w) \/ NoGroup(w)
    PROVE  UNCHANGED redisVars
BY DEF Process, NoGroup, Start, Shutdown, MainStops, SubscribeFails, Crash, Exit, Terminate

(* Goroutines add copies and acknowledge messages. *)
LEMMA ThreadMoves ==
    ASSUME NEW th \in Threads, ThreadStep(th)
    PROVE  /\ scheduled' = scheduled /\ retry \subseteq retry' /\ dlq \subseteq dlq'
           /\ Pending' \subseteq Pending
<1>1. /\ scheduled' = scheduled /\ retry \subseteq retry' /\ dlq \subseteq dlq'
      /\ pel' = pel \/ \E id : pel' = Acked(id)
  <2>1. CASE Begin(th)
    BY <2>1
    DEF Begin, DropInvalid, BeginRetry, BeginFirst, SkipProcessed, BeginFailOpen, redisVars
  <2>2. CASE Succeed(th) \/ Fail(th)
    BY <2>2 DEF Succeed, Fail, redisVars
  <2>3. CASE Pipeline(th)
    BY <2>3
    DEF Pipeline, XAck, XDel, CountCompleted, AddRetry, AddDead, PipelineError, redisVars
  <2>4. QED
    BY <2>1, <2>2, <2>3 DEF ThreadStep
<1>2. QED
  BY <1>1 DEF Pending, Acked

(* A step of the queue is one of Delivery or ends a worker that has no      *)
(* group.                                                                   *)
LEMMA QueueSteps ==
    ASSUME TypeOK, QueueStep
    PROVE  \E moved \in SUBSET Tasks :
               /\ Watch(moved)
               /\ Moves(moved)
               /\ GroupKept /\ group' \in {group, TRUE}
               /\ [Next]_vars \/ \E w \in Workers : NoGroup(w)
<1> DEFINE Goal(moved) ==
               /\ Watch(moved)
               /\ Moves(moved)
               /\ GroupKept /\ group' \in {group, TRUE}
               /\ [Next]_vars \/ \E w \in Workers : NoGroup(w)
<1>1. ASSUME NEW t \in Tasks, Enqueue(t) \/ ExpireProcessed(t), Watch({}), UNCHANGED group
      PROVE  Goal({})
  <2>1. Next
    BY <1>1 DEF Next
  <2>2. scheduled \subseteq scheduled' /\ UNCHANGED <<retry, dlq, pel>>
    BY <1>1 DEF Enqueue, ExpireProcessed
  <2>3. QED
    BY <1>1, <2>1, <2>2 DEF Moves, GroupKept, Pending
<1>2. ASSUME NEW th \in Threads, ThreadStep(th), Watch({}), UNCHANGED group
      PROVE  Goal({})
  <2>1. Next
    BY <1>2 DEF Next
  <2>2. QED
    BY <1>2, <2>1, ThreadMoves DEF Moves, GroupKept
<1>3. ASSUME NEW t \in Tasks, EnqueueScheduled(t), Watch({t}), UNCHANGED group
      PROVE  Goal({t})
  <2>1. Next
    BY <1>3 DEF Next, Scheduler
  <2>2. scheduled' = scheduled \ {t} /\ UNCHANGED <<retry, dlq, pel>>
    BY <1>3 DEF EnqueueScheduled
  <2>3. QED
    BY <1>3, <2>1, <2>2 DEF Moves, GroupKept, Pending
<1>4. ASSUME NEW c \in retry, EnqueueRetry(c), Watch({c.task}), UNCHANGED group
      PROVE  Goal({c.task})
  <2>1. Next
    BY <1>4 DEF Next, Scheduler
  <2>2. retry' = retry \ {c} /\ UNCHANGED <<scheduled, dlq, pel>>
    BY <1>4 DEF EnqueueRetry
  <2>3. QED
    BY <1>4, <2>1, <2>2 DEF Moves, GroupKept, Pending
<1>5. ASSUME NEW w \in Workers, ProcessStep(w), Watch({}) PROVE Goal({})
  <2>1. CASE Restart(w)
    <3>1. Next /\ Process(w)
      BY <2>1 DEF Restart, Process, Next
    <3>2. QED
      BY <1>5, <2>1, <3>1, ProcessMoves DEF Moves, GroupKept, Restart, redisVars
  <2>2. CASE NoGroup(w)
    <3>1. UNCHANGED redisVars /\ UNCHANGED group
      BY <2>2 DEF NoGroup
    <3>2. QED
      BY <1>5, <2>2, <3>1 DEF Moves, GroupKept, redisVars, Pending
  <2>3. CASE group /\ Fetch(w) /\ UNCHANGED group
    <3>1. Next
      BY <2>3 DEF Next
    <3>2. QED
      BY <1>5, <2>3, <3>1, FetchMoves DEF Moves, GroupKept
  <2>4. CASE /\ Shutdown(w) \/ MainStops(w) \/ SubscribeFails(w) \/ Crash(w) \/ Exit(w)
             /\ UNCHANGED group
    <3>1. Next /\ Process(w)
      BY <2>4 DEF Process, Next
    <3>2. QED
      BY <1>5, <2>4, <3>1, ProcessMoves DEF Moves, GroupKept, redisVars, Pending
  <2>5. QED
    BY <1>5, <2>1, <2>2, <2>3, <2>4 DEF ProcessStep
<1>6. \A c \in retry : c.task \in Tasks
  BY DEF TypeOK, RetryCopy
<1>7. QED
  <2>1. \E moved \in SUBSET Tasks : Goal(moved)
    <3> HIDE DEF Goal
    <3>1. QED
      BY <1>1, <1>2, <1>3, <1>4, <1>5, <1>6 DEF QueueStep
  <2>2. QED
    BY <2>1

-----------------------------------------------------------------------------
(* Types.                                                                   *)

SetsFinite == IsFiniteSet(scheduled) /\ IsFiniteSet(retry) /\ IsFiniteSet(dlq)

QAInv == QATypeOK /\ SetsFinite

(* A step stores at most one more member in each of the sets. *)
LEMMA SetsGrow ==
    ASSUME [Next]_vars
    PROVE  \E x, y, z : /\ scheduled' \subseteq scheduled \cup {x}
                        /\ retry' \subseteq retry \cup {y}
                        /\ dlq' \subseteq dlq \cup {z}
<1>1. ASSUME NEW t \in Tasks, Enqueue(t) \/ ExpireProcessed(t) \/ EnqueueScheduled(t)
      PROVE  scheduled' \subseteq scheduled \cup {t} /\ UNCHANGED <<retry, dlq>>
  BY <1>1 DEF Enqueue, ExpireProcessed, EnqueueScheduled
<1>2. ASSUME NEW c \in retry, EnqueueRetry(c)
      PROVE  retry' \subseteq retry /\ UNCHANGED <<scheduled, dlq>>
  BY <1>2 DEF EnqueueRetry
<1>3. ASSUME NEW w \in Workers, Fetch(w) \/ Process(w)
      PROVE  UNCHANGED <<scheduled, retry, dlq>>
  BY <1>3, FetchMoves, ProcessMoves DEF redisVars
<1>4. ASSUME NEW th \in Threads, Begin(th) \/ Succeed(th) \/ Fail(th)
      PROVE  UNCHANGED <<scheduled, retry, dlq>>
  BY <1>4
  DEF Begin, DropInvalid, BeginRetry, BeginFirst, SkipProcessed, BeginFailOpen,
      Succeed, Fail, redisVars
<1>5. ASSUME NEW th \in Threads, Pipeline(th)
      PROVE  /\ scheduled' = scheduled
             /\ retry' \subseteq retry \cup {Copy(th)} /\ dlq' \subseteq dlq \cup {Copy(th)}
  BY <1>5
  DEF Pipeline, XAck, XDel, CountCompleted, AddRetry, AddDead, PipelineError, redisVars
<1>6. CASE UNCHANGED vars
  BY <1>6 DEF vars, redisVars
<1>7. QED
  BY <1>1, <1>2, <1>3, <1>4, <1>5, <1>6 DEF Next, Scheduler, ThreadStep

(* The sets stay finite. *)
LEMMA FiniteStep ==
    ASSUME SetsFinite, [Next]_vars
    PROVE  SetsFinite'
<1>1. PICK x, y, z : /\ scheduled' \subseteq scheduled \cup {x}
                     /\ retry' \subseteq retry \cup {y}
                     /\ dlq' \subseteq dlq \cup {z}
  BY SetsGrow
<1>2. \A S, a : IsFiniteSet(S) => IsFiniteSet(S \cup {a})
  BY FS_AddElement, Zenon
<1>3. \A S, T : IsFiniteSet(T) /\ S \subseteq T => IsFiniteSet(S)
  BY FS_Subset, Zenon
<1>4. QED
  BY <1>1, <1>2, <1>3, Zenon DEF SetsFinite

(* XLEN, XPENDING, ZCARD and HGET answer with a number. *)
LEMMA CountType ==
    ASSUME TypeOK, SetsFinite, NEW r \in Reads
    PROVE  CountOf(r) \in Nat
<1>1. IsFiniteSet(Ids)
  <2>1. 1 \in Int /\ Len(log) \in Int
    BY NumberTypes
  <2>2. QED
    BY <2>1, FS_Interval, Zenon DEF Ids
<1>2. stream \subseteq Ids /\ Pending \subseteq Ids
  BY NumberTypes DEF TypeOK
<1>3. IsFiniteSet(stream) /\ IsFiniteSet(Pending)
  BY <1>1, <1>2, FS_Subset, Zenon
<1>4. \A S : IsFiniteSet(S) => Cardinality(S) \in Nat
  BY FS_CardinalityType, Zenon
<1>5. /\ Cardinality(stream) \in Nat /\ Cardinality(Pending) \in Nat
      /\ Cardinality(dlq) \in Nat /\ Cardinality(scheduled) \in Nat
      /\ Cardinality(retry) \in Nat
  BY <1>3, <1>4, Zenon DEF SetsFinite
<1>6. completed \in Nat
  BY DEF TypeOK
<1>7. QED
  BY <1>5, <1>6 DEF CountOf, Reads

(* Tasks are found where pages look for them. *)
LEMMA StoredType ==
    ASSUME TypeOK
    PROVE  /\ \A r : SeenBy(r) \subseteq Tasks
           /\ Stored \subseteq Tasks /\ Between \subseteq Tasks
<1>1. \A id \in stream : log[id].task \in Tasks
  BY EntryType DEF TypeOK
<1>2. \A c \in retry \cup dlq : c.task \in Tasks
  BY DEF TypeOK, RetryCopy
<1>3. scheduled \subseteq Tasks
  BY DEF TypeOK
<1>4. \A r : SeenBy(r) \subseteq Tasks
  BY <1>1, <1>2, <1>3 DEF SeenBy, InStream
<1>5. \A th \in Threads : phase[th] = "final" => log[cur[th]].task \in Tasks
  BY CurType, EntryType
<1>6. QED
  BY <1>4, <1>5 DEF Stored, Between

(* What touches Redis beside a page leaves it a page. *)
LEMMA WatchType ==
    ASSUME page \in Page, NEW moved \in SUBSET Tasks, WatchPage(moved)
    PROVE  page' \in Page
<1>1. Closed \in Page
  BY DEF Closed, Page, PageReads, NoCounts, Counts
<1>2. ASSUME NEW q \in BOOLEAN, NEW th \in SUBSET Tasks, NEW m \in SUBSET Tasks
      PROVE  [page EXCEPT !.quiet = q, !.there = th, !.moved = m] \in Page
  BY DEF Page
<1>3. QED
  BY <1>1, <1>2 DEF WatchPage, Page

(* The end of a worker that has no group keeps the types of Delivery. *)
LEMMA NoGroupType ==
    ASSUME TypeOK, NEW w \in Workers, NoGroup(w)
    PROVE  TypeOK'
<1>1. /\ status' \in [Workers -> {"off", "recovering", "consuming", "closing", "gone"}]
      /\ phase' \in [Threads -> {"down", "ready", "run", "xack", "xdel", "final"}]
      /\ \A th \in Threads : phase'[th] \in {phase[th], "down"}
  BY DEF NoGroup, TypeOK
<1>2. UNCHANGED <<redisVars, batch, cur, verdict, budget, historyVars>>
  BY DEF NoGroup
<1>3. QED
  BY <1>1, <1>2 DEF TypeOK, redisVars, historyVars, Ids

(* What a page notes beside the numbers. *)
LEMMA AdvanceType ==
    ASSUME TypeOK, SetsFinite, page \in Page, NEW r \in Reads,
           Advance(r) \/ ReadFails(r)
    PROVE  page' \in Page
<1>1. Closed \in Page
  BY DEF Closed, Page, PageReads, NoCounts, Counts
<1>2. page.count \in Counts /\ page.at \in Nat
  BY DEF Page
<1>3. ASSUME NEW n \in Nat PROVE [page.count EXCEPT ![r] = n] \in Counts
  BY <1>2 DEF Counts, Reads
<1> DEFINE read(n, s, b) ==
               [page EXCEPT !.at = @ + 1, !.count[r] = n, !.seen = s, !.between = b]
<1>4. ASSUME NEW n \in Nat, NEW s \in SUBSET Tasks, NEW b \in SUBSET Tasks
      PROVE  read(n, s, b) \in Page
  <2> DEFINE c == [page.count EXCEPT ![r] = n]
  <2>1. c \in Counts
    BY <1>3
  <2> HIDE DEF c
  <2>2. page.at + 1 \in Nat
    BY <1>2
  <2>3. [page EXCEPT !.at = page.at + 1, !.count = c, !.seen = s, !.between = b] \in Page
    BY <2>1, <2>2 DEF Page
  <2>4. QED
    BY <2>3 DEF c
<1>5. [page EXCEPT !.at = @ + 1, !.count[r] = 0, !.failed = TRUE] \in Page
  <2> DEFINE c == [page.count EXCEPT ![r] = 0]
  <2>1. c \in Counts
    BY <1>3
  <2> HIDE DEF c
  <2>2. page.at + 1 \in Nat
    BY <1>2
  <2>3. [page EXCEPT !.at = page.at + 1, !.count = c, !.failed = TRUE] \in Page
    BY <2>1, <2>2 DEF Page
  <2>4. QED
    BY <2>3 DEF c
<1>6. /\ CountOf(r) \in Nat
      /\ page.seen \cup SeenBy(r) \in SUBSET Tasks
      /\ (IF r = "stream" THEN Between ELSE page.between) \in SUBSET Tasks
  BY CountType, StoredType DEF Page
<1>7. CASE Advance(r)
  <2> DEFINE n == CountOf(r)
             s == page.seen \cup SeenBy(r)
             b == IF r = "stream" THEN Between ELSE page.between
  <2>1. n \in Nat /\ s \in SUBSET Tasks /\ b \in SUBSET Tasks
    BY <1>6
  <2>2. page' = Closed \/ page' = read(n, s, b)
    BY <1>7 DEF Advance
  <2> HIDE DEF n, s, b, read
  <2>3. QED
    BY <1>1, <1>4, <2>1, <2>2
<1>8. CASE ReadFails(r)
  BY <1>1, <1>5, <1>8 DEF ReadFails
<1>9. QED
  BY <1>7, <1>8

(* A page that has a number for the length and one for what is pending does *)
(* not show a negative one.                                                 *)
LEMMA WaitingType ==
    ASSUME NEW p \in Page
    PROVE  (IF p.count["stream"] > p.count["pending"]
            THEN p.count["stream"] - p.count["pending"] ELSE 0) \in Nat
<1>1. p.count["stream"] \in Nat /\ p.count["pending"] \in Nat
  BY DEF Page, Counts
<1>2. \A a, b \in Nat : (IF a > b THEN a - b ELSE 0) \in Nat
  OBVIOUS
<1>3. QED
  BY <1>1, <1>2

(* Every step keeps the types. *)
LEMMA QATypeStep ==
    ASSUME QAInv, [QANext]_qaVars
    PROVE  QAInv'
<1> TypeOK /\ SetsFinite /\ page \in Page
  BY DEF QAInv, QATypeOK
<1>1. ASSUME TypeOK', SetsFinite', page' \in Page,
             group' \in BOOLEAN, ~group' => Pending' = {}, purge' \in {"off", "stats"},
             calls' \in Nat, purged' \subseteq Tasks
      PROVE  QAInv'
  <2>1. Waiting' \in Nat
    BY <1>1, WaitingType DEF Waiting
  <2>2. QED
    BY <1>1, <2>1 DEF QAInv, QATypeOK
<1>2. CASE QueueStep
  <2>1. PICK moved \in SUBSET Tasks :
            /\ Watch(moved)
            /\ GroupKept /\ group' \in {group, TRUE}
            /\ [Next]_vars \/ \E w \in Workers : NoGroup(w)
    BY <1>2, QueueSteps
  <2>2. page' \in Page
    BY <2>1, WatchType DEF Watch
  <2>3. UNCHANGED <<purge, calls, purged>>
    BY <2>1 DEF Watch
  <2>4. TypeOK' /\ SetsFinite'
    <3>1. CASE [Next]_vars
      BY <3>1, TypeStep, FiniteStep
    <3>2. ASSUME NEW w \in Workers, NoGroup(w) PROVE TypeOK' /\ SetsFinite'
      BY <3>2, NoGroupType DEF SetsFinite, NoGroup, redisVars
    <3>3. QED
      BY <2>1, <3>1, <3>2
  <2>5. group' \in BOOLEAN /\ (~group' => Pending' = {})
    BY <2>1 DEF QAInv, QATypeOK, GroupKept
  <2>6. QED
    BY <1>1, <2>2, <2>3, <2>4, <2>5 DEF QAInv, QATypeOK
<1>3. ASSUME NEW kind \in DOMAIN PageReads, OpenPage(kind) PROVE QAInv'
  <2>1. page' \in Page
    <3>1. Closed \in Page
      BY DEF Closed, Page, PageReads, NoCounts, Counts
    <3>2. ASSUME NEW t \in SUBSET Tasks
          PROVE  [Closed EXCEPT !.kind = kind, !.at = 1, !.there = t] \in Page
      BY <3>1 DEF Page
    <3>3. Stored \cup Between \in SUBSET Tasks
      BY StoredType
    <3>4. QED
      BY <1>3, <3>2, <3>3 DEF OpenPage
  <2>2. UNCHANGED <<vars, group, purge, purged>> /\ calls' = calls + 1
    BY <1>3 DEF OpenPage
  <2>3. TypeOK' /\ SetsFinite'
    BY <2>2, TypeStep, FiniteStep
  <2>4. UNCHANGED Pending
    BY <2>2 DEF Pending, vars, redisVars
  <2>5. QED
    BY <1>1, <2>1, <2>2, <2>3, <2>4 DEF QAInv, QATypeOK
<1>4. CASE ReadNext
  <2> DEFINE r == PageReads[page.kind][page.at]
  <2>1. r \in Reads
    <3>1. page.kind \in DOMAIN PageReads /\ page.at \in 1 .. Len(PageReads[page.kind])
      BY <1>4 DEF ReadNext, Reading, Page
    <3>2. QED
      BY <3>1, OrderType
  <2>2. /\ \/ Advance(r) /\ UNCHANGED vars
           \/ ReadFails(r) /\ UNCHANGED <<redisVars, status, threadVars, historyVars>>
        /\ UNCHANGED <<group, purge, calls, purged>>
    BY <1>4 DEF ReadNext
  <2> HIDE DEF r
  <2>3. page' \in Page
    BY <2>1, <2>2, AdvanceType
  <2>4. TypeOK' /\ SetsFinite' /\ UNCHANGED Pending
    <3>1. budget' \in [EventKinds -> Nat]
      BY <2>2, SpendType DEF ReadFails, TypeOK, EventKinds, vars
    <3>2. UNCHANGED <<redisVars, status, threadVars, historyVars>>
      BY <2>2 DEF vars
    <3>3. QED
      BY <3>1, <3>2
      DEF TypeOK, SetsFinite, Pending, redisVars, threadVars, historyVars, Ids
  <2>5. QED
    BY <1>1, <2>2, <2>3, <2>4 DEF QAInv, QATypeOK
<1>5. CASE PurgeStream
  <2>1. page' \in Page
    BY <1>5, WatchType DEF PurgeStream
  <2>2. /\ stream' = {} /\ pel' = [w \in Workers |-> {}] /\ lastDelivered' = Len(log)
        /\ group' = FALSE /\ purge' = "stats" /\ calls' = calls + 1
        /\ purged' = purged \cup InStream
        /\ UNCHANGED <<log, scheduled, retry, dlq, processed, completed, status,
                       threadVars, budget, historyVars>>
    BY <1>5 DEF PurgeStream
  <2>3. TypeOK'
    <3>1. Len(log) \in 0 .. Len(log)
      BY NumberTypes
    <3>2. QED
      BY <2>2, <3>1 DEF TypeOK, threadVars, historyVars, Ids
  <2>4. SetsFinite' /\ Pending' = {}
    BY <2>2 DEF SetsFinite, Pending
  <2>5. InStream \subseteq Tasks
    BY EntryType DEF InStream, TypeOK
  <2>6. purged' \subseteq Tasks /\ calls' \in Nat
    BY <2>2, <2>5 DEF QAInv, QATypeOK
  <2>7. group' \in BOOLEAN /\ purge' \in {"off", "stats"}
    BY <2>2
  <2>8. QED
    BY <1>1, <2>1, <2>3, <2>4, <2>6, <2>7
<1>6. CASE PurgeStats
  <2>1. page' \in Page
    BY <1>6, WatchType DEF PurgeStats
  <2>2. /\ completed' \in {completed, 0} /\ purge' = "off"
        /\ UNCHANGED <<log, stream, lastDelivered, pel, scheduled, retry, dlq,
                       processed, status, threadVars, historyVars, group, calls, purged>>
    BY <1>6 DEF PurgeStats
  <2>3. budget' \in [EventKinds -> Nat]
    BY <1>6, SpendType DEF PurgeStats, TypeOK, EventKinds
  <2>4. TypeOK' /\ SetsFinite' /\ UNCHANGED Pending
    BY <2>2, <2>3 DEF TypeOK, SetsFinite, Pending, threadVars, historyVars, Ids
  <2>5. QED
    BY <1>1, <2>1, <2>2, <2>4 DEF QAInv, QATypeOK
<1>7. CASE UNCHANGED qaVars
  <2>1. UNCHANGED vars /\ UNCHANGED adminVars
    BY <1>7 DEF qaVars
  <2>2. TypeOK' /\ SetsFinite'
    BY <2>1, TypeStep, FiniteStep
  <2>3. UNCHANGED Pending
    BY <2>1 DEF Pending, vars, redisVars
  <2>4. QED
    BY <1>1, <2>1, <2>2, <2>3 DEF QAInv, QATypeOK, adminVars
<1>8. QED
  BY <1>2, <1>3, <1>4, <1>5, <1>6, <1>7 DEF QANext, AdminStep

(* At first nothing is stored, and no page is being read.                   *)
LEMMA QATypeInit == QAInit => QAInv
<1> SUFFICES ASSUME QAInit PROVE QAInv
  OBVIOUS
<1>1. TypeOK
  BY TypeInit DEF QAInit
<1>2. page \in Page /\ Waiting \in Nat
  <2>1. page \in Page
    BY DEF QAInit, Closed, Page, PageReads, NoCounts, Counts
  <2>2. QED
    BY <2>1, WaitingType DEF Waiting
<1>3. scheduled = {} /\ retry = {} /\ dlq = {} /\ pel = [w \in Workers |-> {}]
  BY DEF QAInit, Init
<1>4. SetsFinite
  BY <1>3, FS_EmptySet DEF SetsFinite
<1>5. Pending = {}
  BY <1>3 DEF Pending
<1>6. QED
  BY <1>1, <1>2, <1>4, <1>5 DEF QAInit, QAInv, QATypeOK

(* Purges, missing groups and pages that fail half way keep every variable  *)
(* in its type; the numbers GetQueueInfo answers with are numbers, and what *)
(* a page subtracts from another it never shows as less than zero.          *)
THEOREM AdminTypesHold == QASpec => []QATypeOK
<1>1. QAInv => QATypeOK
  BY DEF QAInv
<1>2. QED
  BY <1>1, QATypeInit, QATypeStep, PTL DEF QASpec

-----------------------------------------------------------------------------
(* The stream and the pending entries lists.                                *)

(* What the end of a worker without a group leaves alone. *)
LEMMA NoGroupFrame ==
    ASSUME TypeOK, NEW w \in Workers, NoGroup(w)
    PROVE  UNCHANGED redisVars /\ ThreadFrame
<1>1. phase' = [th \in Threads |-> IF th[1] = w /\ Idle(th) THEN "down" ELSE phase[th]]
  BY DEF NoGroup
<1>2. UNCHANGED <<redisVars, batch, cur, verdict, budget, historyVars>>
  BY DEF NoGroup
<1>3. QED
  BY <1>1, <1>2 DEF ThreadFrame

(* A purge takes the stream, the group and the lists in one command, and    *)
(* the next group begins after what the purge took.                         *)
LEMMA QAStreamStep ==
    ASSUME TypeOK, StreamInv, [QANext]_qaVars
    PROVE  StreamInv'
<1>1. ASSUME [Next]_vars PROVE StreamInv'
  BY <1>1, StreamStep
<1>2. ASSUME NEW w \in Workers, NoGroup(w) PROVE StreamInv'
  <2>1. UNCHANGED <<log, stream, lastDelivered, pel>> /\ UNCHANGED <<batch, cur>>
    BY <1>2 DEF NoGroup, redisVars
  <2>2. \A u \in Threads : phase'[u] \in {phase[u], "down"}
    BY <1>2 DEF NoGroup
  <2>3. QED
    BY <2>1, <2>2, StreamFrame
<1>3. CASE PurgeStream
  <2>1. /\ stream' = {} /\ pel' = [w \in Workers |-> {}] /\ lastDelivered' = Len(log)
        /\ UNCHANGED <<log, phase, batch, cur>>
    BY <1>3 DEF PurgeStream, threadVars
  <2>2. Pending' = {} /\ Ids' = Ids
    BY <2>1 DEF Pending, Ids
  <2>3. \A id \in Ids \cup {0} : Delivered(id)'
    BY <2>1, NumberTypes DEF Delivered, Ids
  <2>4. \A th \in Threads : batch[th] \subseteq Ids /\ cur[th] \in Ids \cup {0}
    BY NumberTypes DEF TypeOK, Ids
  <2>5. QED
    BY <2>1, <2>2, <2>3, <2>4 DEF StreamInv, PendingInStream
<1>4. ASSUME UNCHANGED <<log, stream, lastDelivered, pel, phase, batch, cur>>
      PROVE  StreamInv'
  BY <1>4 DEF StreamInv, PendingInStream, Pending, Delivered, Ids
<1>5. CASE QueueStep
  BY <1>1, <1>2, <1>5, QueueSteps
<1>6. CASE AdminStep /\ ~PurgeStream
  BY <1>4, <1>6 DEF AdminStep, OpenPage, ReadNext, PurgeStats, vars, redisVars, threadVars
<1>7. QED
  BY <1>3, <1>4, <1>5, <1>6 DEF QANext, qaVars, vars, redisVars, threadVars

-----------------------------------------------------------------------------
(* A page that was read in peace.                                           *)

QuietInv ==
    page.quiet /\ ~page.failed =>
        \A i \in 1 .. Len(Order) : \A r \in Reads \ {"groups"} :
            i < page.at /\ Order[i] = r => page.count[r] = CountOf(r)

(* A step that leaves the keys alone leaves the numbers alone. *)
LEMMA CountKept ==
    ASSUME UNCHANGED redisVars
    PROVE  \A r \in Reads \ {"groups"} : CountOf(r)' = CountOf(r)
BY DEF redisVars, CountOf, Pending, Reads

(* A page that is disturbed knows that it was. *)
LEMMA QuietWatch ==
    ASSUME page \in Page, QuietInv, NEW moved \in SUBSET Tasks, WatchPage(moved)
    PROVE  QuietInv'
<1>1. CASE Reading
  <2>1. /\ page'.kind = page.kind /\ page'.at = page.at /\ page'.count = page.count
        /\ page'.failed = page.failed /\ page'.quiet = (page.quiet /\ redisVars' = redisVars)
    BY <1>1 DEF WatchPage, Page
  <2>2. SUFFICES ASSUME page.quiet, redisVars' = redisVars, ~page.failed,
                        NEW i \in 1 .. Len(Order), NEW r \in Reads \ {"groups"},
                        i < page.at, Order[i] = r
                 PROVE  page.count[r] = CountOf(r)'
    BY <2>1 DEF QuietInv, Order
  <2>3. QED
    BY <2>2, CountKept DEF QuietInv
<1>2. CASE ~Reading
  <2>1. page' = Closed
    BY <1>2 DEF WatchPage
  <2>2. page'.at = 0 /\ page'.kind \in DOMAIN PageReads
    BY <2>1 DEF Closed, PageReads
  <2>3. QED
    BY <2>2, OrderType DEF QuietInv, Order
<1>3. QED
  BY <1>1, <1>2

(* Every step keeps the numbers of an undisturbed page exact. *)
LEMMA QuietStep ==
    ASSUME QAInv, QuietInv, [QANext]_qaVars
    PROVE  QuietInv'
<1> TypeOK /\ page \in Page /\ SetsFinite
  BY DEF QAInv, QATypeOK
<1>1. ASSUME page'.at \in {0, 1}, page'.kind \in DOMAIN PageReads PROVE QuietInv'
  <2>1. \A i \in 1 .. Len(Order') : ~(i < page'.at)
    BY <1>1
  <2>2. QED
    BY <2>1 DEF QuietInv
<1>2. CASE QueueStep
  BY <1>2, QueueSteps, QuietWatch DEF Watch
<1>3. CASE PurgeStream \/ PurgeStats
  BY <1>3, QuietWatch DEF PurgeStream, PurgeStats
<1>4. ASSUME NEW kind \in DOMAIN PageReads, OpenPage(kind) PROVE QuietInv'
  <2>1. page'.at = 1 /\ page'.kind = kind
    BY <1>4 DEF OpenPage, Closed
  <2>2. QED
    BY <1>1, <2>1
<1>5. CASE ReadNext
  <2> DEFINE r == PageReads[page.kind][page.at]
  <2>1. page.at \in 1 .. Len(Order) /\ r = Order[page.at] /\ r \in Reads
    <3>1. page.kind \in DOMAIN PageReads /\ page.at \in 1 .. Len(PageReads[page.kind])
      BY <1>5 DEF ReadNext, Reading, Page
    <3>2. QED
      BY <3>1, OrderType DEF Order
  <2>2. (Advance(r) /\ UNCHANGED vars) \/ ReadFails(r)
    BY <1>5 DEF ReadNext
  <2> HIDE DEF r
  <2>3. CASE page' = Closed
    BY <1>1, <2>3 DEF Closed, PageReads
  <2>4. CASE page'.failed
    BY <2>4 DEF QuietInv
  <2>5. CASE Advance(r) /\ UNCHANGED vars /\ page' # Closed
    <3> DEFINE n == CountOf(r)
    <3>1. /\ page'.kind = page.kind /\ page'.at = page.at + 1
          /\ page'.quiet = page.quiet /\ page'.failed = page.failed
      BY <2>5 DEF Advance, Page
    <3>2. page'.count = [page.count EXCEPT ![r] = n] /\ page.count \in [Reads -> Nat]
      BY <2>5 DEF Advance, Page, Counts, Reads
    <3>3. \A q \in Reads \ {"groups"} : CountOf(q)' = CountOf(q)
      BY <2>5, CountKept DEF vars
    <3>4. SUFFICES ASSUME page.quiet, ~page.failed,
                          NEW i \in 1 .. Len(Order), NEW q \in Reads \ {"groups"},
                          i < page.at + 1, Order[i] = q
                   PROVE  page'.count[q] = CountOf(q)'
      BY <3>1 DEF QuietInv, Order
    <3>6. CASE q = r
      BY <3>2, <3>3, <3>6
    <3>7. CASE q # r
      <4>1. i < page.at
        BY <2>1, <3>4, <3>7
      <4>2. page.count[q] = CountOf(q)
        BY <3>4, <4>1 DEF QuietInv
      <4>3. QED
        BY <3>2, <3>3, <3>7, <4>2
    <3>8. QED
      BY <3>6, <3>7
  <2>6. CASE ReadFails(r) /\ page' # Closed
    <3>1. page'.failed
      BY <2>6 DEF ReadFails, Page
    <3>2. QED
      BY <2>4, <3>1
  <2>7. QED
    BY <2>2, <2>3, <2>5, <2>6
<1>6. CASE UNCHANGED qaVars
  <2>1. page' = page /\ UNCHANGED redisVars
    BY <1>6 DEF qaVars, adminVars, vars
  <2>2. QED
    BY <2>1, CountKept DEF QuietInv, Order
<1>7. QED
  BY <1>2, <1>3, <1>4, <1>5, <1>6 DEF QANext, AdminStep

(* What is pending, what nobody was given and the rest make up the stream.  *)
LEMMA StreamParts ==
    ASSUME TypeOK, StreamInv
    PROVE  LET rest == {id \in stream : Delivered(id) /\ id \notin Pending}
           IN  /\ Cardinality(stream) =
                      Cardinality(Pending) + (Cardinality(Undelivered) + Cardinality(rest))
               /\ Cardinality(Pending) \in Nat
               /\ Cardinality(Undelivered) \in Nat
               /\ Cardinality(rest) \in Nat
<1> DEFINE rest == {id \in stream : Delivered(id) /\ id \notin Pending}
           more == Undelivered \cup rest
<1>1. IsFiniteSet(Ids)
  <2>1. 1 \in Int /\ Len(log) \in Int
    BY NumberTypes
  <2>2. QED
    BY <2>1, FS_Interval, Zenon DEF Ids
<1>2. \A id \in stream : id \in Nat /\ lastDelivered \in Nat
  BY NumberTypes DEF TypeOK
<1>3. /\ Pending \subseteq Ids /\ Undelivered \subseteq Ids /\ rest \subseteq Ids
      /\ stream = Pending \cup more
      /\ Pending \cap more = {} /\ Undelivered \cap rest = {}
  BY <1>2, NumberTypes DEF StreamInv, PendingInStream, Undelivered, Delivered, TypeOK
<1> HIDE DEF rest
<1>4. IsFiniteSet(Pending) /\ IsFiniteSet(Undelivered) /\ IsFiniteSet(rest)
  BY <1>1, <1>3, FS_Subset, Zenon
<1>5. ASSUME NEW S, NEW T, IsFiniteSet(S), IsFiniteSet(T), S \cap T = {}
      PROVE  /\ IsFiniteSet(S \cup T)
             /\ Cardinality(S \cup T) = Cardinality(S) + Cardinality(T)
             /\ Cardinality(S) \in Nat
  <2>1. /\ IsFiniteSet(S \cup T)
        /\ Cardinality(S \cup T) =
              Cardinality(S) + Cardinality(T) - Cardinality(S \cap T)
    BY <1>5, FS_Union, Zenon
  <2>2. Cardinality(S \cap T) = 0
    BY <1>5, FS_EmptySet, Zenon
  <2>3. Cardinality(S) \in Nat /\ Cardinality(T) \in Nat
    BY <1>5, FS_CardinalityType, Zenon
  <2>4. QED
    BY <2>1, <2>2, <2>3
<1>6. IsFiniteSet(more) /\ Cardinality(more) = Cardinality(Undelivered) + Cardinality(rest)
  BY <1>3, <1>4, <1>5
<1>7. Cardinality(stream) = Cardinality(Pending) + Cardinality(more)
  <2> HIDE DEF more
  <2>1. QED
    BY <1>3, <1>4, <1>5, <1>6
<1>8. /\ Cardinality(Pending) \in Nat /\ Cardinality(Undelivered) \in Nat
      /\ Cardinality(rest) \in Nat
  BY <1>4, FS_CardinalityType, Zenon
<1>9. QED
  BY <1>6, <1>7, <1>8 DEF rest

(* GetQueueInfo reads every number. *)
LEMMA EveryRead ==
    ASSUME NEW kind \in DOMAIN PageReads, NEW r \in Reads \ {"groups"}
    PROVE  \E i \in 1 .. Len(PageReads[kind]) : PageReads[kind][i] = r
<1>1. kind = "queues" \/ kind = "group"
  BY DEF PageReads
<1>2. r \in {"stream", "pending", "dlq", "stats", "scheduled", "retry"}
  BY DEF Reads
<1>3. CASE kind = "queues"
  <2>1. \E i \in {1, 2, 3, 4, 5, 6} : PageReads["queues"][i] = r
    BY <1>2, OrderOf
  <2>2. QED
    BY <1>3, <2>1, OrderOf
<1>4. CASE kind = "group"
  <2>1. \E i \in {2, 3, 4, 5, 6, 7} : PageReads["group"][i] = r
    BY <1>2, OrderOf
  <2>2. QED
    BY <1>4, <2>1, OrderOf
<1>5. QED
  BY <1>1, <1>3, <1>4

(* GetQueueInfo sends one command after the other, without a transaction;   *)
(* still, when no other client wrote meanwhile, its numbers are those of    *)
(* the keys, and what it shows as waiting is what no worker was given,      *)
(* together with what a worker dropped or is about to delete.               *)
THEOREM QuietPagesAreExact == QASpec => []QuietPageIsExact
<1>1. QAInit => StreamInv /\ QuietInv
  <2> SUFFICES ASSUME QAInit PROVE StreamInv /\ QuietInv
    OBVIOUS
  <2>1. StreamInv
    BY StreamInit DEF QAInit
  <2>2. page.at = 0 /\ page.kind \in DOMAIN PageReads
    BY DEF QAInit, Closed, PageReads
  <2>3. QED
    BY <2>1, <2>2 DEF QuietInv
<1>2. QAInv /\ StreamInv /\ [QANext]_qaVars => StreamInv'
  BY QAStreamStep DEF QAInv, QATypeOK
<1>3. QAInv /\ StreamInv /\ QuietInv => QuietPageIsExact
  <2> SUFFICES ASSUME QAInv, StreamInv, QuietInv, Shown, page.quiet, ~page.failed
               PROVE  /\ Waiting = Cardinality(Undelivered) +
                             Cardinality({id \in stream : Delivered(id) /\ id \notin Pending})
                      /\ page.count["pending"] = Cardinality(Pending)
                      /\ page.count["dlq"] = Cardinality(dlq)
                      /\ page.count["stats"] = completed
                      /\ page.count["scheduled"] = Cardinality(scheduled)
                      /\ page.count["retry"] = Cardinality(retry)
    BY DEF QuietPageIsExact
  <2> DEFINE rest == {id \in stream : Delivered(id) /\ id \notin Pending}
  <2>1. page.kind \in DOMAIN PageReads /\ page.at \in Nat
    BY DEF QAInv, QATypeOK, Page
  <2>2. \A r \in Reads \ {"groups"} : page.count[r] = CountOf(r)
    <3> TAKE r \in Reads \ {"groups"}
    <3>1. PICK i \in 1 .. Len(Order) : Order[i] = r
      BY <2>1, EveryRead DEF Order
    <3>2. i < page.at
      <4>1. Len(Order) \in Nat
        BY <2>1, OrderType DEF Order
      <4>2. QED
        BY <2>1, <4>1 DEF Shown, Order
    <3>3. QED
      BY <3>1, <3>2 DEF QuietInv
  <2>3. /\ page.count["stream"] = Cardinality(stream)
        /\ page.count["pending"] = Cardinality(Pending)
        /\ page.count["dlq"] = Cardinality(dlq)
        /\ page.count["stats"] = completed
        /\ page.count["scheduled"] = Cardinality(scheduled)
        /\ page.count["retry"] = Cardinality(retry)
    BY <2>2 DEF CountOf, Reads
  <2>4. /\ Cardinality(stream) =
               Cardinality(Pending) + (Cardinality(Undelivered) + Cardinality(rest))
        /\ Cardinality(Pending) \in Nat
        /\ Cardinality(Undelivered) \in Nat
        /\ Cardinality(rest) \in Nat
    BY StreamParts DEF QAInv, QATypeOK
  <2>5. Waiting = Cardinality(Undelivered) + Cardinality(rest)
    <3> DEFINE p == Cardinality(Pending)
               u == Cardinality(Undelivered)
               x == Cardinality(rest)
               n == Cardinality(stream)
    <3>1. /\ n = p + (u + x) /\ p \in Nat /\ u \in Nat /\ x \in Nat
          /\ Waiting = IF n > p THEN n - p ELSE 0
      BY <2>3, <2>4 DEF Waiting
    <3> HIDE DEF p, u, x, n
    <3>2. Waiting = u + x
      BY <3>1
    <3>3. QED
      BY <3>2 DEF u, x
  <2>6. QED
    BY <2>3, <2>5
<1>4. QED
  BY <1>1, <1>2, <1>3, QATypeInit, QATypeStep, QuietStep, PTL DEF QASpec

-----------------------------------------------------------------------------
(* What a page misses.                                                      *)

(* The numbers a page has still to read. *)
ToCome(p) == {r \in Reads : \E j \in 1 .. Len(PageReads[p.kind]) :
                 j >= p.at /\ PageReads[p.kind][j] = r}

(* Once the stream was read, what a page has not seen is where it will look *)
(* next: GetQueueInfo reads the sets after the stream they are filled from. *)
MissedInv ==
    (Reading \/ Shown) /\ ~page.failed /\ "stream" \notin ToCome(page) =>
        \A t \in page.there : \/ t \in page.seen \cup page.moved \cup page.between
                             \/ \E r \in ToCome(page) : t \in SeenBy(r)

(* What was there all the time is there. *)
ThereInv == Reading => page.there \subseteq Stored \cup Between

(* Copies that leave a set were moved by a scheduler. *)
LEMMA SetsMove ==
    ASSUME NEW moved, Moves(moved), NEW r \in Reads, r # "stream"
    PROVE  SeenBy(r) \subseteq SeenBy(r)' \cup moved
BY DEF Moves, SeenBy, Reads

(* Beside a page, tasks go from the stream to the sets, or are moved. *)
LEMMA MissedWatch ==
    ASSUME page \in Page, MissedInv, ThereInv,
           NEW moved \in SUBSET Tasks, Moves(moved), WatchPage(moved)
    PROVE  MissedInv' /\ ThereInv'
<1>1. CASE Reading
  <2> DEFINE now == Stored' \cup Between'
  <2>1. /\ page'.kind = page.kind /\ page'.at = page.at /\ page'.seen = page.seen
        /\ page'.failed = page.failed /\ page'.between = page.between
        /\ page'.there = page.there \cap now
        /\ page'.moved = page.moved \cup moved
    BY <1>1 DEF WatchPage, Page
  <2>2. ToCome(page') = ToCome(page) /\ ToCome(page) \subseteq Reads
    BY <2>1 DEF ToCome
  <2>3. ThereInv'
    BY <2>1 DEF ThereInv
  <2> HIDE DEF now
  <2>4. SUFFICES ASSUME ~page.failed, "stream" \notin ToCome(page),
                        NEW t \in page.there,
                        t \notin page'.seen \cup page'.moved \cup page'.between
                 PROVE  \E r \in ToCome(page) : t \in SeenBy(r)'
    BY <2>1, <2>2, <2>3 DEF MissedInv
  <2>5. PICK r \in ToCome(page) : t \in SeenBy(r)
    BY <1>1, <2>1, <2>4 DEF MissedInv
  <2>6. r \in Reads /\ r # "stream" /\ t \notin moved
    BY <2>1, <2>2, <2>4
  <2>7. QED
    BY <2>5, <2>6, SetsMove
<1>2. CASE ~Reading
  <2>1. page' = Closed
    BY <1>2 DEF WatchPage
  <2>2. page'.at = 0 /\ page'.kind \in DOMAIN PageReads
    BY <2>1 DEF Closed, PageReads
  <2>3. QED
    BY <2>2, OrderType DEF MissedInv, ThereInv, Reading, Shown
<1>3. QED
  BY <1>1, <1>2

(* Every step keeps what a page has missed within its reach. *)
LEMMA MissedStep ==
    ASSUME QAInv, MissedInv, ThereInv, [QANext]_qaVars
    PROVE  MissedInv' /\ ThereInv'
<1> TypeOK /\ page \in Page /\ SetsFinite
  BY DEF QAInv, QATypeOK
<1>1. ASSUME page' = Closed PROVE MissedInv' /\ ThereInv'
  <2>1. page'.at = 0 /\ page'.kind \in DOMAIN PageReads
    BY <1>1 DEF Closed, PageReads
  <2>2. QED
    BY <2>1, OrderType DEF MissedInv, ThereInv, Reading, Shown
<1>2. CASE QueueStep
  BY <1>2, QueueSteps, MissedWatch DEF Watch
<1>3. CASE PurgeStream \/ PurgeStats
  <2>1. Moves({}) /\ WatchPage({})
    BY <1>3 DEF PurgeStream, PurgeStats, Moves
  <2>2. QED
    BY <2>1, MissedWatch
<1>4. ASSUME NEW kind \in DOMAIN PageReads, OpenPage(kind) PROVE MissedInv' /\ ThereInv'
  <2>1. /\ page'.at = 1 /\ page'.kind = kind /\ page'.there = Stored \cup Between
        /\ UNCHANGED vars
    BY <1>4 DEF OpenPage, Closed
  <2>2. UNCHANGED <<Stored, Between>>
    BY <2>1 DEF Stored, SeenBy, InStream, Between, vars, redisVars, threadVars
  <2>3. "stream" \in ToCome(page')
    BY <2>1, OrderType DEF ToCome, Reads
  <2>4. QED
    BY <2>1, <2>2, <2>3 DEF MissedInv, ThereInv
<1>5. CASE ReadNext
  <2> DEFINE r == PageReads[page.kind][page.at]
  <2>1. /\ page.kind \in DOMAIN PageReads /\ page.at \in 1 .. Len(PageReads[page.kind])
        /\ Reading
    BY <1>5 DEF ReadNext, Reading, Page
  <2>2. r \in Reads
    BY <2>1, OrderType
  <2>3. (Advance(r) /\ UNCHANGED vars) \/ ReadFails(r)
    BY <1>5 DEF ReadNext
  <2>4. CASE ReadFails(r)
    <3>1. page' = Closed \/ (page'.failed /\ page'.there = page.there)
      BY <2>4 DEF ReadFails, Page
    <3>2. UNCHANGED <<Stored, Between>>
      BY <1>5, <2>4
      DEF ReadNext, Stored, SeenBy, InStream, Between, vars, redisVars, threadVars
    <3>3. QED
      BY <1>1, <2>1, <3>1, <3>2 DEF MissedInv, ThereInv
  <2>5. CASE Advance(r) /\ UNCHANGED vars /\ page' # Closed
    <3>1. /\ page'.kind = page.kind /\ page'.at = page.at + 1
          /\ page'.failed = page.failed /\ page'.there = page.there
          /\ page'.moved = page.moved
          /\ page'.seen = page.seen \cup SeenBy(r)
          /\ page'.between = IF r = "stream" THEN Between ELSE page.between
      BY <2>5 DEF Advance, Page
    <3>2. UNCHANGED <<Stored, Between>> /\ \A q : SeenBy(q)' = SeenBy(q)
      BY <2>5 DEF Stored, SeenBy, InStream, Between, vars, redisVars, threadVars
    <3>3. ThereInv'
      BY <2>1, <3>1, <3>2 DEF ThereInv
    <3>4. ToCome(page) \subseteq ToCome(page') \cup {r}
      BY <2>1, <3>1 DEF ToCome
    <3>5. SUFFICES ASSUME ~page.failed, "stream" \notin ToCome(page'),
                          NEW t \in page.there,
                          t \notin page'.seen \cup page'.moved \cup page'.between
                   PROVE  \E q \in ToCome(page') : t \in SeenBy(q)
      BY <3>1, <3>2, <3>3 DEF MissedInv
    <3>6. CASE r = "stream"
      <4>1. t \notin Between /\ t \notin SeenBy("stream")
        BY <3>1, <3>5, <3>6
      <4>2. PICK q \in Sets : t \in SeenBy(q)
        BY <2>1, <4>1 DEF ThereInv, Stored, Sets
      <4>3. \E j \in page.at + 1 .. Len(PageReads[page.kind]) : PageReads[page.kind][j] = q
        BY <2>1, <3>6, OrderType
      <4>4. q \in ToCome(page')
        BY <2>1, <3>1, <4>3 DEF ToCome, Sets, Reads
      <4>5. QED
        BY <4>2, <4>4
    <3>7. CASE r # "stream"
      <4>1. "stream" \notin ToCome(page)
        BY <3>4, <3>5, <3>7
      <4>2. PICK q \in ToCome(page) : t \in SeenBy(q)
        BY <2>1, <3>1, <3>5, <3>7, <4>1 DEF MissedInv
      <4>3. q # r
        BY <3>1, <3>5, <4>2
      <4>4. QED
        BY <3>4, <4>2, <4>3
    <3>8. QED
      BY <3>6, <3>7
  <2>6. QED
    BY <1>1, <2>3, <2>4, <2>5
<1>6. CASE UNCHANGED qaVars
  <2>1. page' = page /\ UNCHANGED vars
    BY <1>6 DEF qaVars, adminVars
  <2>2. UNCHANGED <<Stored, Between>> /\ \A q : SeenBy(q)' = SeenBy(q)
    BY <2>1 DEF Stored, SeenBy, InStream, Between, vars, redisVars, threadVars
  <2>3. QED
    BY <2>1, <2>2 DEF MissedInv, ThereInv, Reading, Shown
<1>7. QED
  BY <1>2, <1>3, <1>4, <1>5, <1>6 DEF QANext, AdminStep

(* The pages of ui/server.go read one key after the other while workers and *)
(* schedulers move tasks from key to key.  Because they read the stream     *)
(* before the sets, they miss only what a scheduler moved back meanwhile or *)
(* a worker had in its hands.                                               *)
THEOREM PagesMissOnlyMoved == QASpec => []PageMissesOnlyMoved
<1>1. QAInit => MissedInv /\ ThereInv
  <2> SUFFICES ASSUME QAInit PROVE MissedInv /\ ThereInv
    OBVIOUS
  <2>1. page.at = 0 /\ page.kind \in DOMAIN PageReads
    BY DEF QAInit, Closed, PageReads
  <2>2. QED
    BY <2>1, OrderType DEF MissedInv, ThereInv, Reading, Shown
<1>2. QAInv /\ MissedInv => PageMissesOnlyMoved
  <2> SUFFICES ASSUME QAInv, MissedInv, Shown, ~page.failed
               PROVE  page.there \subseteq page.seen \cup page.moved \cup page.between
    BY DEF PageMissesOnlyMoved
  <2>1. page.kind \in DOMAIN PageReads /\ page.at \in Nat
    BY DEF QAInv, QATypeOK, Page
  <2>2. Len(PageReads[page.kind]) \in Nat
    BY <2>1, OrderType
  <2>3. ToCome(page) = {}
    BY <2>1, <2>2 DEF Shown, ToCome
  <2>4. QED
    BY <2>3 DEF MissedInv
<1>3. QED
  BY <1>1, <1>2, QATypeInit, QATypeStep, MissedStep, PTL DEF QASpec

-----------------------------------------------------------------------------
(* What a purge leaves.                                                     *)

(* A worker that finds no group has nothing in its hands, and no purge that *)
(* took nothing of a task takes what answers for it.                        *)
PurgeInv ==
    /\ BudgetInv
    /\ NoFaultYet /\ ~SlowHandlers =>
          /\ GoroutinesClean
          /\ KeysClean
          /\ HeldInv
          /\ TasksKept(Tasks \ (Undecodable \cup purged))

(* The end of a worker that found no group: its goroutines were idle.       *)
LEMMA NoGroupKeeps ==
    ASSUME TypeOK, GoroutinesClean, KeysClean, HeldInv,
           NEW S \in SUBSET (Tasks \ Undecodable), TasksKept(S),
           NEW w \in Workers, NoGroup(w)
    PROVE  GoroutinesClean' /\ KeysClean' /\ HeldInv' /\ TasksKept(S)'
<1>1. /\ UNCHANGED <<redisVars, batch, cur, verdict, budget, historyVars>>
      /\ \A v \in Workers : v # w => status'[v] = status[v]
      /\ \A u \in Threads : phase'[u] = IF u[1] = w /\ Idle(u) THEN "down" ELSE phase[u]
      /\ Idle(Main(w))
  BY DEF NoGroup, TypeOK
<1>2. \A u \in Threads : u[1] = w => phase'[u] = "down"
  <2>1. \A u \in Threads : u[1] = w => u = Main(w) \/ u = Claimer(w)
    BY DEF Threads, Main, Claimer
  <2>2. phase[Claimer(w)] = "down" \/ Idle(Claimer(w))
    BY DEF HeldInv, Idle
  <2>3. QED
    BY <1>1, <2>1, <2>2
<1>3. \A u \in Threads : \/ phase'[u] = phase[u]
                         \/ phase'[u] = "down" /\ phase[u] = "ready" /\ batch[u] = {}
  BY <1>1 DEF Idle
<1>4. GoroutinesClean'
  <2>1. \A u \in Threads : u[1] \in Workers
    BY DEF Threads
  <2>2. \A u \in Threads : phase'[u] # "down" => status'[u[1]] \in {"recovering", "consuming"}
    BY <1>1, <1>2, <1>3, <2>1 DEF GoroutinesClean
  <2>3. UNCHANGED <<log, cur, verdict, successes>>
    BY <1>1 DEF redisVars, historyVars
  <2>4. QED
    BY <1>3, <2>2, <2>3 DEF GoroutinesClean, VerdictsTrue
<1>5. KeysClean'
  BY <1>1, KeysFrame DEF redisVars
<1>6. HeldInv'
  <2>1. \A v \in Workers : Claimer(v) \in Threads
    BY DEF Threads, Claimer
  <2>2. QED
    BY <1>1, <1>3, <2>1 DEF HeldInv, Holds, Pending, redisVars
<1>7. TasksKept(S)'
  <2>1. \A u \in Threads, t \in Tasks : Carries(u, t) => Carries(u, t)'
    <3>1. \A u \in Threads : phase[u] = "ready" => cur[u] = 0
      BY DEF GoroutinesClean
    <3>2. QED
      BY <1>1, <1>3, <3>1 DEF Carries, redisVars
  <2>2. QED
    BY <1>1, <2>1, TasksThreads DEF redisVars, historyVars
<1>8. QED
  BY <1>4, <1>5, <1>6, <1>7

(* A purge spares the tasks that had no message in the stream.              *)
LEMMA PurgeKeeps ==
    ASSUME TypeOK, GoroutinesClean, KeysClean, HeldInv, PurgeStream,
           NEW S \in SUBSET Tasks, TasksKept(S), NEW R, R = S \ InStream
    PROVE  GoroutinesClean' /\ KeysClean' /\ HeldInv' /\ TasksKept(R)'
<1>1. /\ stream' = {} /\ pel' = [w \in Workers |-> {}]
      /\ UNCHANGED <<log, scheduled, retry, dlq, processed, status, successes>>
      /\ UNCHANGED <<phase, batch, cur, verdict>>
  BY DEF PurgeStream, threadVars, historyVars
<1>2. GoroutinesClean'
  BY <1>1, GoroutinesFrame
<1>3. KeysClean'
  BY <1>1, KeysFrame
<1>4. HeldInv'
  BY <1>1 DEF HeldInv, Pending
<1>5. ASSUME NEW t \in R
      PROVE  /\ t \in processed' => Safe(t)'
             /\ t \notin processed' /\ Published(t)' => Fresh(t)'
  <2>1. \A id \in Ids : log[id].task = t => ~Deliverable(id)
    BY <1>5 DEF Deliverable, InStream
  <2>2. ASSUME t \in processed PROVE Safe(t)'
    <3>1. Safe(t)
      BY <1>5, <2>2 DEF TasksKept
    <3>2. \A u \in Threads : Carries(u, t) => Carries(u, t)'
      BY <1>1 DEF Carries
    <3>3. QED
      BY <1>1, <2>1, <3>1, <3>2 DEF Safe
  <2>3. ASSUME t \notin processed, Published(t)' PROVE Fresh(t)'
    <3>1. Published(t)
      BY <1>1, <2>3 DEF Published, Ids
    <3>2. Fresh(t)
      BY <1>5, <2>3, <3>1 DEF TasksKept
    <3>3. QED
      BY <1>1, <2>1, <3>2 DEF Fresh
  <2>4. QED
    BY <1>1, <2>2, <2>3
<1>6. TasksKept(R)'
  BY <1>5 DEF TasksKept
<1>7. QED
  BY <1>2, <1>3, <1>4, <1>6

(* Every step keeps the attempts bounded. *)
LEMMA QAAttemptStep ==
    ASSUME TypeOK, AttemptInv, [QANext]_qaVars
    PROVE  AttemptInv'
<1>1. ASSUME UNCHANGED <<log, retry, dlq, cur, verdict>> PROVE AttemptInv'
  BY <1>1, AttemptFrame
<1>2. CASE QueueStep
  <2>1. [Next]_vars \/ \E w \in Workers : NoGroup(w)
    BY <1>2, QueueSteps
  <2>2. QED
    BY <1>1, <2>1, AttemptStep DEF NoGroup, redisVars
<1>3. CASE AdminStep
  BY <1>1, <1>3
  DEF AdminStep, OpenPage, ReadNext, PurgeStream, PurgeStats, vars, redisVars, threadVars
<1>4. CASE UNCHANGED qaVars
  BY <1>1, <1>4 DEF qaVars, vars, redisVars, threadVars
<1>5. QED
  BY <1>2, <1>3, <1>4 DEF QANext

(* Every step keeps what a purge must spare.                                *)
LEMMA PurgeStep ==
    ASSUME Shape, QAInv, PurgeInv, [QANext]_qaVars
    PROVE  PurgeInv'
<1> TypeOK /\ StreamInv /\ AttemptInv /\ BudgetInv
  BY DEF Shape, PurgeInv
<1>1. BudgetInv' /\ (NoFaultYet' => NoFaultYet)
  <2>1. UNCHANGED budget \/ \E k \in EventKinds : Spend(k)
    <3>1. CASE QueueStep
      <4>1. [Next]_vars \/ \E w \in Workers : NoGroup(w)
        BY <3>1, QueueSteps
      <4>2. QED
        BY <4>1, BudgetSteps DEF NoGroup
    <3>2. CASE AdminStep
      BY <3>2
      DEF AdminStep, OpenPage, ReadNext, ReadFails, PurgeStream, PurgeStats, vars, EventKinds
    <3>3. CASE UNCHANGED qaVars
      BY <3>3 DEF qaVars, vars
    <3>4. QED
      BY <3>1, <3>2, <3>3 DEF QANext
  <2>2. QED
    BY <2>1, BudgetSpent
<1>2. SUFFICES ASSUME NoFaultYet', ~SlowHandlers
               PROVE  /\ GoroutinesClean' /\ KeysClean' /\ HeldInv'
                      /\ TasksKept(Tasks \ (Undecodable \cup purged))'
  BY <1>1 DEF PurgeInv
<1>3. PICK S : S = Tasks \ (Undecodable \cup purged)
  OBVIOUS
<1>4. PICK R : R = Tasks \ (Undecodable \cup purged')
  OBVIOUS
<1>5. SUFFICES GoroutinesClean' /\ KeysClean' /\ HeldInv' /\ TasksKept(R)'
  BY <1>4 DEF TasksKept
<1>6. /\ GoroutinesClean /\ KeysClean /\ HeldInv /\ TasksKept(S)
      /\ S \in SUBSET (Tasks \ Undecodable)
  BY <1>1, <1>2, <1>3 DEF PurgeInv
<1>7. ASSUME [Next]_vars, UNCHANGED purged
      PROVE  GoroutinesClean' /\ KeysClean' /\ HeldInv' /\ TasksKept(R)'
  <2>1. R = S
    BY <1>3, <1>4, <1>7
  <2>2. GoroutinesClean' /\ KeysClean'
    BY <1>2, <1>6, <1>7, GoroutinesStep, KeysStep
  <2>3. HeldInv'
    BY <1>2, <1>6, <1>7, HeldStep
  <2>4. TasksKept(S)'
    BY <1>2, <1>6, <1>7, TasksStep
  <2>5. QED
    BY <2>1, <2>2, <2>3, <2>4
<1>8. CASE QueueStep
  <2>1. /\ UNCHANGED purged
        /\ [Next]_vars \/ \E w \in Workers : NoGroup(w)
    BY <1>8, QueueSteps DEF Watch
  <2>2. R = S
    BY <1>3, <1>4, <2>1
  <2>3. QED
    BY <1>6, <1>7, <2>1, <2>2, NoGroupKeeps
<1>9. CASE PurgeStream
  <2>1. R = S \ InStream
    BY <1>3, <1>4, <1>9 DEF PurgeStream
  <2>2. QED
    BY <1>6, <1>9, <2>1, PurgeKeeps
<1>10. CASE PurgeStats
  <2>1. /\ UNCHANGED <<log, stream, lastDelivered, pel, scheduled, retry, dlq, processed,
                       status, successes, purged>>
        /\ UNCHANGED <<phase, batch, cur, verdict>>
    BY <1>10 DEF PurgeStats, threadVars, historyVars
  <2>2. GoroutinesClean' /\ KeysClean'
    BY <1>6, <2>1, GoroutinesFrame, KeysFrame
  <2>3. HeldInv'
    BY <1>6, <2>1 DEF HeldInv, Holds, Pending
  <2>4. TasksKept(S)'
    <3>1. \A u \in Threads, t \in Tasks : Carries(u, t) => Carries(u, t)'
      BY <2>1 DEF Carries
    <3>2. QED
      BY <1>6, <2>1, <3>1, TasksThreads
  <2>5. R = S
    BY <1>3, <1>4, <2>1
  <2>6. QED
    BY <2>2, <2>3, <2>4, <2>5
<1>11. CASE (\E kind \in DOMAIN PageReads : OpenPage(kind)) \/ ReadNext \/ UNCHANGED qaVars
  <2>1. UNCHANGED vars /\ UNCHANGED purged
    BY <1>2, <1>6, <1>11, CleanSteps
    DEF OpenPage, ReadNext, ReadFails, qaVars, adminVars
  <2>2. QED
    BY <1>7, <2>1
<1>12. QED
  BY <1>8, <1>9, <1>10, <1>11 DEF QANext, AdminStep

(* PurgeQueue says that it removes all tasks from a queue.  As long as      *)
(* nothing failed and handlers are not slow it removes those that had a     *)
(* message in the stream and no others: neither those that workers were     *)
(* storing, nor what is published before a worker has made the group again. *)
THEOREM PurgeTakesNoOthers == QASpec => []PurgeTakesOnlyTheStream
<1>1. QAInit => Shape /\ PurgeInv
  <2> SUFFICES ASSUME QAInit PROVE Shape /\ PurgeInv
    OBVIOUS
  <2>1. Init
    BY DEF QAInit
  <2>2. Shape
    BY <2>1, TypeInit, StreamInit
    DEF Shape, Init, AttemptInv, AttemptsBounded, VerdictsBounded, Ids
  <2>3. KeepInv
    BY <2>1, KeepInit
  <2>4. HeldInv
    BY <2>1 DEF Init, HeldInv, Holds, Pending, Threads, Main, Claimer
  <2>5. purged = {}
    BY DEF QAInit
  <2>6. TasksKept(Tasks \ Undecodable) => TasksKept(Tasks \ (Undecodable \cup purged))
    BY <2>5 DEF TasksKept
  <2>7. QED
    BY <2>2, <2>3, <2>4, <2>6 DEF KeepInv, PurgeInv
<1>2. ASSUME Shape, QAInv, PurgeInv, [QANext]_qaVars
      PROVE  Shape' /\ QAInv' /\ PurgeInv'
  <2>1. TypeOK /\ StreamInv /\ AttemptInv
    BY <1>2 DEF Shape
  <2>2. QAInv' /\ PurgeInv'
    BY <1>2, QATypeStep, PurgeStep
  <2>3. Shape'
    BY <1>2, <2>1, <2>2, QAStreamStep, QAAttemptStep DEF Shape, QAInv, QATypeOK
  <2>4. QED
    BY <2>2, <2>3
<1>3. PurgeInv => PurgeTakesOnlyTheStream
  <2> SUFFICES ASSUME PurgeInv, NoFaultYet, ~SlowHandlers,
                      NEW t \in Tasks \ (Undecodable \cup purged), Published(t)
               PROVE  Kept(t)
    BY DEF PurgeTakesOnlyTheStream
  <2>1. Safe(t) \/ Fresh(t)
    BY DEF PurgeInv, TasksKept
  <2>2. QED
    BY <2>1 DEF Safe, Fresh, Kept, HasCopy
<1>4. QED
  BY <1>1, <1>2, <1>3, QATypeInit, PTL DEF QASpec

=============================================================================
