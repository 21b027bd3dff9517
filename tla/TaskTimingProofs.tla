--------------------------- MODULE TaskTimingProofs ---------------------------
(***************************************************************************)
(* Theorems of TaskTiming, for every set of tasks, all options and all     *)
(* widths of the integers.                                                 *)
(***************************************************************************)
EXTENDS TaskTiming, TLAPS

(* A member of a sorted set has the score of the time it is due. *)
Scored == \A t \in Tasks : place[t] \in {"scheduled", "retry"} => score[t] = Score(due[t])

(* A task is not attempted before it is enqueued, and every attempt but the *)
(* last was followed by one delay.                                          *)
Counting ==
    \A t \in Tasks :
        /\ place[t] \in {"unbuilt", "built"} => rc[t] = 0
        /\ place[t] # "dead" => Len(waits[t]) = rc[t]

(* A task that took the unique key took it in the past, with the options it *)
(* has since kept, for no longer than the key is held.                      *)
Keys ==
    \A t \in Tasks : keySetAt[t] # None =>
        /\ place[t] \notin {"unbuilt", "built"}
        /\ keySetAt[t] <= now
        /\ keySetAt[t] + KeyTTL(opts[t]) <= keyUntil

TTInv ==
    /\ TTTypeOK
    /\ Scored
    /\ Counting
    /\ AttemptsAsStored
    /\ DelaysDouble
    /\ Keys
    /\ KeyExcludes

-----------------------------------------------------------------------------
(* Arithmetic.                                                              *)

LEMMA ConstantTypes ==
    /\ Second \in Nat \ {0} /\ Hour \in Nat \ {0}
    /\ RetryBase \in Nat \ {0} /\ RetryMax \in Nat \ {0}
    /\ RetryLimit \in Nat \ {0} /\ DurationLimit \in Nat \ {0}
    /\ None \notin Int
BY TimingAssumption

(* A conversion yields a number, the same one when the type has it. *)
LEMMA WrapIs ==
    ASSUME NEW n \in Int, NEW limit \in Nat \ {0}
    PROVE  /\ Wrap(n, limit) \in Int
           /\ n \in -limit .. limit - 1 => Wrap(n, limit) = n
<1>1. 2 * limit \in Nat \ {0}
  OBVIOUS
<1>2. (n + limit) % (2 * limit) \in 0 .. 2 * limit - 1
  BY <1>1
<1>3. ASSUME n \in -limit .. limit - 1 PROVE (n + limit) % (2 * limit) = n + limit
  <2>1. n + limit \in 0 .. 2 * limit - 1
    BY <1>3
  <2>2. \A k, m \in Int : m > 0 /\ k >= 0 /\ k < m => k % m = k
    OBVIOUS
  <2>3. QED
    BY <1>1, <2>1, <2>2
<1>4. QED
  BY <1>2, <1>3 DEF Wrap

(* Scores keep the order of times, and round down by less than a second. *)
LEMMA UnixIs ==
    ASSUME NEW a \in Int, NEW b \in Int
    PROVE  /\ Unix(a) \in Int
           /\ a <= b => Unix(a) <= Unix(b)
           /\ Unix(a) <= Unix(b) => b > a - Second
<1>1. Second \in Nat \ {0}
  BY ConstantTypes
<1>2. \A n \in Int, d \in Nat \ {0} :
          /\ n \div d \in Int
          /\ (n \div d) * d <= n
          /\ n < (n \div d) * d + d
  OBVIOUS
<1>3. /\ Unix(a) \in Int /\ Unix(b) \in Int
      /\ Unix(b) * Second <= b
      /\ a < Unix(a) * Second + Second
  BY <1>1, <1>2 DEF Unix
<1>4. a <= b => Unix(a) <= Unix(b)
  BY <1>1 DEF Unix
<1>5. ASSUME Unix(a) <= Unix(b) PROVE b > a - Second
  <2>1. \A m, n, d \in Int : m <= n /\ d > 0 => m * d <= n * d
    OBVIOUS
  <2>2. Unix(a) * Second <= Unix(b) * Second
    BY <1>1, <1>3, <1>5, <2>1
  <2>3. \A m, n \in Int : m <= n /\ n <= b /\ a < m + Second => b > a - Second
    BY <1>1
  <2>4. QED
    BY <1>1, <1>3, <2>2, <2>3
<1>6. QED
  BY <1>3, <1>4, <1>5

(* No delay exceeds RetryMax, and one that a duration can express is the    *)
(* power of two that is asked for.                                          *)
LEMMA BackoffIs ==
    ASSUME NEW attempt \in Nat \ {0}, NEW delay \in Backoff(attempt)
    PROVE  /\ delay \in Int
           /\ delay <= RetryMax
           /\ Fits(attempt) => delay = Least(RetryBase * 2 ^ (attempt - 1), RetryMax)
<1> DEFINE power == 2 ^ (attempt - 1)
<1>1. power \in Int
  <2>1. attempt - 1 \in Nat
    OBVIOUS
  <2>2. QED
    BY <2>1
<1> HIDE DEF power
<1>2. PICK p \in PowerOfTwo(attempt - 1) :
          delay = Least(Wrap(RetryBase * p, DurationLimit), RetryMax)
  BY DEF Backoff
<1>3. p \in Int /\ (power < DurationLimit => p = power)
  BY <1>1, <1>2, ConstantTypes DEF PowerOfTwo, power
<1>4. RetryBase * p \in Int
  BY <1>3, ConstantTypes
<1>5. Wrap(RetryBase * p, DurationLimit) \in Int
  BY <1>4, WrapIs, ConstantTypes
<1>6. ASSUME Fits(attempt) PROVE delay = Least(RetryBase * power, RetryMax)
  <2>1. RetryBase * power \in -DurationLimit .. DurationLimit - 1
    BY <1>6 DEF Fits, power
  <2>2. power < DurationLimit
    <3>1. \A b, m, n \in Int : b > 0 /\ m >= n /\ n > 0 => b * m >= n
      <4>1. SUFFICES ASSUME NEW b \in Int, NEW m \in Int, NEW n \in Int,
                            b > 0, m >= n, n > 0
                     PROVE  b * m >= n
        OBVIOUS
      <4>2. b * m >= 1 * m
        BY <4>1
      <4>3. QED
        BY <4>1, <4>2
    <3>2. QED
      BY <1>1, <2>1, <3>1, ConstantTypes
  <2>3. QED
    BY <1>2, <1>3, <1>4, <2>1, <2>2, WrapIs, ConstantTypes
<1>7. delay \in Int /\ delay <= RetryMax
  BY <1>2, <1>5, ConstantTypes DEF Least
<1>8. QED
  BY <1>6, <1>7 DEF power

(* What Append does to the sequence of delays, entry by entry.              *)
LEMMA AppendIs ==
    ASSUME NEW s \in Seq(Int), NEW d \in Int
    PROVE  /\ Len(s) \in Nat
           /\ Append(s, d) \in Seq(Int)
           /\ Len(Append(s, d)) = Len(s) + 1
           /\ \A i \in 1 .. Len(s) : Append(s, d)[i] = s[i]
           /\ Append(s, d)[Len(s) + 1] = d
OBVIOUS

(* handleFailure and CreateTask replace a MaxRetry that is not positive by  *)
(* the same number.                                                         *)
LEMMA RetriesAre ==
    ASSUME NEW o \in Options
    PROVE  /\ ServerRetries(o) \in Nat \ {0}
           /\ RowRetries(o) = ServerRetries(o)
           /\ KeyTTL(o) \in Nat \ {0}
BY ConstantTypes DEF Options, ServerRetries, RowRetries, KeyTTL

-----------------------------------------------------------------------------
(* Types.                                                                   *)

Places == {"unbuilt", "built", "duplicate", "scheduled", "stream", "retry", "dead", "done"}

(* The default options are options.                                         *)
LEMMA DefaultsAre == Defaults \in Options
BY DEF Defaults, Options

(* Every option leaves a record of options. *)
LEMMA OptionsAre ==
    ASSUME TTTypeOK, NEW o \in Options
    PROVE  /\ \A n \in MaxRetries : WithMaxRetry(o, n) \in Options
           /\ \A d \in Delays : WithProcessIn(o, d) \in Options
           /\ \A ttl \in TTLs : WithUniqueKey(o, ttl) \in Options
           /\ [o EXCEPT !.keyed = TRUE] \in Options
<1>1. \A n \in MaxRetries : WithMaxRetry(o, n) \in Options
  <2>1. ASSUME NEW n \in MaxRetries PROVE Wrap(n, RetryLimit) \in Int
    BY WrapIs, TimingAssumption
  <2>2. QED
    BY <2>1 DEF WithMaxRetry, Options
<1>2. \A d \in Delays : WithProcessIn(o, d) \in Options
  <2>1. ASSUME NEW d \in Delays PROVE now + d \in Int
    BY TimingAssumption DEF TTTypeOK
  <2>2. QED
    BY <2>1 DEF WithProcessIn, Options
<1>3. \A ttl \in TTLs : WithUniqueKey(o, ttl) \in Options
  BY TimingAssumption DEF WithUniqueKey, Options
<1>4. [o EXCEPT !.keyed = TRUE] \in Options
  BY DEF Options
<1>5. QED
  BY <1>1, <1>2, <1>3, <1>4

(* What a client submits is a task it built, with options of its own. *)
LEMMA Submissions ==
    ASSUME TTTypeOK, NEW t \in Tasks, Submission(t)
    PROVE  \E o \in Options, ttl \in Nat : Submit(t, o, ttl)
<1>1. opts[t] \in Options
  BY DEF TTTypeOK
<1>2. KeyTTL(opts[t]) \in Nat /\ TTLs \subseteq Nat
  BY <1>1, RetriesAre, TimingAssumption
<1>3. QED
  BY <1>1, <1>2, OptionsAre DEF Submission, Enqueue, EnqueueUnique, Schedule

(* NewTask gives one task options and changes nothing else about the        *)
(* options of the others.                                                   *)
LEMMA NewTaskIs ==
    ASSUME TTTypeOK, NEW t \in Tasks, NewTask(t)
    PROVE  \E o \in Options : opts' = [opts EXCEPT ![t] = o]
BY DefaultsAre, OptionsAre DEF NewTask

(* Submission keeps the types.                                              *)
LEMMA SubmitTypes ==
    ASSUME TTTypeOK, NEW t \in Tasks, NEW o \in Options, NEW ttl \in Nat, Submit(t, o, ttl)
    PROVE  TTTypeOK'
<1>1. now \in Nat /\ keyUntil \in Nat /\ KeyTTL(o) \in Nat
  BY RetriesAre DEF TTTypeOK
<1>2. keyUntil' \in Nat
  BY <1>1 DEF Submit
<1>3. opts' \in [Tasks -> Options]
  BY DEF Submit, TTTypeOK
<1>4. place' \in [Tasks -> Places]
  BY DEF Submit, TTTypeOK, Places
<1>5. keySetAt' \in [Tasks -> Nat \cup {None}]
  <2>1. UNCHANGED keySetAt \/ \E k \in Nat \cup {None} : keySetAt' = [keySetAt EXCEPT ![t] = k]
    BY <1>1 DEF Submit
  <2>2. QED
    BY <2>1 DEF TTTypeOK
<1>6. due' \in [Tasks -> Int] /\ score' \in [Tasks -> Int]
  <2>1. due \in [Tasks -> Int] /\ score \in [Tasks -> Int]
    BY DEF TTTypeOK
  <2>2. CASE UNCHANGED <<due, score>>
    BY <2>1, <2>2
  <2>3. CASE due' = [due EXCEPT ![t] = now] /\ UNCHANGED score
    BY <1>1, <2>1, <2>3
  <2>4. CASE /\ o.at # None
             /\ due' = [due EXCEPT ![t] = o.at]
             /\ score' = [score EXCEPT ![t] = Score(o.at)]
    <3>1. o.at \in Int
      BY <2>4 DEF Options
    <3>2. Score(o.at) \in Int
      BY <3>1, UnixIs DEF Score
    <3>3. QED
      BY <2>1, <2>4, <3>1, <3>2
  <2>5. QED
    BY <2>2, <2>3, <2>4 DEF Submit
<1>7. promised' \in [Tasks -> Nat]
  BY DEF Submit, TTTypeOK
<1>8. QED
  BY <1>1, <1>2, <1>3, <1>4, <1>5, <1>6, <1>7 DEF Submit, TTTypeOK, Places

(* A retry is due after a delay of calculateBackoff, which is counted. *)
LEMMA FailAttemptIs ==
    ASSUME TTTypeOK, NEW t \in Tasks, FailAttempt(t)
    PROVE  \/ /\ rc[t] + 1 >= ServerRetries(opts[t])
              /\ place' = [place EXCEPT ![t] = "dead"]
              /\ UNCHANGED <<due, score, waits>>
           \/ /\ rc[t] + 1 < ServerRetries(opts[t])
              /\ place' = [place EXCEPT ![t] = "retry"]
              /\ \E delay \in Backoff(rc[t] + 1) :
                    /\ delay \in Int
                    /\ due' = [due EXCEPT ![t] = now + delay]
                    /\ score' = [score EXCEPT ![t] = Score(now + delay)]
                    /\ waits' = [waits EXCEPT ![t] = Append(@, delay)]
<1>1. rc[t] + 1 \in Nat \ {0}
  BY DEF TTTypeOK
<1>2. \A delay \in Backoff(rc[t] + 1) : delay \in Int
  BY <1>1, BackoffIs
<1>3. QED
  BY <1>2 DEF FailAttempt

(* So does a failed attempt, with its counter and its delay.                *)
LEMMA FailAttemptTypes ==
    ASSUME TTTypeOK, NEW t \in Tasks, FailAttempt(t)
    PROVE  TTTypeOK'
<1>1. rc \in [Tasks -> Nat] /\ rc' = [rc EXCEPT ![t] = rc[t] + 1] /\ rc' \in [Tasks -> Nat]
  <2>1. rc \in [Tasks -> Nat] /\ rc' = [rc EXCEPT ![t] = rc[t] + 1]
    BY DEF TTTypeOK, FailAttempt
  <2>2. QED
    BY <2>1
<1>2. place' \in [Tasks -> Places]
  BY FailAttemptIs DEF TTTypeOK, Places
<1>3. /\ due \in [Tasks -> Int] /\ score \in [Tasks -> Int] /\ now \in Nat
      /\ waits \in [Tasks -> Seq(Int)]
      /\ \A u \in Tasks : Len(waits[u]) <= rc[u]
  BY DEF TTTypeOK
<1>4. /\ due' \in [Tasks -> Int] /\ score' \in [Tasks -> Int]
      /\ waits' \in [Tasks -> Seq(Int)]
      /\ \A u \in Tasks : Len(waits'[u]) <= rc'[u]
  <2>1. CASE UNCHANGED <<due, score, waits>>
    <3>1. \A u \in Tasks : rc[u] <= rc'[u] /\ rc[u] \in Nat /\ rc'[u] \in Nat
      BY <1>1
    <3>2. \A u \in Tasks : Len(waits[u]) \in Nat
      BY <1>3, AppendIs
    <3>3. \A u \in Tasks : Len(waits[u]) <= rc'[u]
      BY <1>3, <3>1, <3>2
    <3>4. QED
      BY <1>3, <2>1, <3>3
  <2>2. CASE \E delay \in Int :
                /\ due' = [due EXCEPT ![t] = now + delay]
                /\ score' = [score EXCEPT ![t] = Score(now + delay)]
                /\ waits' = [waits EXCEPT ![t] = Append(@, delay)]
    <3>1. PICK delay \in Int :
                /\ due' = [due EXCEPT ![t] = now + delay]
                /\ score' = [score EXCEPT ![t] = Score(now + delay)]
                /\ waits' = [waits EXCEPT ![t] = Append(@, delay)]
      BY <2>2
    <3>2. now + delay \in Int /\ Score(now + delay) \in Int
      BY <1>3, UnixIs DEF Score
    <3>3. due' \in [Tasks -> Int] /\ score' \in [Tasks -> Int]
      BY <1>3, <3>1, <3>2
    <3>4. waits[t] \in Seq(Int) /\ waits' = [waits EXCEPT ![t] = Append(waits[t], delay)]
      BY <1>3, <3>1
    <3>5. waits' \in [Tasks -> Seq(Int)]
      BY <1>3, <3>4, AppendIs
    <3>6. ASSUME NEW u \in Tasks PROVE Len(waits'[u]) <= rc'[u]
      <4>1. Len(waits[u]) \in Nat /\ Len(waits[u]) <= rc[u] /\ rc[u] \in Nat
        BY <1>1, <1>3, AppendIs
      <4>2. rc'[u] = IF u = t THEN rc[u] + 1 ELSE rc[u]
        BY <1>1
      <4>3. Len(waits'[u]) = IF u = t THEN Len(waits[u]) + 1 ELSE Len(waits[u])
        BY <1>3, <3>4, AppendIs
      <4>4. QED
        BY <4>1, <4>2, <4>3
    <3>7. QED
      BY <3>3, <3>5, <3>6
  <2>3. QED
    BY <2>1, <2>2, FailAttemptIs
<1>5. UNCHANGED <<now, keyUntil, opts, keySetAt, promised>>
  BY DEF FailAttempt
<1>6. QED
  BY <1>1, <1>2, <1>4, <1>5 DEF TTTypeOK, Places

(* So does every step.                                                      *)
LEMMA TTTypesStep ==
    ASSUME TTTypeOK, [TTNext]_vars
    PROVE  TTTypeOK'
<1>1. ASSUME NEW t \in Tasks, NewTask(t) PROVE TTTypeOK'
  BY <1>1, NewTaskIs DEF NewTask, TTTypeOK
<1>2. ASSUME NEW t \in Tasks, Submission(t) PROVE TTTypeOK'
  BY <1>2, Submissions, SubmitTypes
<1>3. ASSUME NEW t \in Tasks, MoveDue(t) \/ Complete(t) PROVE TTTypeOK'
  BY <1>3 DEF MoveDue, Complete, TTTypeOK
<1>4. ASSUME NEW t \in Tasks, FailAttempt(t) PROVE TTTypeOK'
  BY <1>4, FailAttemptTypes
<1>5. CASE Tick
  BY <1>5 DEF Tick, TTTypeOK
<1>6. CASE UNCHANGED vars
  BY <1>6 DEF vars, TTTypeOK
<1>7. QED
  BY <1>1, <1>2, <1>3, <1>4, <1>5, <1>6 DEF TTNext

-----------------------------------------------------------------------------
(* The sorted sets.                                                         *)

LEMMA ScoredStep ==
    ASSUME TTTypeOK, Scored, [TTNext]_vars
    PROVE  Scored'
<1>1. CASE UNCHANGED <<place, due, score>>
  BY <1>1 DEF Scored, Score, Unix
<1>2. ASSUME NEW t \in Tasks, NEW p \in {"built", "stream", "done", "duplicate", "dead"},
             place' = [place EXCEPT ![t] = p],
             \A u \in Tasks \ {t} : due'[u] = due[u] /\ score'[u] = score[u]
      PROVE  Scored'
  BY <1>2 DEF Scored, Score, Unix, TTTypeOK
<1>3. ASSUME NEW t \in Tasks, NEW p, NEW time,
             place' = [place EXCEPT ![t] = p],
             due' = [due EXCEPT ![t] = time],
             score' = [score EXCEPT ![t] = Score(time)]
      PROVE  Scored'
  BY <1>3 DEF Scored, Score, Unix, TTTypeOK
<1>4. ASSUME NEW t \in Tasks, Submission(t) PROVE Scored'
  <2>1. PICK o \in Options, ttl \in Nat : Submit(t, o, ttl)
    BY <1>4, Submissions
  <2>2. CASE place' = [place EXCEPT ![t] = "duplicate"] /\ UNCHANGED <<due, score>>
    BY <1>2, <2>2
  <2>3. CASE /\ place' = [place EXCEPT ![t] = "stream"]
             /\ due' = [due EXCEPT ![t] = now]
             /\ UNCHANGED score
    <3>1. \A u \in Tasks \ {t} : due'[u] = due[u] /\ score'[u] = score[u]
      BY <2>3 DEF TTTypeOK
    <3>2. QED
      BY <1>2, <2>3, <3>1
  <2>4. CASE /\ place' = [place EXCEPT ![t] = "scheduled"]
             /\ due' = [due EXCEPT ![t] = o.at]
             /\ score' = [score EXCEPT ![t] = Score(o.at)]
    BY <1>3, <2>4
  <2>5. QED
    BY <2>1, <2>2, <2>3, <2>4 DEF Submit
<1>5. ASSUME NEW t \in Tasks, NewTask(t) \/ MoveDue(t) \/ Complete(t) PROVE Scored'
  BY <1>2, <1>5 DEF NewTask, MoveDue, Complete
<1>6. ASSUME NEW t \in Tasks, FailAttempt(t) PROVE Scored'
  BY <1>2, <1>3, <1>6, FailAttemptIs
<1>7. CASE Tick \/ UNCHANGED vars
  BY <1>1, <1>7 DEF Tick, vars
<1>8. QED
  BY <1>4, <1>5, <1>6, <1>7 DEF TTNext

-----------------------------------------------------------------------------
(* Attempts and delays.                                                     *)

(* What a step does to one task. *)
LEMMA OneTask ==
    ASSUME TTTypeOK, [TTNext]_vars, NEW t \in Tasks
    PROVE  \/ /\ place[t] \in {"unbuilt", "built"}
              /\ place'[t] \notin {"unbuilt", "dead"}
              /\ UNCHANGED <<rc[t], waits[t]>>
           \/ /\ place[t] \in {"stream", "scheduled", "retry"}
              /\ place'[t] \in {"stream", "done"}
              /\ UNCHANGED <<opts[t], rc[t], waits[t]>>
           \/ FailAttempt(t)
           \/ UNCHANGED <<place[t], opts[t], rc[t], waits[t]>>
<1>1. /\ place \in [Tasks -> Places] /\ opts \in [Tasks -> Options]
      /\ rc \in [Tasks -> Nat] /\ waits \in [Tasks -> Seq(Int)]
  BY DEF TTTypeOK, Places
<1>2. ASSUME NEW u \in Tasks, u # t, FailAttempt(u)
      PROVE  UNCHANGED <<place[t], opts[t], rc[t], waits[t]>>
  <2>1. /\ \E p \in Places : place' = [place EXCEPT ![u] = p]
        /\ UNCHANGED waits \/ \E s : waits' = [waits EXCEPT ![u] = s]
        /\ rc' = [rc EXCEPT ![u] = rc[u] + 1]
        /\ UNCHANGED opts
    BY <1>2 DEF FailAttempt, Places
  <2>2. QED
    BY <1>1, <1>2, <2>1
<1>3. ASSUME NEW u \in Tasks, NewTask(u) \/ Submission(u)
      PROVE  \/ /\ u = t
                /\ place[t] \in {"unbuilt", "built"}
                /\ place'[t] \notin {"unbuilt", "dead"}
                /\ UNCHANGED <<rc[t], waits[t]>>
             \/ UNCHANGED <<place[t], opts[t], rc[t], waits[t]>>
  <2>1. /\ place[u] \in {"unbuilt", "built"}
        /\ \E p \in {"built", "duplicate", "scheduled", "stream"} :
              place' = [place EXCEPT ![u] = p]
        /\ \E o : opts' = [opts EXCEPT ![u] = o]
        /\ UNCHANGED <<rc, waits>>
    <3>1. CASE NewTask(u)
      BY <3>1 DEF NewTask
    <3>2. CASE Submission(u)
      <4>1. PICK o \in Options, ttl \in Nat : Submit(u, o, ttl)
        BY <3>2, Submissions
      <4>2. QED
        BY <4>1 DEF Submit
    <3>3. QED
      BY <1>3, <3>1, <3>2
  <2>2. QED
    BY <1>1, <2>1
<1>4. ASSUME NEW u \in Tasks, MoveDue(u) \/ Complete(u)
      PROVE  \/ /\ u = t
                /\ place[t] \in {"stream", "scheduled", "retry"}
                /\ place'[t] \in {"stream", "done"}
                /\ UNCHANGED <<opts[t], rc[t], waits[t]>>
             \/ UNCHANGED <<place[t], opts[t], rc[t], waits[t]>>
  <2>1. /\ place[u] \in {"stream", "scheduled", "retry"}
        /\ \E p \in {"stream", "done"} : place' = [place EXCEPT ![u] = p]
        /\ UNCHANGED <<opts, rc, waits>>
    BY <1>4 DEF MoveDue, Complete
  <2>2. QED
    BY <1>1, <2>1
<1>5. CASE Tick \/ UNCHANGED vars
  BY <1>5 DEF Tick, vars
<1>6. QED
  BY <1>2, <1>3, <1>4, <1>5 DEF TTNext

(* A failed attempt is counted; it is the last the row promises, or waits   *)
(* one more delay.                                                          *)
LEMMA FailedTask ==
    ASSUME TTTypeOK, NEW t \in Tasks, FailAttempt(t)
    PROVE  /\ opts'[t] = opts[t]
           /\ place[t] = "stream"
           /\ rc'[t] = rc[t] + 1
           /\ \/ /\ rc[t] + 1 >= RowRetries(opts[t])
                 /\ place'[t] = "dead"
                 /\ waits'[t] = waits[t]
              \/ /\ rc[t] + 1 < RowRetries(opts[t])
                 /\ place'[t] = "retry"
                 /\ \E delay \in Backoff(rc[t] + 1) :
                       /\ delay \in Int
                       /\ waits'[t] = Append(waits[t], delay)
<1>1. /\ place \in [Tasks -> Places] /\ opts \in [Tasks -> Options]
      /\ rc \in [Tasks -> Nat] /\ waits \in [Tasks -> Seq(Int)]
  BY DEF TTTypeOK, Places
<1>2. /\ UNCHANGED opts
      /\ place[t] = "stream"
      /\ rc' = [rc EXCEPT ![t] = rc[t] + 1]
  BY DEF FailAttempt
<1>3. RowRetries(opts[t]) = ServerRetries(opts[t])
  BY <1>1, RetriesAre
<1>4. QED
  BY <1>1, <1>2, <1>3, FailAttemptIs

(* The retries that are counted are the delays that were waited, and they   *)
(* end where the row says.                                                  *)
LEMMA CountingStep ==
    ASSUME TTTypeOK, Counting, AttemptsAsStored, [TTNext]_vars
    PROVE  Counting' /\ AttemptsAsStored'
<1> DEFINE C(t) == /\ place[t] \in {"unbuilt", "built"} => rc[t] = 0
                   /\ place[t] # "dead" => Len(waits[t]) = rc[t]
           A(t) == /\ place[t] = "dead" => rc[t] = RowRetries(opts[t])
                   /\ place[t] # "dead" => rc[t] < RowRetries(opts[t])
<1>1. SUFFICES ASSUME NEW t \in Tasks PROVE C(t)' /\ A(t)'
  BY DEF Counting, AttemptsAsStored
<1>2. C(t) /\ A(t)
  BY DEF Counting, AttemptsAsStored
<1>3. /\ rc[t] \in Nat /\ waits[t] \in Seq(Int)
      /\ RowRetries(opts[t]) \in Nat \ {0} /\ RowRetries(opts'[t]) \in Nat \ {0}
  BY TTTypesStep, RetriesAre DEF TTTypeOK
<1>4. CASE UNCHANGED <<place[t], opts[t], rc[t], waits[t]>>
  BY <1>2, <1>4 DEF RowRetries
<1>5. CASE /\ place[t] \in {"unbuilt", "built"}
           /\ place'[t] \notin {"unbuilt", "dead"}
           /\ UNCHANGED <<rc[t], waits[t]>>
  <2>1. rc[t] = 0
    BY <1>2, <1>5
  <2>2. QED
    BY <1>2, <1>3, <1>5, <2>1
<1>6. CASE /\ place[t] \in {"stream", "scheduled", "retry"}
           /\ place'[t] \in {"stream", "done"}
           /\ UNCHANGED <<opts[t], rc[t], waits[t]>>
  BY <1>2, <1>6
<1>7. CASE FailAttempt(t)
  <2>1. CASE /\ rc[t] + 1 >= RowRetries(opts[t])
             /\ place'[t] = "dead"
    <3>1. rc[t] < RowRetries(opts[t])
      BY <1>2, <1>7 DEF FailAttempt
    <3>2. rc[t] + 1 = RowRetries(opts[t])
      BY <1>3, <2>1, <3>1
    <3>3. opts'[t] = opts[t] /\ rc'[t] = rc[t] + 1
      BY <1>7, FailedTask
    <3>4. RowRetries(opts[t])' = RowRetries(opts[t])
      BY <3>3 DEF RowRetries
    <3>5. QED
      BY <2>1, <3>2, <3>3, <3>4
  <2>2. CASE /\ rc[t] + 1 < RowRetries(opts[t])
             /\ place'[t] = "retry"
             /\ \E delay \in Int : waits'[t] = Append(waits[t], delay)
    <3>1. opts'[t] = opts[t] /\ rc'[t] = rc[t] + 1
      BY <1>7, FailedTask
    <3>2. RowRetries(opts[t])' = RowRetries(opts[t])
      BY <3>1 DEF RowRetries
    <3>3. Len(waits[t]) = rc[t]
      BY <1>2, <1>7 DEF FailAttempt
    <3>4. Len(waits'[t]) = rc[t] + 1
      BY <1>3, <2>2, <3>3, AppendIs
    <3>5. QED
      BY <2>2, <3>1, <3>2, <3>4
  <2>3. QED
    BY <1>7, <2>1, <2>2, FailedTask
<1>8. QED
  BY <1>4, <1>5, <1>6, <1>7, OneTask

(* A delay that is added doubles the one before it, as long as the product  *)
(* fits.                                                                    *)
LEMMA DelaysStep ==
    ASSUME TTTypeOK, Counting, DelaysDouble, [TTNext]_vars
    PROVE  DelaysDouble'
<1> DEFINE D(s) == \A i \in 1 .. Len(s) :
                       /\ s[i] <= RetryMax
                       /\ Fits(i) => s[i] = Least(RetryBase * 2 ^ (i - 1), RetryMax)
<1>1. SUFFICES ASSUME NEW t \in Tasks PROVE D(waits'[t])
  BY DEF DelaysDouble
<1>2. D(waits[t])
  BY DEF DelaysDouble
<1>3. CASE waits'[t] = waits[t]
  BY <1>2, <1>3
<1>4. ASSUME NEW delay \in Backoff(rc[t] + 1), delay \in Int,
             waits'[t] = Append(waits[t], delay), FailAttempt(t)
      PROVE  D(waits'[t])
  <2>1. rc[t] \in Nat /\ waits[t] \in Seq(Int)
    BY DEF TTTypeOK
  <2>2. Len(waits[t]) = rc[t]
    BY <1>4 DEF Counting, FailAttempt
  <2> DEFINE n == rc[t] + 1
  <2>3. n \in Nat \ {0}
    BY <2>1
  <2>4. /\ Len(waits'[t]) = n
        /\ \A i \in 1 .. rc[t] : waits'[t][i] = waits[t][i]
        /\ waits'[t][n] = delay
    BY <1>4, <2>1, <2>2, AppendIs
  <2>5. /\ delay <= RetryMax
        /\ Fits(n) => delay = Least(RetryBase * 2 ^ (n - 1), RetryMax)
    BY <1>4, <2>3, BackoffIs
  <2>6. SUFFICES ASSUME NEW i \in 1 .. n
                 PROVE  /\ waits'[t][i] <= RetryMax
                        /\ Fits(i) => waits'[t][i] = Least(RetryBase * 2 ^ (i - 1), RetryMax)
    BY <2>4
  <2>7. CASE i = n
    BY <2>4, <2>5, <2>7
  <2>8. CASE i # n
    <3>1. i \in 1 .. rc[t]
      BY <2>1, <2>8
    <3>2. QED
      BY <1>2, <2>2, <2>4, <3>1
  <2>9. QED
    BY <2>7, <2>8
<1>5. QED
  BY <1>3, <1>4, OneTask, FailedTask

-----------------------------------------------------------------------------
(* The unique key.                                                          *)

(* Where the key, its takers and their options stay, so does what is known. *)
LEMMA KeysFrame ==
    ASSUME TTTypeOK, Keys, KeyExcludes,
           UNCHANGED <<keyUntil, keySetAt>>,
           now' \in Nat /\ now' >= now,
           \A u \in Tasks : keySetAt[u] # None =>
               opts'[u] = opts[u] /\ (place'[u] \notin {"unbuilt", "built"})
    PROVE  Keys' /\ KeyExcludes'
<1>1. \A u \in Tasks : keySetAt[u] # None => KeyTTL(opts'[u]) = KeyTTL(opts[u])
  BY DEF KeyTTL
<1>2. \A u \in Tasks : keySetAt[u] # None => keySetAt[u] \in Nat
  BY DEF TTTypeOK
<1>3. Keys'
  <2>1. \A m, n, k \in Nat : m <= n /\ k >= n => m <= k
    OBVIOUS
  <2>2. now \in Nat
    BY DEF TTTypeOK
  <2>3. QED
    BY <1>1, <1>2, <2>1, <2>2 DEF Keys, KeyTTL
<1>4. KeyExcludes'
  BY <1>1 DEF KeyExcludes, Follows, KeyTTL
<1>5. QED
  BY <1>3, <1>4

(* A Submit that takes the unique key takes it a TTL or more after the last *)
(* task that did.                                                           *)
LEMMA SubmitKeeps ==
    ASSUME TTTypeOK, Keys, KeyExcludes, NEW t \in Tasks, NEW o \in Options, NEW ttl \in Nat,
           Submit(t, o, ttl)
    PROVE  Keys' /\ KeyExcludes'
<1>1. /\ place \in [Tasks -> Places] /\ opts \in [Tasks -> Options]
      /\ keySetAt \in [Tasks -> Nat \cup {None}]
      /\ now \in Nat /\ keyUntil \in Nat /\ KeyTTL(o) \in Nat \ {0}
      /\ None \notin Nat
  BY RetriesAre, ConstantTypes DEF TTTypeOK, Places
<1>2. /\ place[t] = "built" /\ keySetAt[t] = None
      /\ UNCHANGED now
      /\ opts' = [opts EXCEPT ![t] = o]
      /\ \E p \in Places \ {"unbuilt", "built"} : place' = [place EXCEPT ![t] = p]
  <2>1. place[t] = "built"
    BY DEF Submit
  <2>2. keySetAt[t] = None
    BY <2>1 DEF Keys
  <2>3. QED
    BY <2>1, <2>2 DEF Submit, Places
<1>3. CASE keyUntil' = keyUntil /\ keySetAt' = keySetAt
  <2>1. \A u \in Tasks : keySetAt[u] # None =>
            opts'[u] = opts[u] /\ (place'[u] \notin {"unbuilt", "built"})
    BY <1>1, <1>2 DEF Keys
  <2>2. now' \in Nat /\ now' >= now
    BY <1>1, <1>2
  <2>3. QED
    BY <1>3, <2>1, <2>2, KeysFrame
<1>4. CASE /\ now >= keyUntil
           /\ keyUntil' = now + KeyTTL(o)
           /\ keySetAt' = [keySetAt EXCEPT ![t] = now]
  <2>1. /\ keySetAt'[t] = now /\ opts'[t] = o
        /\ place'[t] \notin {"unbuilt", "built"}
        /\ \A u \in Tasks \ {t} : /\ keySetAt'[u] = keySetAt[u] /\ opts'[u] = opts[u]
                                  /\ place'[u] = place[u]
    BY <1>1, <1>2, <1>4
  <2>2. ASSUME NEW u \in Tasks \ {t}, keySetAt[u] # None
        PROVE  /\ keySetAt[u] \in Nat /\ KeyTTL(opts[u]) \in Nat \ {0}
               /\ keySetAt[u] + KeyTTL(opts[u]) <= keyUntil
               /\ keySetAt[u] + KeyTTL(opts[u]) <= now
               /\ keySetAt[u] < now
               /\ place[u] \notin {"unbuilt", "built"}
    <3>1. keySetAt[u] \in Nat /\ KeyTTL(opts[u]) \in Nat \ {0}
      BY <1>1, <2>2, RetriesAre
    <3>2. keySetAt[u] + KeyTTL(opts[u]) <= keyUntil /\ place[u] \notin {"unbuilt", "built"}
      BY <2>2 DEF Keys
    <3>3. QED
      BY <1>1, <1>4, <3>1, <3>2
  <2>3. Keys'
    <3>1. SUFFICES ASSUME NEW u \in Tasks, keySetAt'[u] # None
                   PROVE  /\ place'[u] \notin {"unbuilt", "built"}
                          /\ keySetAt'[u] <= now
                          /\ keySetAt'[u] + KeyTTL(opts'[u]) <= now + KeyTTL(o)
      BY <1>2, <1>4 DEF Keys, KeyTTL
    <3>2. CASE u = t
      BY <1>1, <2>1, <3>2
    <3>3. CASE u # t
      BY <1>1, <2>1, <2>2, <3>1, <3>3
    <3>4. QED
      BY <3>2, <3>3
  <2>4. KeyExcludes'
    <3>1. SUFFICES ASSUME NEW u \in Tasks, NEW v \in Tasks, u # v,
                          keySetAt'[u] # None, keySetAt'[v] # None,
                          keySetAt'[u] <= keySetAt'[v]
                   PROVE  keySetAt'[v] >= keySetAt'[u] + KeyTTL(opts'[u])
      BY DEF KeyExcludes, Follows, KeyTTL
    <3>2. CASE v = t
      BY <1>1, <2>1, <2>2, <3>1, <3>2
    <3>3. CASE u = t
      <4>1. keySetAt[v] < now /\ keySetAt[v] \in Nat /\ keySetAt'[v] = keySetAt[v]
        BY <2>1, <2>2, <3>1, <3>3
      <4>2. QED
        BY <1>1, <2>1, <3>1, <3>3, <4>1
    <3>4. CASE u # t /\ v # t
      BY <2>1, <3>1, <3>4 DEF KeyExcludes, Follows
    <3>5. QED
      BY <3>2, <3>3, <3>4
  <2>5. QED
    BY <2>3, <2>4
<1>5. keySetAt' = keySetAt \/ keySetAt' = [keySetAt EXCEPT ![t] = now]
  BY <1>1, <1>2 DEF Submit
<1>6. QED
  <2>1. CASE o.keyed /\ KeyHeld
    BY <1>3, <2>1 DEF Submit
  <2>2. CASE ~o.keyed
    BY <1>1, <1>2, <1>3, <2>2 DEF Submit
  <2>3. CASE o.keyed /\ ~KeyHeld
    BY <1>1, <1>4, <2>3 DEF Submit, KeyHeld
  <2>4. QED
    BY <2>1, <2>2, <2>3 DEF Options

(* No other step moves a key back or changes the options of a task that has *)
(* been submitted.                                                          *)
LEMMA KeysStep ==
    ASSUME TTTypeOK, Keys, KeyExcludes, [TTNext]_vars
    PROVE  Keys' /\ KeyExcludes'
<1>0. now \in Nat /\ place \in [Tasks -> Places] /\ opts \in [Tasks -> Options]
  BY DEF TTTypeOK, Places
<1>1. ASSUME NEW t \in Tasks, Submission(t) PROVE Keys' /\ KeyExcludes'
  BY <1>1, Submissions, SubmitKeeps
<1>2. ASSUME UNCHANGED <<keyUntil, keySetAt>>, now' \in Nat, now' >= now,
             \A u \in Tasks : place[u] \notin {"unbuilt", "built"} =>
                 opts'[u] = opts[u] /\ place'[u] \notin {"unbuilt", "built"}
      PROVE  Keys' /\ KeyExcludes'
  <2>1. \A u \in Tasks : keySetAt[u] # None =>
            opts'[u] = opts[u] /\ (place'[u] \notin {"unbuilt", "built"})
    BY <1>2 DEF Keys
  <2>2. QED
    BY <1>2, <2>1, KeysFrame
<1>3. ASSUME NEW t \in Tasks, NewTask(t) PROVE Keys' /\ KeyExcludes'
  <2>1. /\ place[t] = "unbuilt"
        /\ \E o : opts' = [opts EXCEPT ![t] = o]
        /\ place' = [place EXCEPT ![t] = "built"]
        /\ UNCHANGED <<now, keyUntil, keySetAt>>
    BY <1>3 DEF NewTask
  <2>2. QED
    BY <1>0, <1>2, <2>1
<1>4. ASSUME NEW t \in Tasks, MoveDue(t) \/ Complete(t) \/ FailAttempt(t)
      PROVE  Keys' /\ KeyExcludes'
  <2>1. /\ \E p \in {"stream", "done", "dead", "retry"} : place' = [place EXCEPT ![t] = p]
        /\ UNCHANGED <<now, keyUntil, opts, keySetAt>>
    BY <1>4 DEF MoveDue, Complete, FailAttempt
  <2>2. QED
    BY <1>0, <1>2, <2>1
<1>5. CASE Tick
  <2>1. now' \in Nat /\ now' >= now
    BY <1>0, <1>5 DEF Tick
  <2>2. QED
    BY <1>2, <1>5, <2>1 DEF Tick
<1>6. CASE UNCHANGED vars
  BY <1>0, <1>2, <1>6 DEF vars
<1>7. QED
  BY <1>1, <1>3, <1>4, <1>5, <1>6 DEF TTNext

-----------------------------------------------------------------------------
(* At first no task is built, nothing has been waited for and no key is     *)
(* held.                                                                    *)
LEMMA TTInvInit == ASSUME TTInit PROVE TTInv
<1>1. TTTypeOK
  <2>1. /\ keySetAt \in [Tasks -> Nat \cup {None}] /\ promised \in [Tasks -> Nat] /\ now \in Nat /\ keyUntil \in Nat
        /\ due \in [Tasks -> Int] /\ score \in [Tasks -> Int] /\ rc \in [Tasks -> Nat]
    BY DEF TTInit
  <2>2. waits \in [Tasks -> Seq(Int)] /\ \A t \in Tasks : Len(waits[t]) = 0
    BY DEF TTInit
  <2>3. \A t \in Tasks : Len(waits[t]) <= rc[t]
    <3>1. SUFFICES ASSUME NEW t \in Tasks PROVE Len(waits[t]) <= rc[t]
      OBVIOUS
    <3>2. Len(waits[t]) = 0
      BY <2>2
    <3>3. rc[t] = 0
      BY DEF TTInit
    <3>4. QED
      BY <3>2, <3>3
  <2>4. opts \in [Tasks -> Options]
    BY DefaultsAre DEF TTInit
  <2>5. QED
    BY <2>1, <2>2, <2>3, <2>4 DEF TTInit, TTTypeOK
<1>2. Scored /\ Counting /\ DelaysDouble /\ Keys /\ KeyExcludes
  BY DEF TTInit, Scored, Counting, DelaysDouble, Keys, KeyExcludes, Follows
<1>3. AttemptsAsStored
  <2>1. RowRetries(Defaults) = 3
    BY DEF RowRetries, Defaults
  <2>2. \A t \in Tasks : rc[t] = 0 /\ opts[t] = Defaults /\ place[t] = "unbuilt"
    BY DEF TTInit
  <2>3. ASSUME NEW t \in Tasks PROVE rc[t] < RowRetries(opts[t])
    <3>1. rc[t] = 0
      BY <2>2
    <3>2. RowRetries(opts[t]) = 3
      BY <2>1, <2>2
    <3>3. QED
      BY <3>1, <3>2
  <2>4. QED
    BY <2>2, <2>3 DEF AttemptsAsStored
<1>4. QED
  BY <1>1, <1>2, <1>3 DEF TTInv

(* The parts of the invariant are kept together by every step.              *)
LEMMA TTInvStep == ASSUME TTInv, [TTNext]_vars PROVE TTInv'
BY TTTypesStep, ScoredStep, CountingStep, DelaysStep, KeysStep DEF TTInv

(* So the invariant holds in every reachable state.                         *)
LEMMA SpecTTInv == TTSpec => []TTInv
BY TTInvInit, TTInvStep, PTL DEF TTSpec

(* The options, the scores and the counters keep their types, and a retry   *)
(* that waits is counted (task.go, client.go, handleFailure).               *)
THEOREM TimingTypesHold == TTSpec => []TTTypeOK
<1>1. TTInv => TTTypeOK
  BY DEF TTInv
<1>2. QED
  BY <1>1, SpecTTInv, PTL

(* To EnqueueScheduled and EnqueueRetry every member whose time has come is *)
(* due, and none is that is early by a second or more; a tick moves those   *)
(* that are due, up to its batch limit.                                     *)
THEOREM TakenOnTime == TTSpec => []TakenWhenDue
<1>1. ASSUME TTInv PROVE TakenWhenDue
  <2>1. SUFFICES ASSUME NEW t \in Tasks, place[t] \in {"scheduled", "retry"}
                 PROVE  /\ now >= due[t] => score[t] <= Until
                        /\ score[t] <= Until => now > due[t] - Second
    BY DEF TakenWhenDue
  <2>2. now \in Int /\ due[t] \in Int
    BY <1>1 DEF TTInv, TTTypeOK
  <2>3. score[t] = Unix(due[t]) /\ Until = Unix(now)
    BY <1>1, <2>1 DEF TTInv, Scored, Score, Until
  <2>4. now >= due[t] => Unix(due[t]) <= Unix(now)
    BY <2>2, UnixIs
  <2>5. QED
    BY <2>2, <2>3, <2>4, UnixIs
<1>2. QED
  BY <1>1, SpecTTInv, PTL

(* calculateBackoff doubles the delay up to RetryMax for as long as a       *)
(* duration can express the product, and never exceeds RetryMax.            *)
THEOREM BackoffDoubles == TTSpec => []DelaysDouble
<1>1. TTInv => DelaysDouble
  BY DEF TTInv
<1>2. QED
  BY <1>1, SpecTTInv, PTL

(* handleFailure sends a task to the dead letter queue after exactly the    *)
(* attempts that CreateTask stored as max_retry.                            *)
THEOREM AttemptsAreThoseStored == TTSpec => []AttemptsAsStored
<1>1. TTInv => AttemptsAsStored
  BY DEF TTInv
<1>2. QED
  BY <1>1, SpecTTInv, PTL

(* SetUnique lets two tasks take one key no sooner apart than the TTL that  *)
(* Enqueue gave it for the earlier: that of WithUniqueKey, or an hour.      *)
THEOREM KeysExclude == TTSpec => []KeyExcludes
<1>1. TTInv => KeyExcludes
  BY DEF TTInv
<1>2. QED
  BY <1>1, SpecTTInv, PTL
====
