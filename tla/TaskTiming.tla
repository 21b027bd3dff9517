------------------------------ MODULE TaskTiming ------------------------------
(***************************************************************************)
(* What the options of a task ask for, and when the task runs: the options *)
(* that NewTask starts from, the unique key and its TTL, ProcessAt, the    *)
(* scores of the sorted sets, MaxRetry and the delays between retries.     *)
(*                                                                         *)
(* Code: task.go (NewTask, the options), client.go (Enqueue,               *)
(* EnqueueUnique, Schedule), server.go (handleFailure, calculateBackoff),  *)
(* broker/redis/redis.go (Schedule, EnqueueScheduled, Retry, EnqueueRetry, *)
(* SetUnique) and postgres.go (CreateTask).                                *)
(*                                                                         *)
(* Delivery leaves open when a task is due; here a clock says so, one for  *)
(* clients, workers and Redis, and nothing fails.  A tick is the unit of   *)
(* every duration, Second ticks are a second.  Integers wrap around at     *)
(* their width: RetryLimit stands for 2^31, where MaxRetry ends, and       *)
(* DurationLimit for 2^63, where a duration does.                          *)
(***************************************************************************)
EXTENDS Integers, Sequences

CONSTANTS
    Tasks,          \* tasks that ask for the same unique key, if for any
    Second,         \* ticks in a second
    Hour,           \* TTL of a unique key when no option gives one
    RetryBase,      \* retryBaseDuration
    RetryMax,       \* retryMaxDuration
    RetryLimit,     \* least number too large for TaskOptions.MaxRetry
    DurationLimit,  \* least number too large for a time.Duration
    MaxRetries,     \* arguments of WithMaxRetry
    Delays,         \* arguments of WithProcessIn and Schedule, from now
    TTLs,           \* arguments of WithUniqueKey and EnqueueUnique
    MaxTime,        \* bound on the clock
    None            \* nil, and no time

ASSUME TimingAssumption ==
    /\ {Second, Hour, RetryBase, RetryMax} \subseteq Nat \ {0}
    /\ {RetryLimit, DurationLimit} \subseteq Nat \ {0}
    /\ MaxRetries \cup Delays \subseteq Int
    /\ TTLs \subseteq Nat
    /\ MaxTime \in Nat
    /\ None \notin Int

(* Conversion of an integer to a signed type, whose members are the         *)
(* integers from -limit to limit - 1.                                       *)
Wrap(n, limit) == ((n + limit) % (2 * limit)) - limit

Least(a, b) == IF a < b THEN a ELSE b

VARIABLES
    now,        \* the time
    keyUntil,   \* when the unique key expires
    opts,       \* the options of each task
    place,      \* where each task is
    due,        \* when it is meant to run
    score,      \* its score in a sorted set
    rc,         \* Metadata.RetryCount
    \* history, read only by the properties
    keySetAt,   \* when a task took the unique key, None if it did not
    promised,   \* for how long its caller was told to have it
    waits       \* the delays of its retries so far

vars == <<now, keyUntil, opts, place, due, score, rc, keySetAt, promised, waits>>

Options == [maxRetry : Int, at : Int \cup {None}, keyed : BOOLEAN, ttl : Nat]

(* NewTask and NewTaskFromBytes. *)
Defaults == [maxRetry |-> 3, at |-> None, keyed |-> FALSE, ttl |-> 0]

TTInit ==
    /\ now = 0
    /\ keyUntil = 0
    /\ opts = [t \in Tasks |-> Defaults]
    /\ place = [t \in Tasks |-> "unbuilt"]
    /\ due = [t \in Tasks |-> 0]
    /\ score = [t \in Tasks |-> 0]
    /\ rc = [t \in Tasks |-> 0]
    /\ keySetAt = [t \in Tasks |-> None]
    /\ promised = [t \in Tasks |-> 0]
    /\ waits = [t \in Tasks |-> << >>]

-----------------------------------------------------------------------------
(* The options.                                                             *)

WithMaxRetry(o, n)     == [o EXCEPT !.maxRetry = Wrap(n, RetryLimit)]
WithProcessIn(o, d)    == [o EXCEPT !.at = now + d]
WithUniqueKey(o, ttl)  == [o EXCEPT !.keyed = TRUE, !.ttl = ttl]

NewTask(t) ==
    /\ place[t] = "unbuilt"
    /\ \E retries \in {Defaults} \cup {WithMaxRetry(Defaults, n) : n \in MaxRetries} :
       \E timed \in {retries} \cup {WithProcessIn(retries, d) : d \in Delays} :
       \E o \in {timed} \cup {WithUniqueKey(timed, ttl) : ttl \in TTLs} :
           opts' = [opts EXCEPT ![t] = o]
    /\ place' = [place EXCEPT ![t] = "built"]
    /\ UNCHANGED <<now, keyUntil, due, score, rc, keySetAt, promised, waits>>

(* The attempts a task gets: what the server takes MaxRetry for, what the   *)
(* row in the store says.                                                   *)
ServerRetriesAsGiven(o) == o.maxRetry   \* mutant
ServerRetries(o) == IF o.maxRetry > 0 THEN o.maxRetry ELSE 3
RowRetries(o)    == IF o.maxRetry > 0 THEN o.maxRetry ELSE 3

KeyTTL(o) == IF o.ttl > 0 THEN o.ttl ELSE Hour

-----------------------------------------------------------------------------
(* The client.                                                              *)

Unix(time) == time \div Second

(* The score of a member, and the score up to which members are due. *)
ScoreUp(time) == (time + Second - 1) \div Second   \* mutant
Score(time) == Unix(time)
Until == Unix(now)

(* Does SET NX find the unique key? *)
KeyHeldNever == FALSE   \* mutant
KeyHeld == now < keyUntil

(* Enqueue, once the options are final: the unique key with its TTL, then   *)
(* the sorted set or the stream.  promise is what the caller knows of the   *)
(* TTL.                                                                     *)
Submit(t, o, promise) ==
    /\ place[t] = "built"
    /\ promised' = [promised EXCEPT ![t] = promise]
    /\ opts' = [opts EXCEPT ![t] = o]
    /\ \/ /\ o.keyed /\ KeyHeld
          /\ place' = [place EXCEPT ![t] = "duplicate"]
          /\ UNCHANGED <<keyUntil, keySetAt, due, score>>
       \/ /\ o.keyed => ~KeyHeld
          /\ keyUntil' = IF o.keyed THEN now + KeyTTL(o) ELSE keyUntil
          /\ keySetAt' = [keySetAt EXCEPT ![t] = IF o.keyed THEN now ELSE None]
          /\ \/ /\ o.at # None /\ o.at > now
                /\ place' = [place EXCEPT ![t] = "scheduled"]
                /\ due' = [due EXCEPT ![t] = o.at]
                /\ score' = [score EXCEPT ![t] = Score(o.at)]
             \/ /\ o.at # None => o.at <= now
                /\ place' = [place EXCEPT ![t] = "stream"]
                /\ due' = [due EXCEPT ![t] = now]
                /\ UNCHANGED score
    /\ UNCHANGED <<now, rc, waits>>

Enqueue(t) == Submit(t, opts[t], KeyTTL(opts[t]))

(* Its ttl argument goes nowhere. *)
EnqueueUnique(t, ttl) == Submit(t, [opts[t] EXCEPT !.keyed = TRUE], ttl)

Schedule(t, d) == Submit(t, WithProcessIn(opts[t], d), KeyTTL(opts[t]))

-----------------------------------------------------------------------------
(* The scheduler and the server.                                            *)

(* EnqueueScheduled and EnqueueRetry: scores up to now, in seconds. *)
MoveDue(t) ==
    /\ place[t] \in {"scheduled", "retry"}
    /\ score[t] <= Until
    /\ place' = [place EXCEPT ![t] = "stream"]
    /\ UNCHANGED <<now, keyUntil, opts, due, score, rc, keySetAt, promised, waits>>

(* time.Duration(math.Pow(2, n)): what a float64 beyond an int64 becomes is *)
(* up to the processor, the least or the largest integer.                   *)
PowerOfTwo(n) ==
    IF 2 ^ n < DurationLimit THEN {2 ^ n} ELSE {-DurationLimit, DurationLimit - 1}

(* calculateBackoff. *)
BackoffUncapped(attempt) ==   \* mutant
    {Wrap(RetryBase * p, DurationLimit) : p \in PowerOfTwo(attempt - 1)}
Backoff(attempt) ==
    {Least(Wrap(RetryBase * p, DurationLimit), RetryMax) : p \in PowerOfTwo(attempt - 1)}

(* The handler returns nil. *)
Complete(t) ==
    /\ place[t] = "stream"
    /\ place' = [place EXCEPT ![t] = "done"]
    /\ UNCHANGED <<now, keyUntil, opts, due, score, rc, keySetAt, promised, waits>>

(* It fails: the dead letter queue, or the retry set. *)
FailWithoutCount(t) ==   \* mutant
    /\ place[t] = "stream"
    /\ place' = [place EXCEPT ![t] = "retry"]
    /\ \E delay \in Backoff(rc[t] + 1) :
          /\ due' = [due EXCEPT ![t] = now + delay]
          /\ score' = [score EXCEPT ![t] = Score(now + delay)]
          /\ waits' = [waits EXCEPT ![t] = Append(@, delay)]
    /\ UNCHANGED <<now, keyUntil, opts, rc, keySetAt, promised>>
FailAttempt(t) ==
    LET attempt == rc[t] + 1
    IN  /\ place[t] = "stream"
        /\ rc' = [rc EXCEPT ![t] = attempt]
        /\ \/ /\ attempt >= ServerRetries(opts[t])
              /\ place' = [place EXCEPT ![t] = "dead"]
              /\ UNCHANGED <<due, score, waits>>
           \/ /\ attempt < ServerRetries(opts[t])
              /\ place' = [place EXCEPT ![t] = "retry"]
              /\ \E delay \in Backoff(attempt) :
                    /\ due' = [due EXCEPT ![t] = now + delay]
                    /\ score' = [score EXCEPT ![t] = Score(now + delay)]
                    /\ waits' = [waits EXCEPT ![t] = Append(@, delay)]
        /\ UNCHANGED <<now, keyUntil, opts, keySetAt, promised>>

Tick ==
    /\ now < MaxTime
    /\ now' = now + 1
    /\ UNCHANGED <<keyUntil, opts, place, due, score, rc, keySetAt, promised, waits>>

-----------------------------------------------------------------------------
Submission(t) ==
    \/ Enqueue(t)
    \/ \E ttl \in TTLs : EnqueueUnique(t, ttl)
    \/ \E d \in Delays : Schedule(t, d)

TTNext ==
    \/ \E t \in Tasks :
          \/ NewTask(t)
          \/ Submission(t)
          \/ MoveDue(t)
          \/ Complete(t)
          \/ FailAttempt(t)
    \/ Tick

TTSpec == TTInit /\ [][TTNext]_vars

-----------------------------------------------------------------------------
(* Every variable has its type, and no retry waits without being counted. *)
TTTypeOK ==
    /\ now \in Nat
    /\ keyUntil \in Nat
    /\ opts \in [Tasks -> Options]
    /\ place \in [Tasks -> {"unbuilt", "built", "duplicate", "scheduled", "stream",
                            "retry", "dead", "done"}]
    /\ due \in [Tasks -> Int]
    /\ score \in [Tasks -> Int]
    /\ rc \in [Tasks -> Nat]
    /\ keySetAt \in [Tasks -> Nat \cup {None}]
    /\ promised \in [Tasks -> Nat]
    /\ waits \in [Tasks -> Seq(Int)]
    /\ \A t \in Tasks : Len(waits[t]) <= rc[t]

(* Scores are whole seconds, rounded down, and so is the time they are      *)
(* compared with: a tick of the scheduler sees as due every member of a     *)
(* sorted set whose time has come, and none that is early by a second or    *)
(* more.  (Of those it sees it moves up to its batch limit.)                *)
TakenWhenDue ==
    \A t \in Tasks : place[t] \in {"scheduled", "retry"} =>
        /\ now >= due[t] => score[t] <= Until
        /\ score[t] <= Until => now > due[t] - Second

(* The delays double from RetryBase and stop at RetryMax, for as long as    *)
(* the product fits a time.Duration; after that a delay may be zero or      *)
(* negative, but is never longer than RetryMax.  The comment of             *)
(* calculateBackoff, server.go:459, says "base * 2^attempt", twice that:    *)
(* the first retry comes after the base alone.                              *)
Fits(i) == RetryBase * 2 ^ (i - 1) \in -DurationLimit .. DurationLimit - 1
DelaysDouble ==
    \A t \in Tasks : \A i \in 1 .. Len(waits[t]) :
        /\ waits[t][i] <= RetryMax
        /\ Fits(i) => waits[t][i] = Least(RetryBase * 2 ^ (i - 1), RetryMax)

(* A dead task has had the attempts its row in the store promises, whatever *)
(* was passed to WithMaxRetry: zero, a negative number, or one too large    *)
(* for 32 bits.                                                             *)
AttemptsAsStored ==
    \A t \in Tasks :
        /\ place[t] = "dead" => rc[t] = RowRetries(opts[t])
        /\ place[t] # "dead" => rc[t] < RowRetries(opts[t])

(* u took the unique key when t had it, or had had it. *)
Follows(u, t) ==
    t # u /\ keySetAt[t] # None /\ keySetAt[u] # None /\ keySetAt[t] <= keySetAt[u]

(* Two tasks take the unique key apart by at least the TTL that Enqueue     *)
(* finds in the options of the earlier: that of WithUniqueKey, or an hour.  *)
KeyExcludes ==
    \A t, u \in Tasks : Follows(u, t) => keySetAt[u] >= keySetAt[t] + KeyTTL(opts[t])

(* client.go:125, "If a task with the same key already exists within the    *)
(* TTL, ErrDuplicateTask is returned": the TTL the caller passed, to        *)
(* WithUniqueKey or to EnqueueUnique.                                       *)
UniqueWithinTTL ==
    \A t, u \in Tasks : Follows(u, t) => keySetAt[u] >= keySetAt[t] + promised[t]

=============================================================================
