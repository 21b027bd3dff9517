------------------------ MODULE ServerLifecycleProofs ------------------------
(***************************************************************************)
(* Theorems of ServerLifecycle, for every number of calls of Start and of  *)
(* Shutdown, of signals and of errors, with and without the cleanup.       *)
(*                                                                         *)
(* The invariant says who owns s.running and s.shutdown, which calls may   *)
(* have goroutines at work, what a goroutine in wg.Wait may find when it   *)
(* wakes up, and what a Subscribe can still read once it is cancelled.     *)
(***************************************************************************)
EXTENDS ServerLifecycle, FiniteSetTheorems, WellFoundedInduction, TLAPS

(* Where a call of Start is while s.running is its own.  One that failed    *)
(* keeps it.                                                                *)
Owning == {"launch", "select", "wait", "failed"}

(* Calls take the lock in order, and the last that found the server stopped *)
(* made the shutdown channel.                                               *)
Ownership ==
    /\ \A c, d \in Calls : d < c /\ pc[c] # "idle" => pc[d] # "idle"
    /\ running => shutdown \in Calls /\ pc[shutdown] \in Owning
    /\ \A c \in Calls : pc[c] = "failed" => running /\ shutdown = c
    /\ \A c \in Calls : pc[c] \notin {"idle", "refused"} => c <= shutdown

(* A call that has not launched has no goroutines, and one that is past its *)
(* select has cancelled their context.                                      *)
Generations ==
    \A c \in Calls :
        /\ pc[c] \in {"idle", "launch", "refused"} => routines[c] = {} /\ sub[c] = "none"
        /\ pc[c] \in {"wait", "graceful", "forced", "failed"} => c \in cancelled
        /\ routines[c] \subseteq Counted \cup {"subscribe", "claimer"}

NoneCounted == \A c \in Calls : routines[c] \cap Counted = {}

(* A goroutine that was woken finds the counter at zero, unless its call    *)
(* was forced to return and a later one has launched; when it closed done,  *)
(* nothing of its own call or of an earlier one was left.                   *)
Waits ==
    \A c \in Calls :
        /\ waiter[c] # "none" => pc[c] \in {"wait", "graceful", "forced"}
        /\ pc[c] = "graceful" => waiter[c] = "done"
        /\ waiter[c] = "woken" /\ pc[c] = "wait" => NoneCounted
        /\ waiter[c] = "woken" /\ ~NoneCounted =>
              \E d \in Calls : c < d /\ pc[d] # "idle"
        /\ waiter[c] = "done" =>
              \A d \in Calls : d <= c => routines[d] \cap Counted = {}

ClosedWhenAsked == \A c \in closed : asked[c] > 0

(* Until Subscribe returns, it has slept after each error it counts, and it *)
(* only gives up after MaxRetries of them.                                  *)
SleptEnough ==
    \A c \in Calls :
        /\ sub[c] # "returned" =>
              retryCount[c] <= MaxRetries /\ slept[c] = Patience[retryCount[c]]
        /\ sub[c] # "returned" => errCh[c] = "none"
        /\ errCh[c] = "gave up" => slept[c] = Patience[MaxRetries]

(* A batch begun under a cancelled context answers a read that was in       *)
(* flight when it ended, and no other read follows.                         *)
Drains ==
    \A c \in Calls :
        /\ c \notin cancelled => late[c] = 0
        /\ late[c] + (IF sub[c] \in InFlight THEN 1 ELSE 0) <= 1

LCInv ==
    /\ LCTypeOK
    /\ Ownership
    /\ Generations
    /\ Waits
    /\ ClosedWhenAsked
    /\ PanicsOnlyIf
    /\ SleptEnough
    /\ Drains

-----------------------------------------------------------------------------
(* The WaitGroup.                                                           *)

Pairs == {p \in Calls \X Counted : p[2] \in routines[p[1]]}

(* The calls and what the WaitGroup counts of each are finitely many, so    *)
(* that the counter is a number.                                            *)
LEMMA PairsAreFinite == IsFiniteSet(Pairs)
<1>1. IsFiniteSet(Calls)
  BY LifecycleAssumption, FS_Interval DEF Calls
<1>2. IsFiniteSet({"scheduler"}) /\ IsFiniteSet({"scheduler"} \cup {"cleanup"})
  BY FS_Singleton, FS_AddElement
<1>3. Counted \in {{"scheduler"}, {"scheduler"} \cup {"cleanup"}}
  BY DEF Counted
<1>4. IsFiniteSet(Counted)
  BY <1>2, <1>3
<1>5. IsFiniteSet(Calls \X Counted)
  BY <1>1, <1>4, FS_Product
<1>6. Pairs \in SUBSET (Calls \X Counted)
  BY DEF Pairs
<1>7. QED
  BY <1>5, <1>6, FS_Subset

(* A goroutine that is counted is in a pair. *)
LEMMA PairOf ==
    /\ \A c \in Calls : \A r \in Counted : r \in routines[c] <=> <<c, r>> \in Pairs
    /\ \A p \in Pairs : p[1] \in Calls /\ p[2] \in routines[p[1]] \cap Counted
BY DEF Pairs

(* The counter of s.wg is zero when no goroutine it counts is left.         *)
LEMMA CountZero ==
    /\ WaitCount \in Nat
    /\ WaitCount = 0 <=> NoneCounted
<1>1. WaitCount \in Nat /\ (WaitCount = 0 <=> Pairs = {})
  BY PairsAreFinite, FS_CardinalityType, FS_EmptySet DEF WaitCount, Pairs
<1>2. ASSUME Pairs = {} PROVE NoneCounted
  BY <1>2, PairOf DEF NoneCounted
<1>3. ASSUME NoneCounted PROVE Pairs = {}
  BY <1>3, PairOf DEF NoneCounted
<1>4. QED
  BY <1>1, <1>2, <1>3

(* When it is one, the counted goroutine that ends is the last.             *)
LEMMA CountOne ==
    ASSUME LCTypeOK,
           WaitCount = 1,
           NEW c \in Calls,
           NEW r \in routines[c] \cap Counted,
           routines' = [routines EXCEPT ![c] = @ \ {r}]
    PROVE  NoneCounted'
<1>1. PICK x : Pairs = {x}
  BY PairsAreFinite, FS_Singleton DEF WaitCount, Pairs
<1>2. \A d \in Calls : \A s \in Counted : s \in routines[d] => <<d, s>> = <<c, r>>
  BY <1>1, PairOf
<1>3. \A d \in Calls : \A s \in Counted : s \in routines[d] => d = c /\ s = r
  BY <1>2
<1>4. QED
  BY <1>3 DEF NoneCounted, LCTypeOK, Counted

-----------------------------------------------------------------------------
(* Types.                                                                   *)

LEMMA CallsAreNumbered ==
    /\ MaxStarts \in Nat
    /\ Calls \subseteq Nat \ {0}
    /\ Calls \subseteq 0 .. MaxStarts
<1>1. MaxStarts \in Nat
  BY LifecycleAssumption
<1>2. QED
  BY <1>1 DEF Calls

(* An event that is spent leaves the numbers of events natural.             *)
LEMMA SpendTypes ==
    ASSUME LCTypeOK, NEW kind \in {"shutdown", "signal", "error"}, NEW bound,
           Spend(kind, bound)
    PROVE  spent' \in [{"shutdown", "signal", "error"} -> Nat]
<1>1. spent \in [{"shutdown", "signal", "error"} -> Nat]
  BY DEF LCTypeOK
<1>2. spent[kind] + 1 \in Nat
  BY <1>1
<1>3. spent' = [spent EXCEPT ![kind] = spent[kind] + 1]
  BY DEF Spend
<1>4. QED
  BY <1>1, <1>2, <1>3

(* The n-th sleep of Subscribe is a whole number of seconds.                *)
LEMMA BackoffType ==
    ASSUME NEW n \in Nat \ {0}
    PROVE  Backoff(n) \in Int
<1>1. n - 1 \in Nat
  OBVIOUS
<1>2. 2 ^ (n - 1) \in Int
  BY <1>1
<1>3. QED
  BY <1>2, LifecycleAssumption DEF Backoff

(* What Start does keeps the types, and one call at a time owns the server. *)
LEMMA StartTypes ==
    ASSUME LCTypeOK, NEW c \in Calls,
           Lock(c) \/ Launch(c) \/ Stop(c) \/ Fail(c) \/ Return(c)
    PROVE  LCTypeOK'
<1>1. c \in 0 .. MaxStarts
  BY CallsAreNumbered
<1>2. UNCHANGED <<closed, retryCount, slept, late, process, spent, asked>>
  BY DEF Lock, Launch, Stop, Fail, Return, serverVars, subVars
<1>3. CASE Lock(c)
  <2>1. /\ UNCHANGED <<cancelled, sigCh, errCh, waiter, routines, sub>>
        /\ pc[c] = "idle"
    BY <1>3 DEF Lock, subVars
  <2>2. CASE running /\ pc' = [pc EXCEPT ![c] = "refused"] /\ UNCHANGED <<running, shutdown>>
    BY <1>2, <2>1, <2>2 DEF LCTypeOK, Returned
  <2>3. CASE ~running /\ pc' = [pc EXCEPT ![c] = "launch"] /\ running' = TRUE /\ shutdown' = c
    BY <1>1, <1>2, <2>1, <2>3 DEF LCTypeOK, Returned
  <2>4. QED
    BY <1>3, <2>2, <2>3 DEF Lock
<1>4. CASE Launch(c)
  BY <1>2, <1>4 DEF Launch, serverVars, LCTypeOK, Returned
<1>5. CASE Stop(c)
  BY <1>2, <1>5 DEF Stop, serverVars, subVars, LCTypeOK, Returned
<1>6. CASE Fail(c)
  BY <1>2, <1>6 DEF Fail, serverVars, subVars, LCTypeOK, Returned
<1>7. CASE Return(c)
  <2>1. /\ pc[c] = "wait"
        /\ running' = FALSE
        /\ UNCHANGED <<shutdown, cancelled, sigCh, errCh, waiter, routines, sub>>
    BY <1>7 DEF Return, subVars
  <2>2. PICK how \in {"graceful", "forced"} : pc' = [pc EXCEPT ![c] = how]
    BY <1>7 DEF Return
  <2>3. \A d \in Calls : pc'[d] \notin {"launch", "select", "wait"}
    BY <2>1, <2>2 DEF LCTypeOK
  <2>4. pc' \in [Calls -> {"idle", "launch", "select", "wait"} \cup Returned]
    BY <2>2 DEF LCTypeOK, Returned
  <2>5. QED
    BY <1>2, <2>1, <2>3, <2>4 DEF LCTypeOK
<1>8. QED
  BY <1>3, <1>4, <1>5, <1>6, <1>7

(* So do the goroutines. *)
LEMMA RoutineTypes ==
    ASSUME LCTypeOK, NEW c \in Calls,
           WaitReturns(c) \/ (\E r \in routines[c] : RoutineEnds(c, r))
    PROVE  LCTypeOK'
<1> USE DEF LCTypeOK
<1>1. CASE WaitReturns(c)
  BY <1>1 DEF WaitReturns, serverVars, callVars, subVars, Returned
<1>2. ASSUME NEW r \in routines[c], RoutineEnds(c, r) PROVE LCTypeOK'
  BY <1>2 DEF RoutineEnds, serverVars, callVars, subVars, Returned
<1>3. QED
  BY <1>1, <1>2

SubTypes ==
    /\ sub \in [Calls -> {"none", "group", "own read", "recovering", "read", "away", "returned"}]
    /\ errCh \in [Calls -> {"none", "cancelled", "fatal", "gave up"}]
    /\ routines \in [Calls -> SUBSET {"scheduler", "cleanup", "subscribe", "claimer"}]
    /\ retryCount \in [Calls -> Nat]
    /\ slept \in [Calls -> Int]
    /\ late \in [Calls -> Nat]

(* A counter that is reset stays an integer.                                *)
LEMMA ResetType == \A f \in [Calls -> Int], c \in Calls : [f EXCEPT ![c] = 0] \in [Calls -> Int]
OBVIOUS

(* What a step of Subscribe comes to: it returns, sleeps, is answered or    *)
(* reads on.                                                                *)
Sleeps(c) ==
    LET n == retryCount[c] + 1
    IN  /\ n <= MaxRetries
        /\ sub' = [sub EXCEPT ![c] = "away"]
        /\ retryCount' = [retryCount EXCEPT ![c] = n]
        /\ slept' = [slept EXCEPT ![c] = @ + Backoff(n)]
        /\ UNCHANGED <<errCh, routines, late>>

Answered(c) ==
    /\ sub[c] \in InFlight
    /\ \/ \E s \in {"away", "recovering"} :
              /\ sub' = [sub EXCEPT ![c] = s]
              /\ late' = [late EXCEPT ![c] = IF c \in cancelled THEN @ + 1 ELSE @]
       \/ /\ c \notin cancelled
          /\ sub' = [sub EXCEPT ![c] = "read"]
          /\ UNCHANGED late
    /\ retryCount' = [retryCount EXCEPT ![c] = 0]
    /\ slept' = [slept EXCEPT ![c] = 0]
    /\ UNCHANGED <<errCh, routines>>

ReadsOn(c) ==
    /\ c \notin cancelled
    /\ \E read \in InFlight : sub' = [sub EXCEPT ![c] = read]
    /\ \/ UNCHANGED routines
       \/ routines' = [routines EXCEPT ![c] = @ \cup {"claimer"}]
    /\ UNCHANGED <<errCh, retryCount, slept, late>>

(* Those are all the steps it has, and they leave Start alone.              *)
LEMMA SubscribeOutcomes ==
    ASSUME NEW c \in Calls, SubscribeStep(c)
    PROVE  /\ UNCHANGED <<running, shutdown, closed, pc, cancelled, sigCh, waiter, process,
                          asked>>
           /\ UNCHANGED spent \/ Spend("error", MaxErrors)
           /\ sub[c] \in {"group", "own read", "recovering", "read", "away"}
           /\ \/ \E err \in {"cancelled", "fatal"} : SubscribeReturns(c, err)
              \/ retryCount[c] + 1 > MaxRetries /\ SubscribeReturns(c, "gave up")
              \/ Sleeps(c)
              \/ Answered(c)
              \/ ReadsOn(c)
<1>1. CASE CreateGroup(c)
  BY <1>1 DEF CreateGroup, Cancelled, Broken, Read, ReadsOn, InFlight, serverVars
<1>2. CASE Answer(c)
  <2>1. CASE Batch(c)
    BY <1>2, <2>1 DEF Answer, Batch, Answered, InFlight, serverVars
  <2>2. CASE NoBatch(c)
    BY <1>2, <2>2 DEF Answer, NoBatch, Cancelled, Read, Answered, InFlight, serverVars
  <2>3. QED
    BY <1>2, <2>1, <2>2 DEF Answer
<1>3. CASE TransientError(c)
  BY <1>3 DEF TransientError, Sleeps, serverVars
<1>4. CASE OtherError(c)
  BY <1>4 DEF OtherError, Cancelled, Broken, InFlight, serverVars
<1>5. CASE Resume(c)
  BY <1>5 DEF Resume, Cancelled, Read, ReadsOn, InFlight, serverVars
<1>6. QED
  BY <1>1, <1>2, <1>3, <1>4, <1>5 DEF SubscribeStep

(* Subscribe's return keeps the types of its own variables.                 *)
LEMMA ReturnTypes ==
    ASSUME SubTypes, NEW c \in Calls, NEW err \in {"cancelled", "fatal", "gave up"},
           SubscribeReturns(c, err)
    PROVE  SubTypes'
<1>1. slept \in [Calls -> Int]
  BY DEF SubTypes
<1>2. slept' \in [Calls -> Int]
  <2>1. slept' = [slept EXCEPT ![c] = IF err = "gave up" THEN slept[c] ELSE 0]
    BY DEF SubscribeReturns
  <2>2. CASE err = "gave up"
    BY <1>1, <2>1, <2>2
  <2>3. CASE err # "gave up"
    BY <1>1, <2>1, <2>3, ResetType
  <2>4. QED
    BY <2>2, <2>3
<1>3. retryCount' \in [Calls -> Nat]
  <2>1. retryCount \in [Calls -> Nat]
    BY DEF SubTypes
  <2>2. retryCount' = [retryCount EXCEPT ![c] = 0]
    BY DEF SubscribeReturns
  <2>3. QED
    BY <2>1, <2>2
<1>4. late' \in [Calls -> Nat]
  <2>1. late \in [Calls -> Nat]
    BY DEF SubTypes
  <2>2. QED
    BY <2>1 DEF SubscribeReturns
<1>5. QED
  BY <1>2, <1>3, <1>4 DEF SubTypes, SubscribeReturns

(* Every step of Subscribe keeps the types.                                 *)
LEMMA SubscribeTypes ==
    ASSUME LCTypeOK, NEW c \in Calls, SubscribeStep(c)
    PROVE  LCTypeOK'
<1>1. /\ UNCHANGED <<running, shutdown, closed, pc, cancelled, sigCh, waiter, process, asked>>
      /\ \/ UNCHANGED spent
         \/ Spend("error", MaxErrors)
  BY SubscribeOutcomes
<1>2. spent' \in [{"shutdown", "signal", "error"} -> Nat]
  BY <1>1, SpendTypes DEF LCTypeOK
<1>3. SubTypes
  BY DEF LCTypeOK, SubTypes
<1>4. ASSUME SubTypes' PROVE LCTypeOK'
  BY <1>1, <1>2, <1>4 DEF LCTypeOK, SubTypes
<1>5. ASSUME NEW err \in {"cancelled", "fatal", "gave up"}, SubscribeReturns(c, err)
      PROVE  LCTypeOK'
  BY <1>3, <1>4, <1>5, ReturnTypes
<1>6. slept \in [Calls -> Int] /\ retryCount \in [Calls -> Nat] /\ late \in [Calls -> Nat]
  BY <1>3 DEF SubTypes
<1>7. CASE Sleeps(c)
  <2> DEFINE n == retryCount[c] + 1
  <2>1. n \in Nat \ {0} /\ slept[c] \in Int
    BY <1>6
  <2>2. slept[c] + Backoff(n) \in Int
    BY <2>1, BackoffType
  <2>3. /\ sub' = [sub EXCEPT ![c] = "away"]
        /\ retryCount' = [retryCount EXCEPT ![c] = n]
        /\ slept' = [slept EXCEPT ![c] = slept[c] + Backoff(n)]
        /\ UNCHANGED <<errCh, routines, late>>
    BY <1>7 DEF Sleeps
  <2> HIDE DEF n
  <2>4. retryCount' \in [Calls -> Nat] /\ slept' \in [Calls -> Int]
    BY <1>6, <2>1, <2>2, <2>3
  <2>5. QED
    BY <1>3, <1>4, <2>3, <2>4 DEF SubTypes
<1>8. CASE Answered(c)
  <2>1. retryCount' \in [Calls -> Nat] /\ slept' \in [Calls -> Int]
    BY <1>6, <1>8 DEF Answered
  <2>2. late' \in [Calls -> Nat]
    BY <1>6, <1>8 DEF Answered
  <2>3. sub' \in [Calls -> {"none", "group", "own read", "recovering", "read", "away", "returned"}]
    BY <1>3, <1>8 DEF Answered, SubTypes
  <2>4. QED
    BY <1>3, <1>4, <1>8, <2>1, <2>2, <2>3 DEF Answered, SubTypes
<1>9. CASE ReadsOn(c)
  <2>1. sub' \in [Calls -> {"none", "group", "own read", "recovering", "read", "away", "returned"}]
    BY <1>3, <1>9 DEF ReadsOn, SubTypes, InFlight
  <2>2. routines' \in [Calls -> SUBSET {"scheduler", "cleanup", "subscribe", "claimer"}]
    <3>1. routines \in [Calls -> SUBSET {"scheduler", "cleanup", "subscribe", "claimer"}]
      BY <1>3 DEF SubTypes
    <3>2. routines[c] \cup {"claimer"} \subseteq {"scheduler", "cleanup", "subscribe", "claimer"}
      BY <3>1
    <3>3. QED
      BY <1>9, <3>1, <3>2 DEF ReadsOn
  <2>3. QED
    BY <1>3, <1>4, <1>9, <2>1, <2>2 DEF ReadsOn, SubTypes
<1>10. QED
  BY <1>5, <1>7, <1>8, <1>9, SubscribeOutcomes

(* So do calls of Shutdown and signals.                                     *)
LEMMA OutsideTypes ==
    ASSUME LCTypeOK, running => shutdown \in Calls, Shutdown \/ Signal
    PROVE  LCTypeOK'
<1>1. spent' \in [{"shutdown", "signal", "error"} -> Nat]
  BY SpendTypes DEF Shutdown, Signal
<1>2. CASE Shutdown
  <2>1. /\ UNCHANGED <<running, shutdown, pc, cancelled, sigCh, errCh, waiter, routines,
                       sub, retryCount, slept, late>>
        /\ asked' = [asked EXCEPT ![shutdown] = asked[shutdown] + 1]
        /\ closed' \in {closed, closed \cup {shutdown}}
        /\ process' \in {process, "close panic"}
    BY <1>2 DEF Shutdown, callVars, subVars
  <2>2. asked' \in [Calls -> Nat]
    <3>1. asked \in [Calls -> Nat]
      BY DEF LCTypeOK
    <3>2. shutdown \in Calls => asked[shutdown] + 1 \in Nat
      BY <3>1
    <3>3. QED
      BY <2>1, <3>1, <3>2
  <2>3. closed' \subseteq Calls
    <3>1. shutdown \in Calls
      BY <1>2 DEF Shutdown
    <3>2. closed \subseteq Calls
      BY DEF LCTypeOK
    <3>3. QED
      BY <2>1, <3>1, <3>2
  <2>4. QED
    BY <1>1, <2>1, <2>2, <2>3 DEF LCTypeOK
<1>3. CASE Signal
  BY <1>1, <1>3 DEF Signal, LCTypeOK, serverVars, subVars
<1>4. QED
  BY <1>2, <1>3

(* So does every step, given that the Start under way owns s.running.       *)
LEMMA TypesStep ==
    ASSUME LCTypeOK, Ownership, [LCNext]_vars
    PROVE  LCTypeOK'
<1>1. CASE UNCHANGED vars
  BY <1>1 DEF LCTypeOK, vars, serverVars, callVars, subVars
<1>2. CASE LCNext
  BY <1>2, StartTypes, RoutineTypes, SubscribeTypes, OutsideTypes DEF LCNext, Progress, Ownership
<1>3. QED
  BY <1>1, <1>2

-----------------------------------------------------------------------------
(* Who owns the server.                                                     *)

(* Only the steps of Start touch s.running, s.shutdown and the calls. *)
LEMMA StartFrame ==
    ASSUME NEW c \in Calls,
           SubscribeStep(c) \/ WaitReturns(c) \/ (\E r \in routines[c] : RoutineEnds(c, r))
    PROVE  UNCHANGED <<running, shutdown, pc, closed, cancelled, asked>>
BY SubscribeOutcomes DEF WaitReturns, RoutineEnds, serverVars

(* s.running belongs to the last Start that was not refused, and no step    *)
(* takes it away.                                                           *)
LEMMA OwnershipStep ==
    ASSUME LCTypeOK, Ownership, [LCNext]_vars
    PROVE  Ownership'
<1>1. CASE UNCHANGED <<running, shutdown, pc>>
  BY <1>1 DEF Ownership
<1>2. ASSUME NEW c \in Calls, Lock(c) PROVE Ownership'
  <2>1. /\ pc \in [Calls -> {"idle", "launch", "select", "wait"} \cup Returned]
        /\ pc[c] = "idle"
        /\ \A d \in Calls : d < c => pc[d] # "idle"
        /\ Calls \subseteq Nat
    BY <1>2, CallsAreNumbered DEF LCTypeOK, Lock
  <2>2. CASE running /\ pc' = [pc EXCEPT ![c] = "refused"] /\ UNCHANGED <<running, shutdown>>
    BY <2>1, <2>2 DEF Ownership, Owning
  <2>3. CASE ~running /\ pc' = [pc EXCEPT ![c] = "launch"] /\ running' = TRUE /\ shutdown' = c
    <3>1. \A d \in Calls : pc[d] # "idle" => d <= c
      BY <2>1 DEF Ownership
    <3>2. QED
      BY <2>1, <2>3, <3>1 DEF Ownership, Owning
  <2>4. QED
    BY <1>2, <2>2, <2>3 DEF Lock
<1>3. ASSUME NEW c \in Calls, Launch(c) \/ Stop(c) \/ Fail(c) PROVE Ownership'
  <2>1. /\ pc \in [Calls -> {"idle", "launch", "select", "wait"} \cup Returned]
        /\ pc[c] \in {"launch", "select"}
        /\ \E p \in {"select", "wait", "failed"} : pc' = [pc EXCEPT ![c] = p]
        /\ UNCHANGED <<running, shutdown>>
        /\ running /\ shutdown = c
    BY <1>3 DEF LCTypeOK, Launch, Stop, Fail, serverVars
  <2>2. QED
    BY <2>1 DEF Ownership, Owning
<1>4. ASSUME NEW c \in Calls, Return(c) PROVE Ownership'
  <2>1. /\ pc \in [Calls -> {"idle", "launch", "select", "wait"} \cup Returned]
        /\ pc[c] = "wait"
        /\ \E p \in {"graceful", "forced"} : pc' = [pc EXCEPT ![c] = p]
        /\ running' = FALSE
        /\ UNCHANGED shutdown
        /\ shutdown = c
    BY <1>4 DEF LCTypeOK, Return
  <2>2. QED
    BY <2>1 DEF Ownership, Owning
<1>5. CASE Shutdown \/ Signal
  BY <1>1, <1>5 DEF Shutdown, Signal, serverVars, callVars
<1>6. CASE UNCHANGED vars
  BY <1>1, <1>6 DEF vars, serverVars, callVars
<1>7. QED
  BY <1>1, <1>2, <1>3, <1>4, <1>5, <1>6, StartFrame DEF LCNext, Progress

-----------------------------------------------------------------------------
(* Goroutines.                                                              *)

(* A Subscribe that returns only takes its own goroutine away, one that has *)
(* created the group adds the claimer; both are past Launch.                *)
LEMMA SubscribeRoutines ==
    ASSUME LCTypeOK, NEW c \in Calls, SubscribeStep(c)
    PROVE  /\ UNCHANGED <<running, shutdown, closed, pc, cancelled, sigCh, waiter, process,
                          asked>>
           /\ sub[c] # "none"
           /\ \A d \in Calls \ {c} : sub'[d] = sub[d] /\ routines'[d] = routines[d]
           /\ \/ routines'[c] \subseteq routines[c]
              \/ routines'[c] = routines[c] \cup {"claimer"}
<1>1. /\ UNCHANGED <<running, shutdown, closed, pc, cancelled, sigCh, waiter, process, asked>>
      /\ sub[c] # "none"
      /\ \E s : sub' = [sub EXCEPT ![c] = s]
      /\ \/ UNCHANGED routines
         \/ routines' = [routines EXCEPT ![c] = @ \cup {"claimer"}]
         \/ routines' = [routines EXCEPT ![c] = @ \ {"subscribe"}]
  BY SubscribeOutcomes DEF Sleeps, Answered, ReadsOn, SubscribeReturns
<1>2. sub \in [Calls -> {"none", "group", "own read", "recovering", "read", "away", "returned"}]
  BY DEF LCTypeOK
<1>3. routines \in [Calls -> SUBSET {"scheduler", "cleanup", "subscribe", "claimer"}]
  BY DEF LCTypeOK
<1>4. QED
  BY <1>1, <1>2, <1>3

(* No step lets a call that has not launched have goroutines, or one past   *)
(* its select keep its context alive.                                       *)
LEMMA GenerationsStep ==
    ASSUME LCTypeOK, Generations, [LCNext]_vars
    PROVE  Generations'
<1>1. CASE UNCHANGED <<pc, cancelled, routines, sub>>
  BY <1>1 DEF Generations
<1>2. ASSUME NEW c \in Calls, SubscribeStep(c) PROVE Generations'
  BY <1>2, SubscribeRoutines DEF Generations
<1>3. ASSUME NEW c \in Calls, NEW r \in routines[c], RoutineEnds(c, r) PROVE Generations'
  BY <1>3 DEF RoutineEnds, Generations, LCTypeOK, subVars
<1>4. ASSUME NEW c \in Calls, Lock(c) PROVE Generations'
  <2>1. /\ pc[c] = "idle"
        /\ \E p \in {"launch", "refused"} : pc' = [pc EXCEPT ![c] = p]
        /\ UNCHANGED <<cancelled, routines, sub>>
    BY <1>4 DEF Lock, subVars
  <2>2. QED
    BY <2>1 DEF Generations, LCTypeOK
<1>5. ASSUME NEW c \in Calls, Launch(c) PROVE Generations'
  BY <1>5 DEF Launch, Generations, LCTypeOK, Counted
<1>6. ASSUME NEW c \in Calls, Stop(c) \/ Fail(c) PROVE Generations'
  <2>1. /\ pc[c] = "select"
        /\ \E p \in {"wait", "failed"} : pc' = [pc EXCEPT ![c] = p]
        /\ cancelled' = cancelled \cup {c}
        /\ UNCHANGED <<routines, sub>>
    BY <1>6 DEF Stop, Fail, subVars
  <2>2. QED
    BY <2>1 DEF Generations, LCTypeOK
<1>7. ASSUME NEW c \in Calls, Return(c) PROVE Generations'
  <2>1. /\ pc[c] = "wait"
        /\ \E p \in {"graceful", "forced"} : pc' = [pc EXCEPT ![c] = p]
        /\ UNCHANGED <<cancelled, routines, sub>>
    BY <1>7 DEF Return, subVars
  <2>2. QED
    BY <2>1 DEF Generations, LCTypeOK
<1>8. ASSUME NEW c \in Calls, WaitReturns(c) PROVE Generations'
  BY <1>1, <1>8 DEF WaitReturns, subVars
<1>9. CASE Shutdown \/ Signal
  BY <1>1, <1>9 DEF Shutdown, Signal, callVars, subVars
<1>10. CASE UNCHANGED vars
  BY <1>1, <1>10 DEF vars, callVars, subVars
<1>11. QED
  BY <1>2, <1>3, <1>4, <1>5, <1>6, <1>7, <1>8, <1>9, <1>10 DEF LCNext, Progress

-----------------------------------------------------------------------------
(* Waiting for the WaitGroup.                                               *)

(* Where no counted goroutine is added, no call forgotten and no waiter     *)
(* woken, what waiters may count on stays.                                  *)
LEMMA WaitsFrame ==
    ASSUME LCTypeOK, Waits,
           \A d \in Calls : routines'[d] \cap Counted \subseteq routines[d] \cap Counted,
           \A d \in Calls : pc[d] # "idle" => pc'[d] # "idle",
           \A d \in Calls : pc[d] \in {"wait", "graceful", "forced"} =>
               pc'[d] = pc[d] \/ (pc[d] = "wait" /\ pc'[d] = "forced")
                              \/ (pc[d] = "wait" /\ pc'[d] = "graceful" /\ waiter[d] = "done"),
           \A d \in Calls : pc'[d] \in {"wait", "graceful"} => pc[d] \in {"wait", "graceful"},
           UNCHANGED waiter
    PROVE  Waits'
<1>1. NoneCounted => NoneCounted'
  BY DEF NoneCounted
<1>2. QED
  BY <1>1 DEF Waits

(* No step lets a goroutine in s.wg.Wait return while something it waited   *)
(* for still runs, unless a later Start has launched.                       *)
LEMMA WaitsStep ==
    ASSUME LCTypeOK, Ownership, Generations, Waits, [LCNext]_vars
    PROVE  Waits'
<1>1. CASE UNCHANGED <<pc, waiter, routines>>
  BY <1>1 DEF Waits, NoneCounted
<1>2. ASSUME NEW c \in Calls, SubscribeStep(c) PROVE Waits'
  <2>1. \A d \in Calls : routines'[d] \cap Counted \subseteq routines[d] \cap Counted
    BY <1>2, SubscribeRoutines DEF Counted
  <2>2. UNCHANGED <<pc, waiter>>
    BY <1>2, SubscribeRoutines
  <2>3. QED
    BY <2>1, <2>2, WaitsFrame
<1>3. ASSUME NEW c \in Calls, NEW r \in routines[c], RoutineEnds(c, r) PROVE Waits'
  <2>1. /\ routines' = [routines EXCEPT ![c] = @ \ {r}]
        /\ UNCHANGED pc
        /\ waiter' = [d \in Calls |->
                         IF waiter[d] = "waiting" /\ r \in Counted /\ WaitCount = 1
                         THEN "woken" ELSE waiter[d]]
    BY <1>3 DEF RoutineEnds
  <2>2. \A d \in Calls : routines'[d] \cap Counted \subseteq routines[d] \cap Counted
    BY <2>1 DEF LCTypeOK
  <2>3. NoneCounted => NoneCounted'
    BY <2>2 DEF NoneCounted
  <2>4. CASE r \in Counted /\ WaitCount = 1
    <3>1. NoneCounted'
      BY <2>1, <2>4, CountOne
    <3>2. \A d \in Calls : /\ waiter'[d] = "none" <=> waiter[d] = "none"
                           /\ waiter'[d] = "done" <=> waiter[d] = "done"
      BY <2>1 DEF LCTypeOK
    <3>3. QED
      BY <2>1, <2>2, <3>1, <3>2 DEF Waits
  <2>5. CASE ~(r \in Counted /\ WaitCount = 1)
    <3>1. waiter' = waiter
      BY <2>1, <2>5 DEF LCTypeOK
    <3>2. QED
      BY <2>1, <2>2, <3>1, WaitsFrame
  <2>6. QED
    BY <2>4, <2>5
<1>4. ASSUME NEW c \in Calls, Lock(c) PROVE Waits'
  <2>1. /\ pc[c] = "idle"
        /\ \E p \in {"launch", "refused"} : pc' = [pc EXCEPT ![c] = p]
        /\ UNCHANGED <<waiter, routines>>
    BY <1>4 DEF Lock
  <2>2. \A d \in Calls : /\ pc[d] # "idle" => pc'[d] = pc[d]
                         /\ pc'[d] \in {"wait", "graceful"} => pc'[d] = pc[d]
                         /\ pc[d] # "idle" => pc'[d] # "idle"
    BY <2>1 DEF LCTypeOK
  <2>3. QED
    BY <2>1, <2>2, WaitsFrame
<1>5. ASSUME NEW c \in Calls, Fail(c) PROVE Waits'
  <2>1. /\ pc[c] = "select"
        /\ pc' = [pc EXCEPT ![c] = "failed"]
        /\ UNCHANGED <<waiter, routines>>
    BY <1>5 DEF Fail
  <2>2. \A d \in Calls : /\ d # c => pc'[d] = pc[d]
                         /\ pc'[c] = "failed"
    BY <2>1 DEF LCTypeOK
  <2>3. QED
    BY <2>1, <2>2, WaitsFrame
<1>6. ASSUME NEW c \in Calls, Launch(c) PROVE Waits'
  <2>1. /\ pc[c] = "launch"
        /\ pc'[c] = "select"
        /\ \A d \in Calls \ {c} : pc'[d] = pc[d] /\ routines'[d] = routines[d]
        /\ UNCHANGED waiter
        /\ shutdown = c
    BY <1>6 DEF Launch, LCTypeOK
  <2>2. \A d \in Calls : waiter[d] # "none" =>
            d < c /\ pc[d] # "wait" /\ pc'[d] = pc[d]
    <3>1. SUFFICES ASSUME NEW d \in Calls, waiter[d] # "none"
                   PROVE  d < c /\ pc[d] # "wait" /\ pc'[d] = pc[d]
      OBVIOUS
    <3>2. pc[d] \in {"wait", "graceful", "forced"} /\ d # c
      BY <2>1, <3>1 DEF Waits
    <3>3. d <= c
      BY <2>1, <3>2 DEF Ownership
    <3>4. d \in Nat /\ c \in Nat
      BY CallsAreNumbered
    <3>5. pc[d] # "wait"
      BY <2>1, <3>2 DEF LCTypeOK
    <3>6. QED
      BY <2>1, <3>2, <3>3, <3>4, <3>5
  <2>3. \A d \in Calls : waiter[d] = "done" =>
            \A e \in Calls : e <= d => e # c
    BY <2>2, CallsAreNumbered
  <2>4. \A d \in Calls : /\ pc'[d] = "graceful" => waiter'[d] = "done"
                         /\ waiter'[d] # "none" => pc'[d] \in {"wait", "graceful", "forced"}
    BY <2>1, <2>2 DEF Waits
  <2>5. \A d \in Calls : waiter'[d] = "done" =>
            \A e \in Calls : e <= d => routines'[e] \cap Counted = {}
    BY <2>1, <2>3 DEF Waits
  <2>6. QED
    BY <2>1, <2>2, <2>4, <2>5 DEF Waits
<1>7. ASSUME NEW c \in Calls, Stop(c) PROVE Waits'
  <2>1. /\ pc[c] = "select" /\ pc'[c] = "wait"
        /\ waiter'[c] = IF WaitCount = 0 THEN "done" ELSE "waiting"
        /\ \A d \in Calls \ {c} : pc'[d] = pc[d] /\ waiter'[d] = waiter[d]
        /\ UNCHANGED routines
    BY <1>7 DEF Stop, LCTypeOK
  <2>2. NoneCounted' = NoneCounted
    BY <2>1 DEF NoneCounted
  <2>3. waiter'[c] = "done" => NoneCounted
    BY <2>1, CountZero
  <2>4. QED
    BY <2>1, <2>2, <2>3 DEF Waits, NoneCounted
<1>8. ASSUME NEW c \in Calls, Return(c) PROVE Waits'
  <2>1. /\ pc[c] = "wait"
        /\ \/ waiter[c] = "done" /\ pc'[c] = "graceful"
           \/ waiter[c] # "done" /\ pc'[c] = "forced"
        /\ \A d \in Calls \ {c} : pc'[d] = pc[d]
        /\ UNCHANGED <<waiter, routines>>
    BY <1>8 DEF Return, LCTypeOK
  <2>2. QED
    BY <2>1, WaitsFrame
<1>9. ASSUME NEW c \in Calls, WaitReturns(c) PROVE Waits'
  <2>1. CASE WaitCount = 0 /\ waiter' = [waiter EXCEPT ![c] = "done"]
    <3>1. waiter[c] = "woken" /\ UNCHANGED <<pc, routines>>
      BY <1>9 DEF WaitReturns
    <3>2. NoneCounted /\ NoneCounted'
      BY <2>1, <3>1, CountZero DEF NoneCounted
    <3>3. QED
      BY <2>1, <3>1, <3>2 DEF Waits, NoneCounted, LCTypeOK
  <2>2. CASE UNCHANGED waiter
    BY <1>1, <1>9, <2>2 DEF WaitReturns
  <2>3. QED
    BY <1>9, <2>1, <2>2 DEF WaitReturns
<1>10. CASE Shutdown \/ Signal
  BY <1>1, <1>10 DEF Shutdown, Signal, callVars
<1>11. CASE UNCHANGED vars
  BY <1>1, <1>11 DEF vars, callVars
<1>12. QED
  BY <1>2, <1>3, <1>4, <1>5, <1>6, <1>7, <1>8, <1>9, <1>10, <1>11 DEF LCNext, Progress

-----------------------------------------------------------------------------
(* Panics.                                                                  *)

LEMMA ClosedStep ==
    ASSUME LCTypeOK, Ownership, ClosedWhenAsked, [LCNext]_vars
    PROVE  ClosedWhenAsked'
<1>1. CASE UNCHANGED <<closed, asked>>
  BY <1>1 DEF ClosedWhenAsked
<1>2. ASSUME Shutdown PROVE ClosedWhenAsked'
  <2>1. /\ shutdown \in Calls
        /\ asked' = [asked EXCEPT ![shutdown] = asked[shutdown] + 1]
        /\ closed' \subseteq closed \cup {shutdown}
    BY <1>2 DEF Shutdown, Ownership
  <2>2. asked \in [Calls -> Nat] /\ closed \subseteq Calls
    BY DEF LCTypeOK
  <2>3. \A c \in Calls : asked'[c] = IF c = shutdown THEN asked[c] + 1 ELSE asked[c]
    BY <2>1, <2>2
  <2>4. \A c \in Calls : asked[c] \in Nat
    BY <2>2
  <2>5. QED
    BY <2>1, <2>2, <2>3, <2>4 DEF ClosedWhenAsked
<1>3. CASE Signal \/ UNCHANGED vars
  BY <1>1, <1>3 DEF Signal, vars, serverVars
<1>4. ASSUME NEW c \in Calls, Lock(c) \/ Progress(c) PROVE ClosedWhenAsked'
  BY <1>1, <1>4 DEF Lock, Progress, Launch, Stop, Fail, Return, WaitReturns, RoutineEnds,
     serverVars
<1>5. QED
  BY <1>1, <1>2, <1>3, <1>4, StartFrame DEF LCNext

(* A step that panics is a second Shutdown of one Start, or a Start after a *)
(* shutdown that timed out.                                                 *)
LEMMA PanicsStep ==
    ASSUME LCInv, [LCNext]_vars
    PROVE  PanicsOnlyIf'
<1>1. CASE UNCHANGED vars
  BY <1>1 DEF PanicsOnlyIf, LCInv, vars, serverVars, callVars
<1>2. ASSUME process' \notin {"close panic", "WaitGroup panic"} PROVE PanicsOnlyIf'
  BY <1>2 DEF PanicsOnlyIf
<1>3. CASE process = "up" /\ UNCHANGED process
  BY <1>2, <1>3
<1>4. ASSUME process = "up", Shutdown PROVE PanicsOnlyIf'
  <2>1. CASE UNCHANGED process
    BY <1>3, <1>4, <2>1
  <2>2. CASE shutdown \in closed /\ process' = "close panic"
    <3>1. shutdown \in Calls /\ asked[shutdown] > 0
      BY <1>4, <2>2 DEF LCInv, ClosedWhenAsked, LCTypeOK
    <3>2. asked \in [Calls -> Nat] /\ asked' = [asked EXCEPT ![shutdown] = asked[shutdown] + 1]
      BY <1>4 DEF Shutdown, LCInv, LCTypeOK
    <3>3. asked'[shutdown] > 1
      BY <3>1, <3>2
    <3>4. QED
      BY <2>2, <3>1, <3>3 DEF PanicsOnlyIf
  <2>3. QED
    BY <1>4, <2>1, <2>2 DEF Shutdown
<1>5. ASSUME process = "up", NEW c \in Calls, WaitReturns(c) PROVE PanicsOnlyIf'
  <2>1. CASE UNCHANGED process
    BY <1>3, <1>5, <2>1
  <2>2. CASE WaitCount > 0 /\ process' = "WaitGroup panic"
    <3>1. ~NoneCounted
      <4>1. WaitCount \in Nat
        BY CountZero
      <4>2. WaitCount > 0
        BY <2>2
      <4>3. WaitCount # 0
        BY <4>1, <4>2
      <4>4. QED
        BY <4>3, CountZero
    <3>2. waiter[c] = "woken" /\ UNCHANGED pc
      BY <1>5 DEF WaitReturns
    <3>3. pc[c] = "forced" /\ \E d \in Calls : c < d /\ pc[d] # "idle"
      BY <3>1, <3>2 DEF LCInv, Waits
    <3>4. QED
      BY <2>2, <3>2, <3>3 DEF PanicsOnlyIf
  <2>3. QED
    BY <1>5, <2>1, <2>2 DEF WaitReturns
<1>6. ASSUME process = "up", Signal PROVE PanicsOnlyIf'
  BY <1>2, <1>6 DEF Signal
<1>7. ASSUME process = "up", NEW c \in Calls, SubscribeStep(c) PROVE PanicsOnlyIf'
  BY <1>3, <1>7, SubscribeRoutines DEF LCInv
<1>8. ASSUME process = "up", NEW c \in Calls,
             Lock(c) \/ Launch(c) \/ Stop(c) \/ Fail(c) \/ Return(c) \/
             (\E r \in routines[c] : RoutineEnds(c, r))
      PROVE  PanicsOnlyIf'
  BY <1>3, <1>8 DEF Lock, Launch, Stop, Fail, Return, RoutineEnds
<1>9. QED
  BY <1>1, <1>4, <1>5, <1>6, <1>7, <1>8 DEF LCNext, Progress

-----------------------------------------------------------------------------
(* How long Subscribe has slept.                                            *)

(* Induction over the natural numbers, with a set for the predicate. *)
LEMMA NatSetInduction ==
    ASSUME NEW T \in SUBSET Nat,
           0 \in T,
           \A n \in T : n + 1 \in T
    PROVE  \A n \in Nat : n \in T
<1> DEFINE Less == {ss \in Nat \X Nat : ss[1] < ss[2]}
<1>1. IsWellFoundedOn(Less, Nat)
  BY NatLessThanWellFounded DEF OpToRel
<1>2. SUFFICES ASSUME Nat \ T # {} PROVE FALSE
  OBVIOUS
<1>3. PICK x \in Nat \ T : \A y \in Nat \ T : <<y, x>> \notin Less
  <2>1. Nat \ T \subseteq Nat
    OBVIOUS
  <2> HIDE DEF Less
  <2>2. QED
    BY <1>1, <1>2, <2>1, WFMin
<1>4. x # 0 /\ x - 1 \in Nat
  BY <1>3
<1>5. x - 1 \in T
  <2>1. <<x - 1, x>> \in Less
    BY <1>4
  <2>2. QED
    BY <1>3, <1>4, <2>1
<1>6. (x - 1) + 1 = x
  BY <1>4
<1>7. QED
  BY <1>3, <1>5, <1>6

(* The sums of the sleeps that Patience names exist for every number of     *)
(* retries.                                                                 *)
LEMMA PatienceExists ==
    \A m \in Nat : \E f : f = [n \in 0 .. m |-> IF n = 0 THEN 0 ELSE f[n - 1] + Backoff(n)]
<1> DEFINE Def(f, m) == f = [n \in 0 .. m |-> IF n = 0 THEN 0 ELSE f[n - 1] + Backoff(n)]
           T == {m \in Nat : \E f : Def(f, m)}
<1>1. 0 \in T
  <2>1. Def([n \in 0 .. 0 |-> 0], 0)
    OBVIOUS
  <2>2. QED
    BY <2>1
<1>2. ASSUME NEW m \in T PROVE m + 1 \in T
  <2>1. PICK f : Def(f, m)
    BY <1>2
  <2> DEFINE g == [n \in 0 .. m + 1 |-> IF n = m + 1 THEN f[m] + Backoff(m + 1) ELSE f[n]]
  <2>2. m \in Nat
    BY <1>2
  <2>3. \A n \in 0 .. m : g[n] = f[n] /\ f[n] = IF n = 0 THEN 0 ELSE f[n - 1] + Backoff(n)
    BY <2>1, <2>2
  <2>4. g[m + 1] = f[m] + Backoff(m + 1)
    BY <2>2
  <2>5. \A n \in 0 .. m + 1 : g[n] = IF n = 0 THEN 0 ELSE g[n - 1] + Backoff(n)
    <3>1. SUFFICES ASSUME NEW n \in 0 .. m + 1
                   PROVE  g[n] = IF n = 0 THEN 0 ELSE g[n - 1] + Backoff(n)
      OBVIOUS
    <3> HIDE DEF g
    <3>2. CASE n = m + 1
      <4>1. n # 0 /\ n - 1 = m /\ m \in 0 .. m
        BY <2>2, <3>2
      <4>2. g[n - 1] = f[m]
        BY <2>3, <4>1
      <4>3. QED
        BY <2>4, <3>2, <4>1, <4>2
    <3>3. CASE n # m + 1
      <4>1. n \in 0 .. m /\ (n # 0 => n - 1 \in 0 .. m)
        BY <2>2, <3>3
      <4>2. QED
        BY <2>3, <4>1
    <3>4. QED
      BY <3>2, <3>3
  <2>6. Def(g, m + 1)
    <3>1. \E h : g = [n \in 0 .. m + 1 |-> h[n]]
      <4> WITNESS g
      <4> QED OBVIOUS
    <3> HIDE DEF g
    <3>2. QED
      BY <2>5, <3>1
  <2> HIDE DEF g, Def
  <2>7. QED
    BY <2>2, <2>6
<1> HIDE DEF T
<1>3. \A m \in Nat : m \in T
  <2>1. T \in SUBSET Nat
    BY DEF T
  <2>2. QED
    BY <1>1, <1>2, <2>1, NatSetInduction
<1>4. QED
  BY <1>3 DEF T

(* Patience is what its recursive definition says: the sum of the sleeps up *)
(* to the n-th.                                                             *)
LEMMA PatienceUnfolds ==
    \A n \in 0 .. MaxRetries : Patience[n] = IF n = 0 THEN 0 ELSE Patience[n - 1] + Backoff(n)
<1> DEFINE D(f) == f = [n \in 0 .. MaxRetries |-> IF n = 0 THEN 0 ELSE f[n - 1] + Backoff(n)]
<1>1. MaxRetries \in Nat
  BY LifecycleAssumption
<1>2. \E f : D(f)
  BY <1>1, PatienceExists
<1>3. D(CHOOSE f : D(f))
  BY <1>2
<1>4. Patience = CHOOSE f : D(f)
  BY DEF Patience
<1>5. D(Patience)
  BY <1>3, <1>4
<1>6. QED
  BY <1>5

(* Each transient error is counted and slept for. *)
LEMMA SleptStep ==
    ASSUME LCTypeOK, Generations, SleptEnough, [LCNext]_vars
    PROVE  SleptEnough'
<1>0. MaxRetries \in Nat \ {0} /\ Patience[0] = 0
  <2>1. MaxRetries \in Nat \ {0}
    BY LifecycleAssumption
  <2>2. QED
    BY <2>1, PatienceUnfolds
<1>1. CASE UNCHANGED <<sub, errCh, retryCount, slept>>
  BY <1>1 DEF SleptEnough
<1>2. ASSUME NEW c \in Calls, Launch(c) PROVE SleptEnough'
  <2>1. sub[c] = "none" /\ sub' = [sub EXCEPT ![c] = "group"]
    BY <1>2 DEF Launch, Generations
  <2>2. UNCHANGED <<errCh, retryCount, slept>>
    BY <1>2 DEF Launch
  <2>3. \A d \in Calls : sub'[d] = "returned" <=> sub[d] = "returned"
    BY <2>1 DEF LCTypeOK
  <2>4. QED
    BY <2>2, <2>3 DEF SleptEnough
<1>3. ASSUME NEW c \in Calls, Fail(c) PROVE SleptEnough'
  <2>1. errCh' = [errCh EXCEPT ![c] = "none"] /\ UNCHANGED <<sub, retryCount, slept>>
    BY <1>3 DEF Fail, subVars
  <2>2. \A d \in Calls : errCh'[d] = "none" \/ errCh'[d] = errCh[d]
    BY <2>1 DEF LCTypeOK
  <2>3. QED
    BY <2>1, <2>2 DEF SleptEnough
<1>4. ASSUME NEW c \in Calls, SubscribeStep(c) PROVE SleptEnough'
  <2>1. /\ \A d \in Calls \ {c} : /\ sub'[d] = sub[d] /\ errCh'[d] = errCh[d]
                                  /\ retryCount'[d] = retryCount[d] /\ slept'[d] = slept[d]
        /\ sub[c] # "returned"
    <3>1. sub[c] # "returned"
      BY <1>4, SubscribeOutcomes
    <3>2. /\ sub \in [Calls -> {"none", "group", "own read", "recovering", "read", "away", "returned"}]
          /\ errCh \in [Calls -> {"none", "cancelled", "fatal", "gave up"}]
      BY DEF LCTypeOK
    <3>3. DOMAIN retryCount = Calls /\ DOMAIN slept = Calls
      BY DEF LCTypeOK
    <3>4. /\ UNCHANGED sub \/ \E s : sub' = [sub EXCEPT ![c] = s]
          /\ UNCHANGED errCh \/ \E e : errCh' = [errCh EXCEPT ![c] = e]
          /\ UNCHANGED retryCount \/ \E n : retryCount' = [retryCount EXCEPT ![c] = n]
          /\ UNCHANGED slept \/ \E n : slept' = [slept EXCEPT ![c] = n]
      BY <1>4, SubscribeOutcomes DEF Sleeps, Answered, ReadsOn, SubscribeReturns
    <3>5. QED
      BY <3>1, <3>2, <3>3, <3>4
  <2>2. /\ retryCount[c] <= MaxRetries /\ slept[c] = Patience[retryCount[c]]
        /\ errCh[c] = "none"
    BY <2>1 DEF SleptEnough
  <2> DEFINE Enough(d) == /\ sub[d] # "returned" =>
                              retryCount[d] <= MaxRetries /\ slept[d] = Patience[retryCount[d]]
                          /\ sub[d] # "returned" => errCh[d] = "none"
                          /\ errCh[d] = "gave up" => slept[d] = Patience[MaxRetries]
  <2>3. SUFFICES Enough(c)'
    BY <2>1 DEF SleptEnough
  <2>4. CASE \E err \in {"cancelled", "fatal"} : SubscribeReturns(c, err)
    BY <2>4 DEF SubscribeReturns, LCTypeOK
  <2>5. CASE retryCount[c] + 1 > MaxRetries /\ SubscribeReturns(c, "gave up")
    <3>1. retryCount[c] + 1 > MaxRetries /\ retryCount[c] \in Nat
      BY <2>5 DEF LCTypeOK
    <3>2. retryCount[c] = MaxRetries
      BY <1>0, <2>2, <3>1
    <3>3. slept' = slept /\ sub'[c] = "returned"
      BY <2>5 DEF SubscribeReturns, LCTypeOK
    <3>4. QED
      BY <2>2, <3>2, <3>3
  <2>6. CASE Sleeps(c)
    <3> DEFINE n == retryCount[c] + 1
    <3>1. /\ n <= MaxRetries
          /\ retryCount' = [retryCount EXCEPT ![c] = n]
          /\ slept' = [slept EXCEPT ![c] = slept[c] + Backoff(n)]
          /\ UNCHANGED errCh
      BY <2>6 DEF Sleeps
    <3>2. n \in 0 .. MaxRetries /\ n # 0 /\ n - 1 = retryCount[c]
      <4>1. retryCount[c] \in Nat
        BY DEF LCTypeOK
      <4>2. QED
        BY <1>0, <3>1, <4>1
    <3>3. Patience[n] = slept[c] + Backoff(n)
      BY <2>2, <3>2, PatienceUnfolds
    <3>4. retryCount'[c] = n /\ slept'[c] = slept[c] + Backoff(n) /\ errCh'[c] = "none"
      BY <2>2, <3>1 DEF LCTypeOK
    <3> HIDE DEF n
    <3>5. QED
      BY <3>1, <3>3, <3>4
  <2>7. CASE Answered(c)
    <3>1. retryCount'[c] = 0 /\ slept'[c] = 0 /\ errCh'[c] = "none"
      BY <2>2, <2>7 DEF Answered, LCTypeOK
    <3>2. QED
      BY <1>0, <3>1
  <2>8. CASE ReadsOn(c)
    BY <2>2, <2>8 DEF ReadsOn
  <2>9. QED
    BY <1>4, <2>4, <2>5, <2>6, <2>7, <2>8, SubscribeOutcomes
<1>5. ASSUME NEW c \in Calls, Lock(c) \/ Stop(c) \/ Return(c) \/ WaitReturns(c) \/
             (\E r \in routines[c] : RoutineEnds(c, r))
      PROVE  SleptEnough'
  BY <1>1, <1>5 DEF Lock, Stop, Return, WaitReturns, RoutineEnds, subVars
<1>6. CASE Shutdown \/ Signal \/ UNCHANGED vars
  BY <1>1, <1>6 DEF Shutdown, Signal, vars, subVars, callVars
<1>7. QED
  BY <1>2, <1>3, <1>4, <1>5, <1>6 DEF LCNext, Progress

-----------------------------------------------------------------------------
(* What a cancelled Subscribe still begins.                                 *)

(* A step that moves one Subscribe leaves Drains true of the others.        *)
LEMMA DrainsAt ==
    ASSUME LCTypeOK, Drains, NEW c \in Calls, NEW s, NEW l \in Nat,
           sub' = [sub EXCEPT ![c] = s], late' = [late EXCEPT ![c] = l],
           UNCHANGED cancelled,
           c \notin cancelled => l = 0,
           l = 0 \/ (l = 1 /\ s \notin InFlight)
    PROVE  Drains'
<1>1. SUFFICES ASSUME NEW d \in Calls
               PROVE  /\ d \notin cancelled => late'[d] = 0
                      /\ late'[d] + (IF sub'[d] \in InFlight THEN 1 ELSE 0) <= 1
  BY DEF Drains
<1>2. CASE d = c
  <2>1. sub'[c] = s /\ late'[c] = l
    BY DEF LCTypeOK
  <2>2. QED
    BY <1>2, <2>1
<1>3. CASE d # c
  <2>1. sub'[d] = sub[d] /\ late'[d] = late[d]
    BY <1>3 DEF LCTypeOK
  <2>2. QED
    BY <2>1 DEF Drains
<1>4. QED
  BY <1>2, <1>3

(* A read is only sent under a context that lives.                          *)
LEMMA DrainsStep ==
    ASSUME LCTypeOK, Generations, Drains, [LCNext]_vars
    PROVE  Drains'
<1>0. /\ sub \in [Calls -> {"none", "group", "own read", "recovering", "read", "away",
                            "returned"}]
      /\ late \in [Calls -> Nat]
  BY DEF LCTypeOK
<1>1. CASE UNCHANGED <<sub, late>> /\ cancelled \subseteq cancelled'
  BY <1>1 DEF Drains
<1>2. ASSUME NEW c \in Calls, Launch(c) PROVE Drains'
  <2>1. sub' = [sub EXCEPT ![c] = "group"] /\ UNCHANGED <<late, cancelled>>
    BY <1>2 DEF Launch
  <2>2. late[c] \in Nat /\ late' = [late EXCEPT ![c] = late[c]]
    BY <1>0, <2>1
  <2>3. /\ c \notin cancelled => late[c] = 0
        /\ late[c] = 0 \/ late[c] = 1
    BY <2>2 DEF Drains
  <2>4. "group" \notin InFlight
    BY DEF InFlight
  <2>5. QED
    BY <2>1, <2>2, <2>3, <2>4, DrainsAt
<1>3. ASSUME NEW c \in Calls, SubscribeStep(c) PROVE Drains'
  <2>1. UNCHANGED cancelled
    BY <1>3, SubscribeOutcomes
  <2>2. /\ late[c] \in Nat
        /\ c \notin cancelled => late[c] = 0
        /\ late[c] = 0 \/ late[c] = 1
        /\ sub[c] \in InFlight => late[c] = 0
    <3>1. /\ late[c] \in Nat
          /\ c \notin cancelled => late[c] = 0
          /\ late[c] + (IF sub[c] \in InFlight THEN 1 ELSE 0) <= 1
      BY <1>0 DEF Drains
    <3>2. CASE sub[c] \in InFlight
      BY <3>1, <3>2
    <3>3. CASE sub[c] \notin InFlight
      BY <3>1, <3>3
    <3>4. QED
      BY <3>2, <3>3
  <2>3. ASSUME NEW err, SubscribeReturns(c, err) PROVE Drains'
    <3>1. sub' = [sub EXCEPT ![c] = "returned"] /\ late' = [late EXCEPT ![c] = 0]
      BY <2>3 DEF SubscribeReturns
    <3>2. QED
      BY <2>1, <3>1, DrainsAt
  <2>4. CASE Sleeps(c)
    <3>1. sub' = [sub EXCEPT ![c] = "away"] /\ late' = [late EXCEPT ![c] = late[c]]
      BY <1>0, <2>4 DEF Sleeps
    <3>2. "away" \notin InFlight
      BY DEF InFlight
    <3>3. QED
      BY <2>1, <2>2, <3>1, <3>2, DrainsAt
  <2>5. CASE Answered(c)
    <3>1. late[c] = 0
      BY <2>2, <2>5 DEF Answered
    <3>2. ASSUME NEW s \in {"away", "recovering"}, sub' = [sub EXCEPT ![c] = s],
                 late' = [late EXCEPT ![c] = IF c \in cancelled THEN @ + 1 ELSE @]
          PROVE  Drains'
      <4>1. PICK l \in Nat : /\ l = IF c \in cancelled THEN late[c] + 1 ELSE late[c]
                             /\ late' = [late EXCEPT ![c] = l]
        <5>1. CASE c \in cancelled
          <6>1. late[c] + 1 \in Nat
            BY <2>2
          <6>2. QED
            BY <3>2, <5>1, <6>1
        <5>2. CASE c \notin cancelled
          BY <2>2, <3>2, <5>2
        <5>3. QED
          BY <5>1, <5>2
      <4>2. (c \notin cancelled => l = 0) /\ (l = 0 \/ l = 1)
        BY <3>1, <4>1
      <4>3. s \notin InFlight
        BY <3>2 DEF InFlight
      <4>4. QED
        BY <2>1, <3>2, <4>1, <4>2, <4>3, DrainsAt
    <3>3. CASE sub' = [sub EXCEPT ![c] = "read"] /\ UNCHANGED late
      <4>1. late' = [late EXCEPT ![c] = late[c]]
        BY <1>0, <3>3
      <4>2. QED
        BY <2>1, <2>2, <3>1, <3>3, <4>1, DrainsAt
    <3>4. QED
      BY <2>5, <3>2, <3>3 DEF Answered
  <2>6. CASE ReadsOn(c)
    <3>1. PICK read \in InFlight : sub' = [sub EXCEPT ![c] = read]
      BY <2>6 DEF ReadsOn
    <3>2. late' = [late EXCEPT ![c] = late[c]] /\ late[c] = 0
      BY <1>0, <2>2, <2>6 DEF ReadsOn
    <3>3. QED
      BY <2>1, <2>2, <3>1, <3>2, DrainsAt
  <2>7. QED
    BY <1>3, <2>3, <2>4, <2>5, <2>6, SubscribeOutcomes
<1>4. ASSUME NEW c \in Calls,
             Lock(c) \/ Stop(c) \/ Fail(c) \/ Return(c) \/ WaitReturns(c) \/
             (\E r \in routines[c] : RoutineEnds(c, r))
      PROVE  Drains'
  BY <1>1, <1>4 DEF Lock, Stop, Fail, Return, WaitReturns, RoutineEnds, subVars
<1>5. CASE Shutdown \/ Signal \/ UNCHANGED vars
  BY <1>1, <1>5 DEF Shutdown, Signal, vars, subVars, callVars
<1>6. QED
  BY <1>2, <1>3, <1>4, <1>5 DEF LCNext, Progress

-----------------------------------------------------------------------------
(* Before the first Start nothing runs, nothing is asked, and nothing was   *)
(* slept.                                                                   *)
LEMMA LCInvInit ==
    ASSUME LCInit PROVE LCInv
<1>1. LCTypeOK
  <2>1. spent \in [{"shutdown", "signal", "error"} -> Nat]
    BY DEF LCInit
  <2>2. /\ retryCount \in [Calls -> Nat] /\ asked \in [Calls -> Nat]
        /\ slept \in [Calls -> Int] /\ late \in [Calls -> Nat]
        /\ shutdown \in 0 .. MaxStarts
    BY CallsAreNumbered DEF LCInit
  <2>3. QED
    BY <2>1, <2>2 DEF LCInit, LCTypeOK
<1>2. Ownership /\ Generations /\ Waits /\ ClosedWhenAsked /\ PanicsOnlyIf
  BY DEF LCInit, Ownership, Generations, Waits, ClosedWhenAsked, PanicsOnlyIf, Owning
<1>3. SleptEnough
  <2>1. MaxRetries \in Nat /\ Patience[0] = 0
    <3>1. MaxRetries \in Nat
      BY LifecycleAssumption
    <3>2. QED
      BY <3>1, PatienceUnfolds
  <2>2. QED
    BY <2>1 DEF LCInit, SleptEnough
<1>4. Drains
  BY DEF LCInit, Drains, InFlight
<1>5. QED
  BY <1>1, <1>2, <1>3, <1>4 DEF LCInv

(* The parts of the invariant are kept together by every step.              *)
LEMMA LCInvStep ==
    ASSUME LCInv, [LCNext]_vars PROVE LCInv'
BY TypesStep, OwnershipStep, GenerationsStep, WaitsStep, ClosedStep, PanicsStep, SleptStep,
   DrainsStep DEF LCInv

(* So the invariant holds in every reachable state.                         *)
LEMMA SpecLCInv == LCSpec => []LCInv
BY LCInvInit, LCInvStep, PTL DEF LCSpec

(* Every variable keeps its type, and a Start under way owns s.running and  *)
(* s.shutdown (server.go, Start and Shutdown).                              *)
THEOREM LifecycleTypesHold == LCSpec => []LCTypeOK
<1>1. LCInv => LCTypeOK
  BY DEF LCInv
<1>2. QED
  BY <1>1, SpecLCInv, PTL

(* Whatever its Subscribe was doing when a Start cancelled its context, it  *)
(* begins at most one batch after that (redis.go, Subscribe).               *)
THEOREM OldSubscribesBeginOneBatch == LCSpec => []OldSubscribesDrain
<1>1. ASSUME LCInv PROVE OldSubscribesDrain
  <2>1. SUFFICES ASSUME NEW c \in Calls PROVE late[c] <= 1
    BY DEF OldSubscribesDrain
  <2>2. late[c] \in Nat
    BY <1>1 DEF LCInv, LCTypeOK
  <2>3. QED
    BY <1>1, <2>2 DEF LCInv, Drains
<1>2. QED
  BY <1>1, SpecLCInv, PTL

(* Shutdown panics only when it closes the channel of one Start twice, and  *)
(* the WaitGroup only when a Start follows one that was forced to return.   *)
THEOREM PanicsAreKnown == LCSpec => []PanicsOnlyIf
<1>1. LCInv => PanicsOnlyIf
  BY DEF LCInv
<1>2. QED
  BY <1>1, SpecLCInv, PTL

(* When Start returns before its shutdown timeout, no scheduler and no      *)
(* cleanup is left, not even of an earlier Start that timed out.            *)
THEOREM GracefulIsComplete == LCSpec => []GracefulLeavesNone
<1>1. ASSUME LCInv PROVE GracefulLeavesNone
  <2>1. SUFFICES ASSUME NEW c \in Calls, pc[c] = "graceful", NEW d \in 1 .. c
                 PROVE  routines[d] \cap {"scheduler", "cleanup"} = {}
    BY DEF GracefulLeavesNone
  <2>2. d \in Calls /\ d <= c
    BY CallsAreNumbered DEF Calls
  <2>3. routines[d] \cap Counted = {}
    BY <1>1, <2>1, <2>2 DEF LCInv, Waits
  <2>4. routines[d] \subseteq Counted \cup {"subscribe", "claimer"}
    BY <1>1, <2>2 DEF LCInv, Generations
  <2>5. QED
    BY <2>3, <2>4
<1>2. QED
  BY <1>1, SpecLCInv, PTL

(* The loop of Subscribe gives up on transient errors only after it has     *)
(* slept, doubling up to the cap, through MaxRetries of them in a row.      *)
THEOREM LoopSleepsFirst == LCSpec => []LoopIsPatient
<1>1. LCInv => LoopIsPatient
  BY DEF LCInv, SleptEnough, LoopIsPatient
<1>2. QED
  BY <1>1, SpecLCInv, PTL

(* Start refuses only while an earlier one is under way, or has failed.     *)
THEOREM RefusalsAreExplained == LCSpec => RefusedOnlyIf
<1> DEFINE Explained ==
        \A c \in Calls : pc[c] # "refused" /\ pc'[c] = "refused" =>
            \E d \in Calls : pc[d] \in {"launch", "select", "wait", "failed"}
<1>1. ASSUME LCInv, [LCNext]_vars PROVE [Explained]_vars
  <2>1. SUFFICES ASSUME NEW c \in Calls, pc[c] # "refused", pc'[c] = "refused"
                 PROVE  \E d \in Calls : pc[d] \in {"launch", "select", "wait", "failed"}
    OBVIOUS
  <2>2. pc \in [Calls -> {"idle", "launch", "select", "wait"} \cup Returned]
    BY <1>1 DEF LCInv, LCTypeOK
  <2>3. pc' # pc
    BY <2>1
  <2>4. running
    <3>1. ~ \E d \in Calls : SubscribeStep(d) \/ WaitReturns(d) \/
                             (\E r \in routines[d] : RoutineEnds(d, r))
      BY <2>3, StartFrame
    <3>2. ~Shutdown /\ ~Signal /\ ~UNCHANGED vars
      BY <2>3 DEF Shutdown, Signal, vars, callVars
    <3>3. ~ \E d \in Calls : Launch(d) \/ Stop(d) \/ Fail(d) \/ Return(d)
      BY <2>1, <2>2 DEF Launch, Stop, Fail, Return
    <3>4. PICK d \in Calls : Lock(d)
      BY <1>1, <3>1, <3>2, <3>3 DEF LCNext, Progress
    <3>5. QED
      BY <2>1, <2>2, <3>4 DEF Lock
  <2>5. QED
    BY <1>1, <2>4 DEF LCInv, Ownership, Owning
<1>2. QED
  BY <1>1, SpecLCInv, PTL DEF LCSpec, RefusedOnlyIf
====
