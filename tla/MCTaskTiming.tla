----------------------------- MODULE MCTaskTiming -----------------------------
(* Instances of TaskTiming for TLC.  A tick is half a second, MaxRetry and  *)
(* durations have 4 bits: 9 becomes -7, 18 becomes 2, and the delay of a     *)
(* third retry overflows.                                                *)
EXTENDS TaskTiming, TLC

CONSTANTS t1, t2

TwoTasks == {t1, t2}

ManyRetries == {6, 9, 18}
PastAndFuture == {-1, 3}
ShortTTL == {2}
LongTTL == {4}

TaskSymmetry == Permutations(TwoTasks)

=============================================================================
