---------------------------- MODULE MCDeadLetter ----------------------------
(***************************************************************************)
(* Small instances of DeadLetter for TLC.                                  *)
(***************************************************************************)
EXTENDS DeadLetter, TLC

CONSTANTS t1, w1, w2, q1, q2

OneTask     == {t1}
OneWorker   == {w1}
TwoWorkers  == {w1, w2}
TwoRequests == {q1, q2}
None        == {}

RequestSymmetry == Permutations({q1, q2})

(* Budgets: publish, fault. *)
Events(p, f) ==
    [publish |-> p, crash |-> 0, shutdown |-> 0, fault |-> f, expiry |-> 0]

Publish1 == Events(1, 0)
OneFault == Events(1, 1)

=============================================================================
