----------------------------- MODULE MCDelivery -----------------------------
(***************************************************************************)
(* Small instances of Delivery for TLC.                                    *)
(***************************************************************************)
EXTENDS Delivery, TLC

CONSTANTS t1, t2, w1, w2

OneTask    == {t1}
TwoTasks   == {t1, t2}
TwoWorkers == {w1, w2}
None       == {}
JustT2     == {t2}

WorkerSymmetry == Permutations({w1, w2})

(* Budgets: publish, crash, shutdown, fault, expiry. *)
Events(p, c, s, f, e) ==
    [publish |-> p, crash |-> c, shutdown |-> s, fault |-> f, expiry |-> e]

Publish1      == Events(1, 0, 0, 0, 0)
OneCrash      == Events(1, 1, 0, 0, 0)
TwoOfEach     == Events(2, 1, 1, 1, 1)
CrashAndFault == Events(1, 1, 0, 1, 0)

=============================================================================
