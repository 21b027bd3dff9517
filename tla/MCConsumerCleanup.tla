-------------------------- MODULE MCConsumerCleanup --------------------------
(***************************************************************************)
(* Small instances of ConsumerCleanup for TLC.                             *)
(***************************************************************************)
EXTENDS ConsumerCleanup

CONSTANTS t1, t2, w1, w2, web

JustT2     == {t2}
TwoTasks   == {t1, t2}
TwoWorkers == {w1, w2}
None       == {}

(* Budgets: publish, crash, shutdown, fault. *)
Events(p, c, s, f) ==
    [publish |-> p, crash |-> c, shutdown |-> s, fault |-> f, expiry |-> 0]

OneOfEach == Events(1, 1, 1, 1)

=============================================================================
