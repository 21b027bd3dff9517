----------------------------- MODULE MCStoreSync -----------------------------
(***************************************************************************)
(* Small instances of StoreSync for TLC.                                   *)
(***************************************************************************)
EXTENDS StoreSync

CONSTANTS t1, t2, w1, q1

OneTask    == {t1}
JustT2     == {t2}
TwoTasks   == {t1, t2}
OneWorker  == {w1}
OneRequest == {q1}
None       == {}

(* Budgets: publish, crash, shutdown, fault, expiry. *)
Events(p, c, s, f, e) ==
    [publish |-> p, crash |-> c, shutdown |-> s, fault |-> f, expiry |-> e]

NoShutdown == Events(2, 1, 0, 1, 1)

=============================================================================
