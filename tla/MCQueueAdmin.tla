----------------------------- MODULE MCQueueAdmin -----------------------------
(* Instances of QueueAdmin for TLC. *)
EXTENDS QueueAdmin

CONSTANTS t1, w1

None == {}
OneTask == {t1}
OneWorker == {w1}

PublishAndFault ==
    [publish |-> 1, crash |-> 0, shutdown |-> 0, fault |-> 1, expiry |-> 0]

=============================================================================
