-------------------------- MODULE MessageLifecycle --------------------------
(***************************************************************************)
(* What the stream and its consumer group promise about one message,       *)
(* whoever handles it: it waits, is delivered in the order of the XADDs,   *)
(* is acknowledged once and then deleted.  It says nothing of workers,     *)
(* batches, claims or faults; Delivery implements it.                      *)
(***************************************************************************)
EXTENDS Integers, Sequences

VARIABLE messages   \* the state of every message, by ID

States == {"waiting", "pending", "acked", "deleted"}

Init == messages = << >>

Add == messages' = Append(messages, "waiting")

Move(S, from, to) ==
    /\ \A id \in S : messages[id] = from
    /\ messages' = [id \in DOMAIN messages |->
                        IF id \in S THEN to ELSE messages[id]]

(* A read delivers the oldest waiting messages. *)
Deliver ==
    \E last \in DOMAIN messages :
        Move({id \in DOMAIN messages : id <= last /\ messages[id] = "waiting"},
             "waiting", "pending")

Ack == \E id \in DOMAIN messages : Move({id}, "pending", "acked")

Delete == \E id \in DOMAIN messages : Move({id}, "acked", "deleted")

Next == Add \/ Deliver \/ Ack \/ Delete

Spec == Init /\ [][Next]_messages

=============================================================================
