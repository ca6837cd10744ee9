-------------------------- MODULE DurableDelivery --------------------------
(* What the durable event path promises the code that writes events: an     *)
(* accepted event reaches each of its consumers; a consumer has a receipt   *)
(* for it only after the event reached it; an event is closed only when     *)
(* every consumer has its receipt or was switched off.  Nothing is ever     *)
(* taken back.  How often an event reaches a consumer is not promised.      *)
CONSTANTS Events, ConsumersOf

VARIABLES
    accepted,   \* events whose transaction committed
    reached,    \* event -> consumers whose side effect happened
    receipts,   \* event -> consumers that recorded the event
    waived,     \* event -> consumers passed over, being switched off
    closed      \* events the path is done with

vars == <<accepted, reached, receipts, waived, closed>>

Init ==
    /\ accepted = {}
    /\ reached = [e \in Events |-> {}]
    /\ receipts = [e \in Events |-> {}]
    /\ waived = [e \in Events |-> {}]
    /\ closed = {}

Accept(e) ==
    /\ e \notin accepted
    /\ accepted' = accepted \cup {e}
    /\ UNCHANGED <<reached, receipts, waived, closed>>

Reach(e, c) ==
    /\ e \in accepted
    /\ c \in ConsumersOf[e]
    /\ reached' = [reached EXCEPT ![e] = @ \cup {c}]
    /\ UNCHANGED <<accepted, receipts, waived, closed>>

Receipt(e, c) ==
    /\ c \in reached[e]
    /\ receipts' = [receipts EXCEPT ![e] = @ \cup {c}]
    /\ UNCHANGED <<accepted, reached, waived, closed>>

Waive(e, c) ==
    /\ e \in accepted
    /\ c \in ConsumersOf[e]
    /\ waived' = [waived EXCEPT ![e] = @ \cup {c}]
    /\ UNCHANGED <<accepted, reached, receipts, closed>>

Close(e) ==
    /\ e \in accepted
    /\ ConsumersOf[e] \subseteq receipts[e] \cup waived[e]
    /\ closed' = closed \cup {e}
    /\ UNCHANGED <<accepted, reached, receipts, waived>>

Next ==
    \E e \in Events : \/ Accept(e) \/ Close(e)
                      \/ \E c \in ConsumersOf[e] : Reach(e, c) \/ Receipt(e, c) \/ Waive(e, c)

Spec == Init /\ [][Next]_vars
=============================================================================
