-------------------------- MODULE MCBookingLedger --------------------------
(* Instances of BookingLedger for TLC, and the parts of its next-state      *)
(* relation that single runs look at.                                       *)
EXTENDS BookingLedger, TLC

OneAmount == {1}
TwoAmounts == {1, 2}
WithDeposit == {[total |-> 2, deposit |-> 1]}
TwoPricings == {[total |-> 2, deposit |-> 1], [total |-> 3, deposit |-> 0]}
NoIntake == {0}
SomeIntake == {0, 1}

SessionSymmetry == Permutations(Sessions)

(* The handlers that keep the money right as long as nobody completes,      *)
(* voids or posts by hand.                                                  *)
PaymentsNext ==
    \/ \E price \in Pricings : UpdatePrice(price)
    \/ Confirm
    \/ FinishTask
    \/ \E s \in Sessions : Payment(s) \/ Refund(s) \/ Cancellation(s) \/ Invoicing(s)
PaymentsSpec == Init /\ [][PaymentsNext]_vars

(* The same with completion. *)
LifecycleNext == PaymentsNext \/ \E s \in Sessions : Completion(s)
LifecycleSpec == Init /\ [][LifecycleNext]_vars
=============================================================================
