-------------------------- MODULE MCOutboxDelivery --------------------------
(* Instances of OutboxDelivery for TLC. *)
EXTENDS OutboxDelivery, TLC

CONSTANTS e1, e2

(* A payment goes to two consumers, the request for an invoice to one. *)
OnePayment == e1 :> "PaymentRecordedEvent"
PaymentAndInvoice == e1 :> "PaymentRecordedEvent" @@ e2 :> "InvoiceGenerationRequested"

Symmetry == Permutations(Relays) \cup Permutations(Workers)
=============================================================================
