-------------------------- MODULE MCBookingQuestions --------------------------
(* One run, three questions, chosen at the start: "all" lets every handler  *)
(* run on one price and one amount, "payments" only those that keep the     *)
(* money right, "solo" the whole lifecycle with one session at a time.      *)
EXTENDS MCBookingLedger

VARIABLES
    question,   \* which of the three
    raced       \* the paid amount changed while an invoice was being made,
                \* or confirmBooking posted the deposit after it was

MCvars == <<booking, tasksDone, ledger, invoice, outbox, rowLock, pc, seen, diff,
            question, raced>>

(* One price, one amount, no deposit at intake. *)
Modest ==
    /\ booking'.total = 2 /\ booking'.deposit = 1
    /\ \A i \in DOMAIN ledger' \ DOMAIN ledger :
          ledger'[i].category \in {"Manual", "Booking Refund", "Booking Payment"} =>
              \/ ledger'[i].amount \in -1..1
              \/ ledger'[i].category = "Booking Payment" /\ booking'.paid = booking'.total
OneActs == \A s, t \in Sessions : s # t => pc'[s] = "idle" \/ pc'[t] = "idle"

MCInit == /\ Init
          /\ question \in {"all", "payments", "solo"}
          /\ question = "all" => booking.total = 2 /\ ledger = << >>
          /\ raced = FALSE
MCNext ==
    /\ \/ question = "all" /\ Next /\ Modest
       \/ question = "payments" /\ PaymentsNext /\ tasksDone' <= 1 \* no completion: one task is enough
       \/ question = "solo" /\ LifecycleNext /\ OneActs
    /\ question' = question
    /\ raced' = (\/ raced
                 \/ /\ question # "all" /\ booking'.paid # booking.paid
                    /\ \/ \E s \in Sessions : pc[s] = "invoice"
                       \/ booking.status = "DRAFT" /\ invoice.status # "NONE")
MCSpec == MCInit /\ [][MCNext]_MCvars

(* recordPayment, recordRefund, confirm, cancel: as long as nobody voids or *)
(* posts by hand and no completion overlaps, the paid amount, the refunded  *)
(* amount and the payment status are those of the ledger.                   *)
MoneyInStep == question # "all" => /\ PaidMatchesLedger
                                   /\ RefundedMatchesLedger
                                   /\ PaymentStatusInSync

(* createInvoice, and the invoice's part in payments, refunds and cancel:   *)
(* the document shows as paid what the booking shows, unless the amount     *)
(* changed between createInvoice's read of the booking and its save, or     *)
(* confirmBooking, which does not look for an invoice, posted the deposit   *)
(* of a booking that had one.                                               *)
InvoiceInStep ==
    question # "all" /\ ~ raced /\ invoice.status # "NONE" => invoice.paid = booking.paid

(* "Once CANCELLED or COMPLETED, status is terminal": kept as long as no    *)
(* completion overlaps another handler.                                     *)
TerminalInStep ==
    [][question # "all" /\ booking.status \in {"COMPLETED", "CANCELLED"} =>
          booking'.status = booking.status]_MCvars

(* One handler at a time, a booking is completed once, with all its tasks   *)
(* done, and a cancelled one holds nothing.                                 *)
EndsInStep == question = "solo" => CompletedOnce /\ CancelledHoldsNothing

(* "Payment only for confirmed or completed": kept one handler at a time.   *)
PaymentInStep ==
    [][ /\ question = "solo"
        /\ Len(ledger') > Len(ledger)
        /\ ledger'[Len(ledger')].category = "Booking Payment"
        => booking.status \in {"CONFIRMED", "COMPLETED"} ]_MCvars
=============================================================================
