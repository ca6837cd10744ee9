--------------------------- MODULE BookingLedger ---------------------------
(***************************************************************************)
(* One booking, the finance ledger rows that carry its id, and the invoice *)
(* document made from it, as the request handlers of the bookings and      *)
(* finance modules change them.                                            *)
(*                                                                         *)
(* The database runs at READ COMMITTED.  A handler that takes the booking  *)
(* row with lock: pessimistic_write and does all its work under the lock   *)
(* is one action, guarded by RowFree.  A handler is split where it uses    *)
(* something it read without the lock: payments and refunds check the      *)
(* status before their transaction, cancellation reads the tasks without   *)
(* locking them, completion takes no lock at all, invoice creation reads   *)
(* the booking and saves the invoice in two statements.                    *)
(*                                                                         *)
(* An ORM save of an entity reloads the row and updates the columns in     *)
(* which the entity in memory differs from the reloaded row.  For an       *)
(* entity read under the lock that is the assignment itself; for the one   *)
(* completeBooking holds it is three moments: read, reload, update.        *)
(***************************************************************************)
EXTENDS Integers, Sequences, FiniteSets, Functions

CONSTANTS
    Sessions,       \* request handlers running at the same time
    NoSession,      \* the row lock is free
    Keys,           \* idempotency keys clients send with payments
    NoKey,          \* a payment or another row without a key
    Amounts,        \* amounts clients ask to pay, refund or post
    Pricings,       \* the [total, deposit] pairs the pricing service returns
    IntakeDeposits, \* deposits taken when the booking is created (0: none)
    NumTasks,       \* processing types of the booking: tasks made on confirm
    MaxRows         \* bound on the ledger, for model checking

ASSUME SessionsAssumption == NoSession \notin Sessions
ASSUME KeysAssumption == NoKey \notin Keys
ASSUME AmountsAssumption == Amounts \subseteq Nat \ {0}
ASSUME PricingsAssumption ==
    /\ Pricings # {}
    /\ \A p \in Pricings : /\ p = [total |-> p.total, deposit |-> p.deposit]
                           /\ p.total \in Nat
                           /\ p.deposit \in 0..p.total
ASSUME IntakeAssumption == IntakeDeposits \subseteq Nat
ASSUME BoundsAssumption == NumTasks \in Nat /\ MaxRows \in Nat \ {0}

VARIABLES
    booking,    \* the bookings row
    tasksDone,  \* how many of its tasks are COMPLETED
    ledger,     \* transactions rows with this bookingId, in order of insertion
    invoice,    \* the invoices row, status "NONE" when there is none
    outbox,     \* event type -> rows written to outbox_events
    rowLock,    \* the session that holds the booking row across two steps
    pc,         \* session -> the handler it is in and how far
    seen,       \* session -> the copy of the booking it holds in memory
    diff        \* session -> the columns its save is about to update

vars == <<booking, tasksDone, ledger, invoice, outbox, rowLock, pc, seen, diff>>

----------------------------------------------------------------------------
Statuses == {"DRAFT", "CONFIRMED", "COMPLETED", "CANCELLED"}
PaymentStatuses == {"UNPAID", "PARTIALLY_PAID", "DEPOSIT_PAID", "FULLY_PAID"}
InvoiceStatuses == {"NONE", "DRAFT", "PARTIALLY_PAID", "PAID", "CANCELLED"}
Categories == {"Booking Deposit", "Booking Payment", "Booking Refund",
               "Booking Reversal", "REVERSAL", "Manual"}
EventTypes == {"BookingConfirmedEvent", "BookingCancelledEvent",
               "BookingCompletedEvent", "InvoiceGenerationRequested",
               "PaymentRecordedEvent", "RefundRecordedEvent"}
Steps == {"idle", "pay", "refund", "cancel", "complete", "save", "invoice"}

Booking == [status : Statuses, total : Nat, deposit : Nat, paid : Nat,
            refunded : Nat, payStatus : PaymentStatuses, cancelledAt : BOOLEAN]
Row == [category : Categories, type : {"INCOME", "REFUND"}, amount : Int,
        key : Keys \cup {NoKey}, voided : BOOLEAN, reversalOf : Nat]
Invoice == [status : InvoiceStatuses, total : Nat, paid : Nat]

NoBooking == [status |-> "DRAFT", total |-> 0, deposit |-> 0, paid |-> 0,
              refunded |-> 0, payStatus |-> "UNPAID", cancelledAt |-> FALSE]
NoInvoice == [status |-> "NONE", total |-> 0, paid |-> 0]

(* Mutation: the terminal states have ways out. *)
TransitionsWithReopen == { <<"DRAFT", "CONFIRMED">>, <<"DRAFT", "CANCELLED">>,
    <<"CONFIRMED", "COMPLETED">>, <<"CONFIRMED", "CANCELLED">>,
    <<"COMPLETED", "CANCELLED">>, <<"CANCELLED", "CONFIRMED">> }

(* The transition table of the state machine. *)
AllowedTransitions == { <<"DRAFT", "CONFIRMED">>, <<"DRAFT", "CANCELLED">>,
    <<"CONFIRMED", "COMPLETED">>, <<"CONFIRMED", "CANCELLED">> }

CanTransition(from, to) == <<from, to>> \in AllowedTransitions

AtLeast(x, floor) == IF x < floor THEN floor ELSE x

(* Booking.derivePaymentStatus, its tests in the code's order. *)
DerivePaymentStatus(b) ==
    IF b.total = 0 \/ b.paid >= b.total THEN "FULLY_PAID"
    ELSE IF b.deposit > 0 /\ b.paid >= b.deposit THEN "DEPOSIT_PAID"
    ELSE IF b.paid > 0 THEN "PARTIALLY_PAID" ELSE "UNPAID"

(* The booking once its paid amount is `paid` and the status derived from it. *)
WithPaid(b, paid) ==
    [b EXCEPT !.paid = paid, !.payStatus = DerivePaymentStatus([b EXCEPT !.paid = paid])]

NewRow(category, type, amount, key) ==
    [category |-> category, type |-> type, amount |-> amount, key |-> key,
     voided |-> FALSE, reversalOf |-> 0]

(* What a row is worth: a refund takes off what it says. *)
Worth(row) == IF row.type = "INCOME" THEN row.amount ELSE - row.amount

(* The balance of a booking's ledger.  A voided row and its reversal, which *)
(* has the type of the original and its amount negated, cancel out.         *)
LedgerBalance(rows) == SumFunction([i \in DOMAIN rows |-> Worth(rows[i])])

(* What applyCancelReversal sums: voided rows are left out, reversal rows not. *)
NetIncome(rows) ==
    LET abs(x) == IF x < 0 THEN - x ELSE x
        counted(r) == IF r.voided THEN 0
                      ELSE IF r.type = "INCOME" THEN r.amount ELSE - abs(r.amount)
    IN  SumFunction([i \in DOMAIN rows |-> counted(rows[i])])

HasReversal(rows) ==
    \E i \in DOMAIN rows : /\ ~ rows[i].voided
                           /\ rows[i].category = "Booking Reversal" \/ rows[i].reversalOf # 0

(* Mutations: nothing is reversed; the payments are deleted instead. *)
NoCancelReversal(rows) == rows
PaymentsDeleted(rows) == SelectSeq(rows, LAMBDA r : r.category # "Booking Payment")

(* The ledger with the row that takes a cancelled booking's income back. *)
WithCancelReversal(rows) ==
    IF NetIncome(rows) \in Nat \ {0} /\ ~ HasReversal(rows)
    THEN Append(rows, NewRow("Booking Reversal", "INCOME", - NetIncome(rows), NoKey))
    ELSE rows

(* Mutation: a payment reaches the document's status and not its amount.    *)
InvoiceStatusAfterPayment(inv, amount) ==
    IF inv.status = "NONE" THEN inv ELSE [inv EXCEPT !.status = "PARTIALLY_PAID"]

(* Invoice.recordPayment, recordRefund and cancel; a booking without an     *)
(* invoice has nothing to update.                                           *)
InvoiceAfterPayment(inv, amount) ==
    IF inv.status = "NONE" THEN inv
    ELSE [inv EXCEPT !.paid = @ + amount,
             !.status = IF inv.paid + amount >= inv.total THEN "PAID" ELSE "PARTIALLY_PAID"]

InvoiceAfterRefund(inv, amount) ==
    IF inv.status = "NONE" THEN inv
    ELSE [inv EXCEPT !.paid = @ - amount,
             !.status = IF inv.paid > amount THEN "PARTIALLY_PAID"
                        ELSE IF @ = "CANCELLED" THEN "CANCELLED" ELSE "DRAFT"]

RefundFitsInvoice(inv, amount) == inv.status = "NONE" \/ amount <= inv.paid

InvoiceAfterCancel(inv) ==
    IF inv.status = "NONE" THEN inv ELSE [inv EXCEPT !.status = "CANCELLED", !.paid = 0]

(* The snapshot createInvoice takes of the booking it read. *)
InvoiceFor(b) ==
    [status |-> IF b.paid >= b.total THEN "PAID"
                ELSE IF b.paid > 0 THEN "PARTIALLY_PAID" ELSE "DRAFT",
     total |-> b.total, paid |-> b.paid]

Columns == {"status", "paid", "refunded", "payStatus", "cancelledAt"}

(* The columns an ORM save of `mine` updates when the row reloads as `row`. *)
ChangedColumns(mine, row) == {c \in Columns : mine[c] # row[c]}

UpdateColumns(row, mine, cols) ==
    [c \in DOMAIN row |-> IF c \in cols THEN mine[c] ELSE row[c]]

(* chk_completed_requires_verification and chk_refund_amount_valid. *)
RowAllowed(b) == /\ b.status = "COMPLETED" => ~ b.cancelledAt
                 /\ b.refunded <= b.total

RowFree == rowLock = NoSession
Room == Len(ledger) < MaxRows

Emit(types) == outbox' = [e \in EventTypes |-> outbox[e] + (IF e \in types THEN 1 ELSE 0)]

(* Session s goes on to `step`, holding the copy `copy` of the booking. *)
Goto(s, step, copy) == /\ pc' = [pc EXCEPT ![s] = step]
                       /\ seen' = [seen EXCEPT ![s] = copy]
Finish(s) == Goto(s, "idle", NoBooking)
----------------------------------------------------------------------------
(* A booking is created in DRAFT; the intake form may take a deposit, which *)
(* is posted and counted as paid whatever the total.                        *)
Created(price, deposit) ==
    LET b == [NoBooking EXCEPT !.total = price.total, !.deposit = price.deposit]
    IN  IF deposit = 0 THEN b ELSE WithPaid(b, deposit)

IntakeRows(deposit) ==
    IF deposit = 0 THEN << >>
    ELSE <<NewRow("Booking Deposit", "INCOME", deposit, NoKey)>>

IntakeEvents(deposit) ==
    [e \in EventTypes |-> IF deposit # 0 /\ e = "PaymentRecordedEvent" THEN 1 ELSE 0]

Init ==
    /\ \E price \in Pricings, deposit \in IntakeDeposits :
          /\ booking = Created(price, deposit)
          /\ ledger = IntakeRows(deposit)
          /\ outbox = IntakeEvents(deposit)
    /\ tasksDone = 0
    /\ invoice = NoInvoice
    /\ rowLock = NoSession
    /\ pc = [s \in Sessions |-> "idle"]
    /\ seen = [s \in Sessions |-> NoBooking]
    /\ diff = [s \in Sessions |-> {}]

(* BookingsService.update: a DRAFT is priced again. *)
UpdatePrice(price) ==
    /\ RowFree
    /\ booking.status = "DRAFT"
    /\ booking' = WithPaid([booking EXCEPT !.total = price.total, !.deposit = price.deposit],
                           booking.paid)
    /\ UNCHANGED <<tasksDone, ledger, invoice, outbox, rowLock, pc, seen, diff>>

(* confirmBooking: the tasks are made and the missing deposit is posted. *)
Confirm ==
    LET missing == booking.deposit - booking.paid
        confirmed == [booking EXCEPT !.status = "CONFIRMED"]
    IN  /\ RowFree
        /\ CanTransition(booking.status, "CONFIRMED")
        /\ Room
        /\ IF missing <= 0
           THEN booking' = confirmed /\ UNCHANGED ledger
           ELSE /\ booking' = WithPaid(confirmed, booking.paid + missing)
                /\ ledger' = Append(ledger, NewRow("Booking Deposit", "INCOME", missing, NoKey))
        /\ Emit({"BookingConfirmedEvent", "InvoiceGenerationRequested"})
        /\ UNCHANGED <<tasksDone, invoice, rowLock, pc, seen, diff>>

(* TasksService.completeTask, as far as it concerns the booking. *)
FinishTask ==
    /\ booking.status \in {"CONFIRMED", "COMPLETED"}
    /\ tasksDone < NumTasks
    /\ tasksDone' = tasksDone + 1
    /\ UNCHANGED <<booking, ledger, invoice, outbox, rowLock, pc, seen, diff>>

(* recordPayment and recordRefund look at the status before they open their *)
(* transaction; the locked row's status is not looked at again.             *)
(* Mutation: whatever is not cancelled is open.                             *)
PayableUnlessCancelled(b) == b.status # "CANCELLED"
OpenForPayment(b) == b.status \in {"CONFIRMED", "COMPLETED"}

ReadForPayment(s, step) ==
    /\ pc[s] = "idle"
    /\ OpenForPayment(booking)
    /\ Goto(s, step, NoBooking)
    /\ UNCHANGED <<booking, tasksDone, ledger, invoice, outbox, rowLock, diff>>

(* Mutation: the key is not looked up. *)
KeyNeverUsed(key) == FALSE
KeyUsed(key) == key # NoKey /\ \E i \in DOMAIN ledger : ledger[i].key = key

(* The rest of recordPayment, under the lock.  A client asks for an amount  *)
(* or, with settleRemaining, for whatever is due.                           *)
RecordPayment(s, amount, key) ==
    /\ pc[s] = "pay"
    /\ RowFree
    /\ ~ KeyUsed(key)
    /\ amount \in 1..(booking.total - booking.paid)
    /\ Room
    /\ ledger' = Append(ledger, NewRow("Booking Payment", "INCOME", amount, key))
    /\ booking' = WithPaid(booking, booking.paid + amount)
    /\ invoice' = InvoiceAfterPayment(invoice, amount)
    /\ Emit({"PaymentRecordedEvent"})
    /\ Finish(s)
    /\ UNCHANGED <<tasksDone, rowLock, diff>>

(* A replayed key answers with the row it made; an amount that exceeds the *)
(* balance due, or a balance of nothing to settle, is refused.             *)
PaymentNotRecorded(s, amount, key) ==
    /\ pc[s] = "pay"
    /\ RowFree
    /\ KeyUsed(key) \/ amount \notin 1..(booking.total - booking.paid)
    /\ Finish(s)
    /\ UNCHANGED <<booking, tasksDone, ledger, invoice, outbox, rowLock, diff>>

(* Mutation: the amount is not compared with what is paid. *)
RefundableUnpaid(amount) == booking.refunded + amount <= booking.total
Refundable(amount) ==
    /\ amount <= booking.paid
    /\ RefundFitsInvoice(invoice, amount)
    /\ booking.refunded + amount <= booking.total

AfterRefund(amount) ==
    WithPaid([booking EXCEPT !.refunded = @ + amount], booking.paid - amount)

(* The rest of recordRefund: the amount is compared with what is paid, the  *)
(* invoice refuses more than it shows as paid, and the row's CHECK refuses  *)
(* refunds above the total; any of these rolls the transaction back.        *)
RecordRefund(s, amount) ==
    /\ pc[s] = "refund"
    /\ RowFree
    /\ Refundable(amount)
    /\ Room
    /\ ledger' = Append(ledger, NewRow("Booking Refund", "REFUND", amount, NoKey))
    /\ booking' = AfterRefund(amount)
    /\ invoice' = InvoiceAfterRefund(invoice, amount)
    /\ Emit({"RefundRecordedEvent"})
    /\ Finish(s)
    /\ UNCHANGED <<tasksDone, rowLock, diff>>

RefundRefused(s, amount) ==
    /\ pc[s] = "refund"
    /\ RowFree
    /\ ~ Refundable(amount)
    /\ Finish(s)
    /\ UNCHANGED <<booking, tasksDone, ledger, invoice, outbox, rowLock, diff>>

(* Mutation: a reversal may be voided too. *)
VoidableReversal(row) == ~ row.voided
Voidable(row) == ~ row.voided /\ row.reversalOf = 0

(* What a voided row leaves as paid: income is taken off, a refund put back, *)
(* and the result is kept from going below nothing.                          *)
PaidAfterVoid(row) ==
    LET size == IF row.amount < 0 THEN - row.amount ELSE row.amount
    IN  AtLeast(booking.paid + (IF row.type = "REFUND" THEN size ELSE - size), 0)

Reversal(i) ==
    [NewRow("REVERSAL", ledger[i].type, - ledger[i].amount, NoKey) EXCEPT !.reversalOf = i]

(* voidTransaction: the booking is locked, then the row. *)
VoidTransaction(i) ==
    /\ RowFree
    /\ Room
    /\ Voidable(ledger[i])
    /\ ledger' = Append([ledger EXCEPT ![i].voided = TRUE], Reversal(i))
    /\ booking' = WithPaid(booking, PaidAfterVoid(ledger[i]))
    /\ UNCHANGED <<tasksDone, invoice, outbox, rowLock, pc, seen, diff>>

(* createTransaction with a bookingId: a row typed in by hand, negative only *)
(* if it is income.  The booking is neither locked nor updated.              *)
ManualTransaction(type, amount) ==
    /\ Room
    /\ amount # 0
    /\ type = "REFUND" => amount > 0
    /\ ledger' = Append(ledger, NewRow("Manual", type, amount, NoKey))
    /\ UNCHANGED <<booking, tasksDone, invoice, outbox, rowLock, pc, seen, diff>>

(* cancelBooking up to the tasks: the booking is locked, the tasks are read *)
(* without a lock.  A booking already CANCELLED is answered as it is.       *)
CancelRead(s) ==
    /\ pc[s] = "idle"
    /\ RowFree
    /\ CanTransition(booking.status, "CANCELLED")
    /\ tasksDone = 0
    /\ rowLock' = s
    /\ Goto(s, "cancel", booking)
    /\ UNCHANGED <<booking, tasksDone, ledger, invoice, outbox, diff>>

(* The rest of cancelBooking.  Every task it read is saved as CANCELLED,    *)
(* those completed since included.                                          *)
CancelCommit(s) ==
    /\ pc[s] = "cancel"
    /\ Room
    /\ tasksDone' = 0
    /\ ledger' = WithCancelReversal(ledger)
    /\ booking' = WithPaid([seen[s] EXCEPT !.status = "CANCELLED", !.cancelledAt = TRUE], 0)
    /\ invoice' = InvoiceAfterCancel(invoice)
    /\ Emit({"BookingCancelledEvent"})
    /\ rowLock' = NoSession
    /\ Finish(s)
    /\ UNCHANGED diff

(* Mutation: one finished task is enough. *)
SomeTaskDone == tasksDone > 0
AllTasksDone == NumTasks > 0 /\ tasksDone = NumTasks

(* completeBooking, without a lock: the booking and its tasks are read ... *)
CompleteRead(s) ==
    /\ pc[s] = "idle"
    /\ CanTransition(booking.status, "COMPLETED")
    /\ AllTasksDone
    /\ Goto(s, "complete", booking)
    /\ UNCHANGED <<booking, tasksDone, ledger, invoice, outbox, rowLock, diff>>

(* ... the save reloads the row and compares ... *)
CompleteReload(s) ==
    /\ pc[s] = "complete"
    /\ Goto(s, "save", [seen[s] EXCEPT !.status = "COMPLETED"])
    /\ diff' = [diff EXCEPT ![s] = ChangedColumns([seen[s] EXCEPT !.status = "COMPLETED"], booking)]
    /\ UNCHANGED <<booking, tasksDone, ledger, invoice, outbox, rowLock>>

(* ... and updates the columns that differed, waiting for the row if it is *)
(* locked.  A row the CHECK constraints refuse rolls everything back.      *)
CompleteWrite(s) ==
    LET written == UpdateColumns(booking, seen[s], diff[s])
    IN  /\ pc[s] = "save"
        /\ RowFree
        /\ IF RowAllowed(written)
           THEN booking' = written /\ Emit({"BookingCompletedEvent"})
           ELSE UNCHANGED <<booking, outbox>>
        /\ Finish(s)
        /\ diff' = [diff EXCEPT ![s] = {}]
        /\ UNCHANGED <<tasksDone, ledger, invoice, rowLock>>

(* createInvoice, from the queue or from the controller: the booking is     *)
(* read first, whatever its status; the unique index decides who saves.     *)
InvoiceRead(s) ==
    /\ pc[s] = "idle"
    /\ invoice.status = "NONE"
    /\ Goto(s, "invoice", booking)
    /\ UNCHANGED <<booking, tasksDone, ledger, invoice, outbox, rowLock, diff>>

InvoiceSave(s) ==
    /\ pc[s] = "invoice"
    /\ invoice' = IF invoice.status = "NONE" THEN InvoiceFor(seen[s]) ELSE invoice
    /\ Finish(s)
    /\ UNCHANGED <<booking, tasksDone, ledger, outbox, rowLock, diff>>

Payment(s) ==
    \/ ReadForPayment(s, "pay")
    \/ \E amount \in Amounts \cup {booking.total - booking.paid}, key \in Keys \cup {NoKey} :
          RecordPayment(s, amount, key) \/ PaymentNotRecorded(s, amount, key)
Refund(s) ==
    \/ ReadForPayment(s, "refund")
    \/ \E amount \in Amounts : RecordRefund(s, amount) \/ RefundRefused(s, amount)
Cancellation(s) == CancelRead(s) \/ CancelCommit(s)
Completion(s) == CompleteRead(s) \/ CompleteReload(s) \/ CompleteWrite(s)
Invoicing(s) == InvoiceRead(s) \/ InvoiceSave(s)
Posting == \E type \in {"INCOME", "REFUND"}, amount \in Amounts \cup {- a : a \in Amounts} :
              ManualTransaction(type, amount)

Next ==
    \/ \E price \in Pricings : UpdatePrice(price)
    \/ Confirm
    \/ FinishTask
    \/ \E i \in DOMAIN ledger : VoidTransaction(i)
    \/ Posting
    \/ \E s \in Sessions : \/ Payment(s) \/ Refund(s) \/ Cancellation(s)
                           \/ Completion(s) \/ Invoicing(s)

Spec == Init /\ [][Next]_vars
----------------------------------------------------------------------------
(* Every variable holds a value of its kind: amounts never go below zero,   *)
(* a session waits in a known step, and the lock is held exactly by the     *)
(* session inside cancelBooking.                                            *)
RowsOK ==
    /\ booking \in Booking
    /\ tasksDone \in 0..NumTasks
    /\ ledger \in Seq(Row)
    /\ invoice \in Invoice
    /\ outbox \in [EventTypes -> Nat]

SessionsOK ==
    /\ rowLock \in Sessions \cup {NoSession}
    /\ pc \in [Sessions -> Steps]
    /\ seen \in [Sessions -> Booking]
    /\ diff \in [Sessions -> SUBSET Columns]
    /\ \A s \in Sessions : rowLock = s <=> pc[s] = "cancel"

TypeOK == RowsOK /\ SessionsOK

(* voidTransaction: every voided row has one reversal, later in the ledger, *)
(* of its type and opposite amount; a reversal reverses a voided row and is *)
(* never voided itself.  However often and in whatever order rows are       *)
(* voided, a void takes back exactly what its row posted.                   *)
ReversesVoided(i) ==
    LET original == ledger[ledger[i].reversalOf]
    IN  /\ ledger[i].reversalOf \in 1..(i - 1)
        /\ original.voided /\ original.reversalOf = 0
        /\ ledger[i].type = original.type
        /\ ledger[i].amount = - original.amount
        /\ ~ ledger[i].voided

ReversedOnce(i) ==
    \E j \in DOMAIN ledger : /\ ledger[j].reversalOf = i
                             /\ \A k \in DOMAIN ledger : ledger[k].reversalOf = i => k = j

VoidsNetOut ==
    \A i \in DOMAIN ledger : /\ ledger[i].reversalOf # 0 => ReversesVoided(i)
                             /\ ledger[i].voided => ReversedOnce(i)

(* recordPayment: a key that clients replay, from any number of sessions,   *)
(* is charged once.                                                         *)
KeyChargedOnce ==
    \A i, j \in DOMAIN ledger :
        ledger[i].key = ledger[j].key /\ ledger[i].key # NoKey => i = j

(* The ledger is history: rows are added at its end, and of a row that is   *)
(* there nothing changes but that it may become voided, once.               *)
LedgerAppendOnly ==
    [][ /\ Len(ledger') >= Len(ledger)
        /\ \A i \in DOMAIN ledger :
              ledger'[i] = ledger[i] \/ ledger'[i] = [ledger[i] EXCEPT !.voided = TRUE]
        /\ \A i \in DOMAIN ledger : ledger[i].voided => ledger'[i].voided ]_vars

(* A booking is confirmed once and cancelled once: the two events are       *)
(* written at most once each, a booking in CANCELLED has published that it  *)
(* is, and the request for an invoice goes with the confirmation.           *)
LifecycleEventsOnce ==
    /\ outbox["BookingConfirmedEvent"] <= 1
    /\ outbox["BookingCancelledEvent"] <= 1
    /\ booking.status = "CANCELLED" => outbox["BookingCancelledEvent"] = 1
    /\ outbox["InvoiceGenerationRequested"] = outbox["BookingConfirmedEvent"]
    /\ booking.status \in {"CONFIRMED", "COMPLETED"} => outbox["BookingConfirmedEvent"] = 1

(* Whatever stale copy a completion writes, no step goes back in the        *)
(* lifecycle: nothing returns to DRAFT, a finished booking is never         *)
(* CONFIRMED again and a completed one stays completed.                     *)
NoReopening ==
    [][ /\ booking.status # "DRAFT" => booking'.status # "DRAFT"
        /\ booking.status \in {"COMPLETED", "CANCELLED"} => booking'.status # "CONFIRMED"
        /\ booking.status = "COMPLETED" => booking'.status = "COMPLETED" ]_vars

(* recordPayment, recordRefund, confirm, cancel, void: the amount a booking *)
(* shows as paid is the balance of the rows posted for it.                  *)
PaidMatchesLedger == booking.paid = LedgerBalance(ledger)

(* recordRefund: the refunded amount is the sum of the refund rows.         *)
RefundedMatchesLedger ==
    booking.refunded = SumFunction([i \in DOMAIN ledger |->
        IF ledger[i].category = "Booking Refund" THEN ledger[i].amount ELSE 0])

(* derivePaymentStatus is called after every payment mutation: the status   *)
(* stored is the one the stored amounts give.  (A booking nothing was paid  *)
(* for is created UNPAID; a free one is left out.)                          *)
PaymentStatusInSync ==
    booking.total > 0 => booking.payStatus = DerivePaymentStatus(booking)

(* A booking becomes COMPLETED only with every task COMPLETED, and it has   *)
(* been published as completed exactly once.                                *)
CompletedOnce ==
    /\ booking.status = "COMPLETED" => tasksDone = NumTasks
    /\ outbox["BookingCompletedEvent"] = (IF booking.status = "COMPLETED" THEN 1 ELSE 0)

(* cancelBooking: a cancelled booking shows nothing as paid, its invoice    *)
(* neither, and its ledger holds none of the client's money.                *)
CancelledHoldsNothing ==
    booking.status = "CANCELLED" => /\ booking.paid = 0
                                    /\ LedgerBalance(ledger) = 0
                                    /\ invoice.paid = 0

(* "Payment only for confirmed or completed": a payment row is added to the *)
(* ledger of a booking in one of these statuses.                            *)
PaymentNeedsOpenBooking ==
    [][ /\ Len(ledger') > Len(ledger)
        /\ ledger'[Len(ledger')].category = "Booking Payment"
        => booking.status \in {"CONFIRMED", "COMPLETED"} ]_vars
=============================================================================
