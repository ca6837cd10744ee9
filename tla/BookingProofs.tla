---------------------------- MODULE BookingProofs ----------------------------
(***************************************************************************)
(* Theorems about BookingLedger, for every number of sessions, keys,       *)
(* amounts, prices and tasks and every bound on the ledger: its types and  *)
(* its refunds; then what MCBookingQuestions asks of the handlers that     *)
(* leave the money to one another - the money of a booking agrees with its *)
(* ledger and its invoice, and the ends of its lifecycle hold.             *)
(***************************************************************************)
EXTENDS MCBookingQuestions, SumFacts

(* The paid amount and the status derived from it have their types. *)
LEMMA DeriveType ==
    ASSUME NEW b PROVE DerivePaymentStatus(b) \in PaymentStatuses
  BY DEF DerivePaymentStatus, PaymentStatuses

LEMMA WithPaidType ==
    ASSUME NEW b \in Booking, NEW paid \in Nat
    PROVE  WithPaid(b, paid) \in Booking
  BY DeriveType DEF WithPaid, Booking

(* Rows that handlers append have the type of rows. *)
LEMMA NewRowType ==
    ASSUME NEW c \in Categories, NEW t \in {"INCOME", "REFUND"}, NEW a \in Int,
           NEW k \in Keys \cup {NoKey}
    PROVE  NewRow(c, t, a, k) \in Row
  BY DEF NewRow, Row

LEMMA ReversalType ==
    ASSUME ledger \in Seq(Row), NEW i \in DOMAIN ledger
    PROVE  Reversal(i) \in Row
  <1>1. ledger[i] \in Row /\ i \in Nat
    OBVIOUS
  <1>2. /\ ledger[i].type \in {"INCOME", "REFUND"}
        /\ - ledger[i].amount \in Int
    BY <1>1 DEF Row
  <1>3. NewRow("REVERSAL", ledger[i].type, - ledger[i].amount, NoKey) \in Row
    BY <1>2, NewRowType DEF Categories
  <1> QED BY <1>1, <1>3 DEF Reversal, Row

LEMMA CancelReversalType ==
    ASSUME NEW rows \in Seq(Row)
    PROVE  WithCancelReversal(rows) \in Seq(Row)
  <1> DEFINE net == NetIncome(rows)
             row == NewRow("Booking Reversal", "INCOME", - net, NoKey)
  <1>1. net \in Nat => row \in Row
    <2>1. net \in Nat => - net \in Int
      <3> HIDE DEF net
      <3> QED OBVIOUS
    <2> QED BY <2>1, NewRowType, Zenon DEF Categories
  <1>2. WithCancelReversal(rows) \in {rows, Append(rows, row)}
    BY DEF WithCancelReversal
  <1>3. net \notin Nat => WithCancelReversal(rows) = rows
    BY DEF WithCancelReversal
  <1>4. row \in Row => Append(rows, row) \in Seq(Row)
    <2> HIDE DEF row
    <2> QED OBVIOUS
  <1> QED BY <1>1, <1>2, <1>3, <1>4, Zenon

(* What the invoice does with a payment, a refund it can bear, a            *)
(* cancellation, and what it is created as.                                 *)
LEMMA InvoiceTypes ==
    ASSUME NEW inv \in Invoice, NEW amount \in Nat
    PROVE  /\ InvoiceAfterPayment(inv, amount) \in Invoice
           /\ RefundFitsInvoice(inv, amount) => InvoiceAfterRefund(inv, amount) \in Invoice
           /\ InvoiceAfterCancel(inv) \in Invoice
  <1>1. InvoiceAfterPayment(inv, amount) \in Invoice
    <2>1. inv.paid + amount \in Nat
      BY DEF Invoice
    <2>2. CASE inv.status = "NONE"
      BY <2>2 DEF InvoiceAfterPayment
    <2>3. CASE inv.status # "NONE" /\ inv.paid + amount >= inv.total
      BY <2>1, <2>3 DEF InvoiceAfterPayment, Invoice, InvoiceStatuses
    <2>4. CASE inv.status # "NONE" /\ ~ (inv.paid + amount >= inv.total)
      BY <2>1, <2>4 DEF InvoiceAfterPayment, Invoice, InvoiceStatuses
    <2> QED BY <2>2, <2>3, <2>4
  <1>2. ASSUME RefundFitsInvoice(inv, amount)
        PROVE  InvoiceAfterRefund(inv, amount) \in Invoice
    <2>1. CASE inv.status = "NONE"
      BY <2>1 DEF InvoiceAfterRefund
    <2>2. CASE inv.status # "NONE"
      <3>1. inv.paid - amount \in Nat
        BY <1>2, <2>2 DEF RefundFitsInvoice, Invoice
      <3> QED BY <2>2, <3>1 DEF InvoiceAfterRefund, Invoice, InvoiceStatuses
    <2> QED BY <2>1, <2>2
  <1>3. InvoiceAfterCancel(inv) \in Invoice
    BY DEF Invoice, InvoiceStatuses, InvoiceAfterCancel
  <1> QED BY <1>1, <1>2, <1>3

LEMMA InvoiceForType ==
    ASSUME NEW b \in Booking PROVE InvoiceFor(b) \in Invoice
  BY DEF InvoiceFor, Invoice, InvoiceStatuses, Booking

(* An update of any set of columns from a stale copy leaves a booking. *)
LEMMA UpdateType ==
    ASSUME NEW row \in Booking, NEW mine \in Booking, NEW cols \in SUBSET Columns
    PROVE  UpdateColumns(row, mine, cols) \in Booking
  BY DEF UpdateColumns, Booking, Columns

LEMMA NoBookingType == NoBooking \in Booking
  BY DEF NoBooking, Booking, Statuses, PaymentStatuses

(* Writing an outbox row keeps the counts natural numbers. *)
LEMMA EmitType ==
    ASSUME outbox \in [EventTypes -> Nat], NEW types, Emit(types)
    PROVE  outbox' \in [EventTypes -> Nat]
  BY DEF Emit

(* What a step of a session does to the sessions' own state, with the lock. *)
LEMMA GotoType ==
    ASSUME SessionsOK, UNCHANGED diff, NEW s \in Sessions, NEW step \in Steps, NEW copy \in Booking,
           Goto(s, step, copy),
           \/ UNCHANGED rowLock /\ pc[s] # "cancel" /\ step # "cancel"
           \/ rowLock = NoSession /\ rowLock' = s /\ step = "cancel"
           \/ pc[s] = "cancel" /\ rowLock' = NoSession /\ step # "cancel"
    PROVE  SessionsOK'
  BY SessionsAssumption DEF SessionsOK, Goto

LEMMA FinishType ==
    ASSUME SessionsOK, UNCHANGED diff, NEW s \in Sessions, Finish(s),
           \/ UNCHANGED rowLock /\ pc[s] # "cancel"
           \/ pc[s] = "cancel" /\ rowLock' = NoSession
    PROVE  SessionsOK'
  <1>1. "idle" \in Steps
    BY DEF Steps
  <1> QED BY <1>1, GotoType, NoBookingType DEF Finish

LEMMA SameSessions ==
    ASSUME SessionsOK, UNCHANGED <<rowLock, pc, seen, diff>> PROVE SessionsOK'
  BY DEF SessionsOK

LEMMA CreatedType ==
    ASSUME NEW price \in Pricings, NEW deposit \in IntakeDeposits
    PROVE  /\ Created(price, deposit) \in Booking
           /\ IntakeRows(deposit) \in Seq(Row)
           /\ IntakeEvents(deposit) \in [EventTypes -> Nat]
  <1> DEFINE b == [NoBooking EXCEPT !.total = price.total, !.deposit = price.deposit]
             row == NewRow("Booking Deposit", "INCOME", deposit, NoKey)
  <1>1. price.total \in Nat /\ price.deposit \in Nat /\ deposit \in Nat
    BY PricingsAssumption, IntakeAssumption
  <1>2. b \in Booking
    BY <1>1, NoBookingType DEF Booking, NoBooking
  <1>3. Created(price, deposit) \in Booking
    BY <1>1, <1>2, WithPaidType DEF Created
  <1>4. IntakeRows(deposit) \in {<< >>, <<row>>}
    BY DEF IntakeRows
  <1>5. row \in Row
    <2>1. deposit \in Int
      BY <1>1
    <2> QED BY <2>1, NewRowType, Zenon DEF Categories
  <1>6. IntakeRows(deposit) \in Seq(Row)
    <2>1. << >> \in Seq(Row) /\ <<row>> \in Seq(Row)
      <3> HIDE DEF row
      <3> QED BY <1>5
    <2> QED BY <1>4, <2>1, Zenon
  <1>7. IntakeEvents(deposit) \in [EventTypes -> Nat]
    BY DEF IntakeEvents
  <1> QED BY <1>3, <1>6, <1>7

LEMMA TypeInit == Init => TypeOK
  <1> SUFFICES ASSUME Init PROVE TypeOK
    OBVIOUS
  <1>1. booking \in Booking /\ ledger \in Seq(Row) /\ outbox \in [EventTypes -> Nat]
    BY CreatedType DEF Init
  <1>2. invoice \in Invoice
    BY DEF Init, NoInvoice, Invoice, InvoiceStatuses
  <1>3. pc \in [Sessions -> Steps] /\ seen \in [Sessions -> Booking]
    BY NoBookingType DEF Init, Steps
  <1>4. \A s \in Sessions : rowLock = s <=> pc[s] = "cancel"
    BY SessionsAssumption DEF Init
  <1>5. tasksDone \in 0..NumTasks /\ diff \in [Sessions -> SUBSET Columns]
    BY BoundsAssumption DEF Init
  <1> QED BY <1>1, <1>2, <1>3, <1>4, <1>5 DEF TypeOK, RowsOK, SessionsOK, Init

(* A row appended to the ledger leaves a ledger. *)
LEMMA AppendType ==
    ASSUME ledger \in Seq(Row), NEW c \in Categories, NEW t \in {"INCOME", "REFUND"},
           NEW a \in Int, NEW k \in Keys \cup {NoKey},
           ledger' = Append(ledger, NewRow(c, t, a, k))
    PROVE  ledger' \in Seq(Row)
  <1>1. NewRow(c, t, a, k) \in Row
    BY NewRowType
  <1> QED BY <1>1

(* Handlers that are one step under the lock. *)
LEMMA PriceType ==
    ASSUME TypeOK, NEW price \in Pricings, UpdatePrice(price) PROVE TypeOK'
  <1>1. [booking EXCEPT !.total = price.total, !.deposit = price.deposit] \in Booking
    <2>1. price.total \in Nat /\ price.deposit \in Nat
      BY PricingsAssumption
    <2> QED BY <2>1 DEF TypeOK, RowsOK, Booking
  <1>2. booking.paid \in Nat
    BY DEF TypeOK, RowsOK, Booking
  <1>3. booking' \in Booking
    BY <1>1, <1>2, WithPaidType DEF UpdatePrice
  <1> QED BY <1>3, SameSessions DEF TypeOK, RowsOK, UpdatePrice

LEMMA ConfirmType == ASSUME TypeOK, Confirm PROVE TypeOK'
  <1> DEFINE missing == booking.deposit - booking.paid
             confirmed == [booking EXCEPT !.status = "CONFIRMED"]
  <1>1. /\ booking.paid \in Nat /\ booking.deposit \in Nat
        /\ confirmed \in Booking
    BY DEF TypeOK, RowsOK, Booking, Statuses
  <1>2. booking' \in Booking /\ ledger' \in Seq(Row)
    <2>1. CASE missing <= 0
      BY <1>1, <2>1 DEF Confirm, TypeOK, RowsOK
    <2>2. CASE ~ (missing <= 0)
      <3>1. missing \in Int /\ booking.paid + missing \in Nat
        BY <1>1
      <3>2. booking' = WithPaid(confirmed, booking.paid + missing)
        BY <2>2 DEF Confirm
      <3>3. ledger' = Append(ledger, NewRow("Booking Deposit", "INCOME", missing, NoKey))
        BY <2>2 DEF Confirm
      <3>4. booking' \in Booking
        BY <1>1, <3>1, <3>2, WithPaidType, Zenon
      <3>5. ledger \in Seq(Row) /\ "Booking Deposit" \in Categories
        BY DEF TypeOK, RowsOK, Categories
      <3>6. ledger' \in Seq(Row)
        <4> HIDE DEF missing
        <4> QED BY <3>1, <3>3, <3>5, AppendType, Zenon
      <3> QED BY <3>4, <3>6
    <2> QED BY <2>1, <2>2
  <1>3. outbox' \in [EventTypes -> Nat]
    BY EmitType DEF Confirm, TypeOK, RowsOK
  <1> QED BY <1>2, <1>3, SameSessions DEF TypeOK, Confirm, RowsOK

LEMMA TaskType == ASSUME TypeOK, FinishTask PROVE TypeOK'
  <1>1. tasksDone' \in 0..NumTasks
    BY BoundsAssumption DEF TypeOK, RowsOK, FinishTask
  <1> QED BY <1>1, SameSessions DEF TypeOK, RowsOK, FinishTask, RowsOK

LEMMA VoidType ==
    ASSUME TypeOK, NEW i \in DOMAIN ledger, VoidTransaction(i) PROVE TypeOK'
  <1>1. ledger[i] \in Row /\ booking \in Booking /\ ledger \in Seq(Row)
    BY DEF TypeOK, RowsOK
  <1>2. [ledger EXCEPT ![i].voided = TRUE] \in Seq(Row)
    <2>1. [ledger[i] EXCEPT !.voided = TRUE] \in Row
      BY <1>1 DEF Row
    <2> QED BY <1>1, <2>1
  <1>3. ledger' \in Seq(Row)
    <2>1. Reversal(i) \in Row
      BY <1>1, ReversalType
    <2> QED BY <1>2, <2>1 DEF VoidTransaction
  <1>4. PaidAfterVoid(ledger[i]) \in Nat
    <2>1. booking.paid \in Nat /\ ledger[i].amount \in Int
      BY <1>1 DEF Booking, Row
    <2>2. \A x \in Int : AtLeast(x, 0) \in Nat
      BY DEF AtLeast
    <2> DEFINE size == IF ledger[i].amount < 0 THEN - ledger[i].amount ELSE ledger[i].amount
    <2>3. size \in Int
      BY <2>1
    <2>4. booking.paid + (IF ledger[i].type = "REFUND" THEN size ELSE - size) \in Int
      <3> HIDE DEF size
      <3> QED BY <2>1, <2>3
    <2> QED BY <2>2, <2>4, Zenon DEF PaidAfterVoid
  <1>5. booking' \in Booking
    BY <1>1, <1>4, WithPaidType DEF VoidTransaction
  <1> QED BY <1>3, <1>5, SameSessions DEF TypeOK, RowsOK, VoidTransaction

LEMMA PostingType == ASSUME TypeOK, Posting PROVE TypeOK'
  <1>1. PICK t \in {"INCOME", "REFUND"}, a \in Amounts \cup {- x : x \in Amounts} :
             ManualTransaction(t, a)
    BY Zenon DEF Posting
  <1>2. a \in Int
    BY AmountsAssumption
  <1>3. ledger' \in Seq(Row)
    <2>1. NewRow("Manual", t, a, NoKey) \in Row
      BY <1>2, NewRowType, Zenon DEF Categories
    <2> QED BY <1>1, <2>1 DEF ManualTransaction, TypeOK, RowsOK
  <1> QED BY <1>1, <1>3, SameSessions DEF ManualTransaction, TypeOK, RowsOK

(* Handlers of a session that take several steps. *)
LEMMA PaymentType ==
    ASSUME TypeOK, NEW s \in Sessions, Payment(s) PROVE TypeOK'
  <1>1. CASE ReadForPayment(s, "pay")
    <2>1. "pay" \in Steps /\ "pay" # "cancel"
      BY DEF Steps
    <2>2. SessionsOK'
      BY <1>1, <2>1, GotoType, NoBookingType DEF ReadForPayment, TypeOK
    <2> QED BY <1>1, <2>2 DEF ReadForPayment, TypeOK, RowsOK
  <1>2. ASSUME NEW a, NEW k \in Keys \cup {NoKey}, RecordPayment(s, a, k)
        PROVE  TypeOK'
    <2>1. /\ booking \in Booking /\ booking.paid \in Nat /\ booking.total \in Nat
          /\ ledger \in Seq(Row) /\ invoice \in Invoice
      BY DEF TypeOK, RowsOK, Booking
    <2>2. a \in Nat /\ a \in Int /\ booking.paid + a \in Nat
      <3>1. a \in 1..(booking.total - booking.paid)
        BY <1>2, Zenon DEF RecordPayment
      <3> QED BY <2>1, <3>1
    <2>3. booking' \in Booking
      BY <1>2, <2>1, <2>2, WithPaidType DEF RecordPayment
    <2>4. ledger' \in Seq(Row)
      <3>1. ledger' = Append(ledger, NewRow("Booking Payment", "INCOME", a, k))
        BY <1>2 DEF RecordPayment
      <3> QED BY <2>1, <2>2, <3>1, AppendType, Zenon DEF Categories
    <2>5. invoice' \in Invoice
      BY <1>2, <2>1, <2>2, InvoiceTypes DEF RecordPayment
    <2>6. outbox' \in [EventTypes -> Nat]
      BY <1>2, EmitType DEF RecordPayment, TypeOK, RowsOK
    <2>7. SessionsOK'
      BY <1>2, FinishType DEF RecordPayment, TypeOK
    <2> QED BY <1>2, <2>3, <2>4, <2>5, <2>6, <2>7 DEF RecordPayment, TypeOK, RowsOK
  <1>3. ASSUME NEW a, NEW k, PaymentNotRecorded(s, a, k) PROVE TypeOK'
    <2>1. SessionsOK'
      BY <1>3, FinishType DEF PaymentNotRecorded, TypeOK
    <2> QED BY <1>3, <2>1 DEF PaymentNotRecorded, TypeOK, RowsOK
  <1> QED BY <1>1, <1>2, <1>3 DEF Payment

LEMMA RefundType ==
    ASSUME TypeOK, NEW s \in Sessions, Refund(s) PROVE TypeOK'
  <1>1. CASE ReadForPayment(s, "refund")
    <2>1. "refund" \in Steps /\ "refund" # "cancel"
      BY DEF Steps
    <2>2. SessionsOK'
      BY <1>1, <2>1, GotoType, NoBookingType DEF ReadForPayment, TypeOK
    <2> QED BY <1>1, <2>2 DEF ReadForPayment, TypeOK, RowsOK
  <1>2. ASSUME NEW a \in Amounts, RecordRefund(s, a) PROVE TypeOK'
    <2>1. /\ booking \in Booking /\ booking.paid \in Nat /\ booking.refunded \in Nat
          /\ ledger \in Seq(Row) /\ invoice \in Invoice
          /\ a \in Nat /\ a \in Int
      BY AmountsAssumption DEF TypeOK, RowsOK, Booking
    <2>2. booking.paid - a \in Nat /\ RefundFitsInvoice(invoice, a)
      <3>1. a <= booking.paid /\ RefundFitsInvoice(invoice, a)
        BY <1>2, Zenon DEF RecordRefund, Refundable
      <3> QED BY <2>1, <3>1
    <2>3. booking' \in Booking
      <3>1. [booking EXCEPT !.refunded = @ + a] \in Booking
        BY <2>1 DEF Booking
      <3> QED BY <1>2, <2>2, <3>1, WithPaidType DEF RecordRefund, AfterRefund
    <2>4. ledger' \in Seq(Row)
      BY <1>2, <2>1, AppendType DEF RecordRefund, Categories
    <2>5. invoice' \in Invoice
      BY <1>2, <2>1, <2>2, InvoiceTypes DEF RecordRefund
    <2>6. outbox' \in [EventTypes -> Nat]
      BY <1>2, EmitType DEF RecordRefund, TypeOK, RowsOK
    <2>7. SessionsOK'
      BY <1>2, FinishType DEF RecordRefund, TypeOK
    <2> QED BY <1>2, <2>3, <2>4, <2>5, <2>6, <2>7 DEF RecordRefund, TypeOK, RowsOK
  <1>3. ASSUME NEW a \in Amounts, RefundRefused(s, a) PROVE TypeOK'
    <2>1. SessionsOK'
      BY <1>3, FinishType DEF RefundRefused, TypeOK
    <2> QED BY <1>3, <2>1 DEF RefundRefused, TypeOK, RowsOK
  <1> QED BY <1>1, <1>2, <1>3 DEF Refund

LEMMA CancellationType ==
    ASSUME TypeOK, NEW s \in Sessions, Cancellation(s) PROVE TypeOK'
  <1>1. CASE CancelRead(s)
    <2>1. "cancel" \in Steps /\ booking \in Booking
      BY DEF Steps, TypeOK, RowsOK
    <2>2. SessionsOK'
      BY <1>1, <2>1, GotoType DEF CancelRead, RowFree, TypeOK
    <2> QED BY <1>1, <2>2 DEF CancelRead, TypeOK, RowsOK
  <1>2. CASE CancelCommit(s)
    <2>1. /\ seen[s] \in Booking /\ ledger \in Seq(Row) /\ invoice \in Invoice
      BY DEF TypeOK, RowsOK, SessionsOK
    <2>2. [seen[s] EXCEPT !.status = "CANCELLED", !.cancelledAt = TRUE] \in Booking
      BY <2>1 DEF Booking, Statuses
    <2>3. booking' \in Booking
      BY <1>2, <2>2, WithPaidType DEF CancelCommit
    <2>4. ledger' \in Seq(Row)
      BY <1>2, <2>1, CancelReversalType DEF CancelCommit
    <2>5. invoice' \in Invoice
      BY <1>2, <2>1, InvoiceTypes, 0 \in Nat DEF CancelCommit
    <2>6. outbox' \in [EventTypes -> Nat]
      BY <1>2, EmitType DEF CancelCommit, TypeOK, RowsOK
    <2>7. SessionsOK'
      BY <1>2, FinishType DEF CancelCommit, TypeOK
    <2>8. tasksDone' \in 0..NumTasks
      BY <1>2, BoundsAssumption DEF CancelCommit
    <2> QED BY <2>3, <2>4, <2>5, <2>6, <2>7, <2>8 DEF TypeOK, RowsOK
  <1> QED BY <1>1, <1>2 DEF Cancellation

LEMMA CompletionType ==
    ASSUME TypeOK, NEW s \in Sessions, Completion(s) PROVE TypeOK'
  <1>0. /\ "complete" \in Steps /\ "save" \in Steps /\ "idle" \in Steps
        /\ booking \in Booking /\ seen[s] \in Booking /\ diff[s] \in SUBSET Columns
    BY DEF Steps, TypeOK, RowsOK, SessionsOK
  <1>1. CASE CompleteRead(s)
    <2>1. SessionsOK'
      BY <1>0, <1>1, GotoType DEF CompleteRead, TypeOK
    <2> QED BY <1>1, <2>1 DEF CompleteRead, TypeOK, RowsOK
  <1>2. CASE CompleteReload(s)
    <2> DEFINE mine == [seen[s] EXCEPT !.status = "COMPLETED"]
    <2>1. mine \in Booking
      BY <1>0 DEF Booking, Statuses
    <2>2. ChangedColumns(mine, booking) \in SUBSET Columns
      BY DEF ChangedColumns
    <2>3. diff' \in [Sessions -> SUBSET Columns]
      BY <1>2, <2>2 DEF CompleteReload, TypeOK, SessionsOK
    <2>4. SessionsOK'
      BY <1>0, <1>2, <2>1, <2>3, SessionsAssumption
         DEF CompleteReload, Goto, TypeOK, SessionsOK
    <2> QED BY <1>2, <2>4 DEF CompleteReload, TypeOK, RowsOK
  <1>3. CASE CompleteWrite(s)
    <2>1. UpdateColumns(booking, seen[s], diff[s]) \in Booking
      BY <1>0, UpdateType
    <2>2. booking' \in Booking
      BY <1>0, <1>3, <2>1 DEF CompleteWrite
    <2>3. outbox' \in [EventTypes -> Nat]
      BY <1>3, EmitType DEF CompleteWrite, TypeOK, RowsOK
    <2>4. diff' \in [Sessions -> SUBSET Columns]
      BY <1>3 DEF CompleteWrite, TypeOK, SessionsOK
    <2>5. SessionsOK'
      BY <1>0, <1>3, <2>4, NoBookingType
         DEF CompleteWrite, Finish, Goto, TypeOK, SessionsOK
    <2> QED BY <1>3, <2>2, <2>3, <2>5 DEF CompleteWrite, TypeOK, RowsOK
  <1> QED BY <1>1, <1>2, <1>3 DEF Completion

LEMMA InvoicingType ==
    ASSUME TypeOK, NEW s \in Sessions, Invoicing(s) PROVE TypeOK'
  <1>1. CASE InvoiceRead(s)
    <2>1. "invoice" \in Steps /\ booking \in Booking
      BY DEF Steps, TypeOK, RowsOK
    <2>2. SessionsOK'
      BY <1>1, <2>1, GotoType DEF InvoiceRead, TypeOK
    <2> QED BY <1>1, <2>2 DEF InvoiceRead, TypeOK, RowsOK
  <1>2. CASE InvoiceSave(s)
    <2>1. seen[s] \in Booking
      BY DEF TypeOK, SessionsOK
    <2>2. invoice' \in Invoice
      BY <1>2, <2>1, InvoiceForType DEF InvoiceSave, TypeOK, RowsOK
    <2>3. SessionsOK'
      BY <1>2, FinishType DEF InvoiceSave, TypeOK
    <2> QED BY <1>2, <2>2, <2>3 DEF InvoiceSave, TypeOK, RowsOK
  <1> QED BY <1>1, <1>2 DEF Invoicing

LEMMA TypeStep == TypeOK /\ [Next]_vars => TypeOK'
  <1> SUFFICES ASSUME TypeOK, [Next]_vars PROVE TypeOK'
    OBVIOUS
  <1>1. CASE UNCHANGED vars
    BY <1>1 DEF vars, TypeOK, RowsOK, SessionsOK
  <1>2. CASE Next
    BY <1>2, PriceType, ConfirmType, TaskType, VoidType, PostingType, PaymentType,
       RefundType, CancellationType, CompletionType, InvoicingType, Zenon DEF Next
  <1> QED BY <1>1, <1>2

(* Every handler, however the sessions interleave, leaves amounts that are  *)
(* natural numbers, statuses of the state machine, and the row lock held    *)
(* exactly by the session inside cancelBooking.                             *)
THEOREM TypeCorrect == Spec => []TypeOK
  BY TypeInit, TypeStep, PTL DEF Spec
----------------------------------------------------------------------------
(* The ledger invariants.  VoidsNetOut and KeyChargedOnce are inductive     *)
(* over the type invariant; each handler does one of three things to the    *)
(* ledger: nothing, a plain row more, or a void.                            *)
Plain(row) == row.reversalOf = 0 /\ ~ row.voided

LEMMA Appended ==
    ASSUME ledger \in Seq(Row), NEW row \in Row, ledger' = Append(ledger, row)
    PROVE  /\ DOMAIN ledger' = 1..(Len(ledger) + 1)
           /\ DOMAIN ledger = 1..Len(ledger) /\ Len(ledger) \in Nat
           /\ \A i \in 1..Len(ledger) : ledger'[i] = ledger[i]
           /\ ledger'[Len(ledger) + 1] = row
  OBVIOUS

LEMMA PlainKeepsVoids ==
    ASSUME ledger \in Seq(Row), VoidsNetOut, NEW row \in Row, Plain(row),
           ledger' = Append(ledger, row)
    PROVE  VoidsNetOut'
  <1> DEFINE n == Len(ledger)
  <1>1. /\ DOMAIN ledger' = 1..(n + 1) /\ DOMAIN ledger = 1..n /\ n \in Nat
        /\ \A i \in 1..n : ledger'[i] = ledger[i]
        /\ ledger'[n + 1] = row
    BY Appended
  <1> SUFFICES ASSUME NEW i \in DOMAIN ledger'
               PROVE  /\ ledger'[i].reversalOf # 0 => ReversesVoided(i)'
                      /\ ledger'[i].voided => ReversedOnce(i)'
    BY DEF VoidsNetOut
  <1>2. CASE i = n + 1
    BY <1>1, <1>2 DEF Plain
  <1>3. CASE i \in 1..n
    <2>1. ledger'[i] = ledger[i] /\ i \in DOMAIN ledger
      BY <1>1, <1>3
    <2>2. ledger[i].reversalOf # 0 => ReversesVoided(i)'
      <3> SUFFICES ASSUME ledger[i].reversalOf # 0 PROVE ReversesVoided(i)'
        OBVIOUS
      <3>1. ReversesVoided(i)
        BY <2>1 DEF VoidsNetOut
      <3>2. ledger[i].reversalOf \in 1..n
        BY <1>1, <1>3, <3>1 DEF ReversesVoided
      <3>3. ledger'[ledger'[i].reversalOf] = ledger[ledger[i].reversalOf]
        BY <1>1, <2>1, <3>2
      <3> QED BY <2>1, <3>1, <3>3 DEF ReversesVoided
    <2>3. ledger[i].voided => ReversedOnce(i)'
      <3> SUFFICES ASSUME ledger[i].voided PROVE ReversedOnce(i)'
        OBVIOUS
      <3>1. PICK j \in DOMAIN ledger :
                 /\ ledger[j].reversalOf = i
                 /\ \A k \in DOMAIN ledger : ledger[k].reversalOf = i => k = j
        BY <2>1 DEF VoidsNetOut, ReversedOnce
      <3>2. ledger'[j].reversalOf = i /\ j \in DOMAIN ledger'
        BY <1>1, <3>1
      <3>3. ASSUME NEW k \in DOMAIN ledger', ledger'[k].reversalOf = i PROVE k = j
        <4>1. k # n + 1
          BY <1>1, <1>3, <3>3 DEF Plain
        <4> QED BY <1>1, <3>1, <3>3, <4>1
      <3> QED BY <3>2, <3>3 DEF ReversedOnce
    <2> QED BY <2>1, <2>2, <2>3
  <1> QED BY <1>1, <1>2, <1>3

LEMMA VoidedRows ==
    ASSUME ledger \in Seq(Row), NEW v \in DOMAIN ledger,
           ledger' = Append([ledger EXCEPT ![v].voided = TRUE], Reversal(v))
    PROVE  /\ DOMAIN ledger' = 1..(Len(ledger) + 1)
           /\ DOMAIN ledger = 1..Len(ledger) /\ Len(ledger) \in Nat
           /\ \A i \in 1..Len(ledger) : i # v => ledger'[i] = ledger[i]
           /\ ledger'[v] = [ledger[v] EXCEPT !.voided = TRUE]
           /\ ledger'[Len(ledger) + 1] = Reversal(v)
  <1>1. ledger[v] \in Row /\ [ledger[v] EXCEPT !.voided = TRUE] \in Row
    <2>1. ledger[v] \in Row
      OBVIOUS
    <2> QED BY <2>1 DEF Row
  <1>2. Reversal(v) \in Row
    BY ReversalType
  <1>3. [ledger EXCEPT ![v].voided = TRUE] \in Seq(Row)
    BY <1>1
  <1> QED BY <1>1, <1>2, <1>3

LEMMA ReversalFields ==
    ASSUME ledger \in Seq(Row), NEW v \in DOMAIN ledger
    PROVE  /\ Reversal(v).reversalOf = v /\ ~ Reversal(v).voided
           /\ Reversal(v).type = ledger[v].type
           /\ Reversal(v).amount = - ledger[v].amount
           /\ Reversal(v).key = NoKey
           /\ Reversal(v).category = "REVERSAL"
  BY DEF Reversal, NewRow

LEMMA VoidKeepsVoids ==
    ASSUME ledger \in Seq(Row), VoidsNetOut, NEW v \in DOMAIN ledger,
           Voidable(ledger[v]),
           ledger' = Append([ledger EXCEPT ![v].voided = TRUE], Reversal(v))
    PROVE  VoidsNetOut'
  <1> DEFINE n == Len(ledger)
  <1>1. /\ DOMAIN ledger' = 1..(n + 1) /\ DOMAIN ledger = 1..n /\ n \in Nat
        /\ \A i \in 1..n : i # v => ledger'[i] = ledger[i]
        /\ ledger'[v] = [ledger[v] EXCEPT !.voided = TRUE]
        /\ ledger'[n + 1] = Reversal(v)
        /\ v \in 1..n
    BY VoidedRows
  <1>2. /\ ~ ledger[v].voided /\ ledger[v].reversalOf = 0 /\ ledger[v] \in Row
    BY DEF Voidable
  <1>3. /\ ledger'[v].voided /\ ledger'[v].reversalOf = 0
        /\ ledger'[v].type = ledger[v].type /\ ledger'[v].amount = ledger[v].amount
    BY <1>1, <1>2 DEF Row
  <1>4. \A j \in 1..n : ledger[j].reversalOf # v
    <2> SUFFICES ASSUME NEW j \in 1..n, ledger[j].reversalOf = v PROVE FALSE
      OBVIOUS
    <2>1. ReversesVoided(j)
      BY <1>1 DEF VoidsNetOut
    <2> QED BY <1>2, <2>1 DEF ReversesVoided
  <1> SUFFICES ASSUME NEW i \in DOMAIN ledger'
               PROVE  /\ ledger'[i].reversalOf # 0 => ReversesVoided(i)'
                      /\ ledger'[i].voided => ReversedOnce(i)'
    BY DEF VoidsNetOut
  <1>5. CASE i = n + 1
    <2>1. /\ ledger'[i].reversalOf = v /\ ~ ledger'[i].voided
          /\ ledger'[i].type = ledger[v].type
          /\ ledger'[i].amount = - ledger[v].amount
      BY <1>1, <1>5, ReversalFields
    <2>2. v \in 1..(i - 1)
      BY <1>1, <1>5
    <2>3. ReversesVoided(i)'
      BY <1>3, <2>1, <2>2, Zenon DEF ReversesVoided
    <2> QED BY <2>1, <2>3
  <1>6. CASE i = v
    <2>1. ledger'[n + 1].reversalOf = i
      BY <1>1, <1>6, ReversalFields
    <2>2. ASSUME NEW k \in DOMAIN ledger', ledger'[k].reversalOf = i PROVE k = n + 1
      BY <1>1, <1>3, <1>4, <1>6, <2>2
    <2> QED BY <1>1, <1>3, <1>6, <2>1, <2>2 DEF ReversedOnce
  <1>7. CASE i \in 1..n /\ i # v
    <2>1. ledger'[i] = ledger[i] /\ i \in DOMAIN ledger
      BY <1>1, <1>7
    <2>2. ledger[i].reversalOf # 0 => ReversesVoided(i)'
      <3> SUFFICES ASSUME ledger[i].reversalOf # 0 PROVE ReversesVoided(i)'
        OBVIOUS
      <3>1. ReversesVoided(i)
        BY <2>1 DEF VoidsNetOut
      <3>2. ledger[i].reversalOf \in 1..n /\ ledger[i].reversalOf # v
        BY <1>1, <1>4, <1>7, <3>1 DEF ReversesVoided
      <3>3. ledger'[ledger'[i].reversalOf] = ledger[ledger[i].reversalOf]
        BY <1>1, <2>1, <3>2
      <3> QED BY <2>1, <3>1, <3>3 DEF ReversesVoided
    <2>3. ledger[i].voided => ReversedOnce(i)'
      <3> SUFFICES ASSUME ledger[i].voided PROVE ReversedOnce(i)'
        OBVIOUS
      <3>1. PICK j \in DOMAIN ledger :
                 /\ ledger[j].reversalOf = i
                 /\ \A k \in DOMAIN ledger : ledger[k].reversalOf = i => k = j
        BY <2>1 DEF VoidsNetOut, ReversedOnce
      <3>2. ledger'[j].reversalOf = i /\ j \in DOMAIN ledger'
        BY <1>1, <1>2, <1>7, <3>1
      <3>3. ASSUME NEW k \in DOMAIN ledger', ledger'[k].reversalOf = i PROVE k = j
        <4>1. k # n + 1 /\ k # v
          BY <1>1, <1>3, <1>7, <3>3, ReversalFields
        <4> QED BY <1>1, <3>1, <3>3, <4>1
      <3> QED BY <3>2, <3>3 DEF ReversedOnce
    <2> QED BY <2>1, <2>2, <2>3
  <1> QED BY <1>1, <1>5, <1>6, <1>7

(* Charging a key that no row has leaves every key charged once. *)
LEMMA PlainKeepsKeys ==
    ASSUME ledger \in Seq(Row), KeyChargedOnce, NEW row \in Row, ~ KeyUsed(row.key),
           ledger' = Append(ledger, row)
    PROVE  KeyChargedOnce'
  <1>1. /\ DOMAIN ledger' = 1..(Len(ledger) + 1)
        /\ DOMAIN ledger = 1..Len(ledger) /\ Len(ledger) \in Nat
        /\ \A i \in 1..Len(ledger) : ledger'[i] = ledger[i]
        /\ ledger'[Len(ledger) + 1] = row
    BY Appended
  <1> QED BY <1>1 DEF KeyChargedOnce, KeyUsed

LEMMA VoidKeepsKeys ==
    ASSUME ledger \in Seq(Row), KeyChargedOnce, NEW v \in DOMAIN ledger,
           ledger' = Append([ledger EXCEPT ![v].voided = TRUE], Reversal(v))
    PROVE  KeyChargedOnce'
  <1> DEFINE n == Len(ledger)
  <1>1. /\ DOMAIN ledger' = 1..(n + 1) /\ DOMAIN ledger = 1..n /\ n \in Nat
        /\ \A i \in 1..n : i # v => ledger'[i] = ledger[i]
        /\ ledger'[v] = [ledger[v] EXCEPT !.voided = TRUE]
        /\ ledger'[n + 1] = Reversal(v)
    BY VoidedRows
  <1>2. ledger'[v].key = ledger[v].key
    <2>1. ledger[v] \in Row
      OBVIOUS
    <2> QED BY <1>1, <2>1 DEF Row
  <1>3. \A i \in 1..n : ledger'[i].key = ledger[i].key
    BY <1>1, <1>2
  <1>4. ledger'[n + 1].key = NoKey
    BY <1>1, ReversalFields
  <1> QED BY <1>1, <1>3, <1>4 DEF KeyChargedOnce

(* What one step does to the ledger. *)
PlainRow == \E row \in Row : /\ Plain(row) /\ ~ KeyUsed(row.key)
                             /\ ledger' = Append(ledger, row)
Void == \E v \in DOMAIN ledger :
            /\ Voidable(ledger[v])
            /\ ledger' = Append([ledger EXCEPT ![v].voided = TRUE], Reversal(v))

LEMMA PlainNewRow ==
    ASSUME NEW c \in Categories, NEW t \in {"INCOME", "REFUND"}, NEW a \in Int,
           NEW k \in Keys \cup {NoKey}, ~ KeyUsed(k),
           ledger' = Append(ledger, NewRow(c, t, a, k))
    PROVE  PlainRow
  <1>1. /\ Plain(NewRow(c, t, a, k)) /\ NewRow(c, t, a, k).key = k
    BY DEF Plain, NewRow
  <1> QED BY <1>1, NewRowType, Zenon DEF PlainRow

LEMMA LedgerStep ==
    ASSUME TypeOK, [Next]_vars PROVE UNCHANGED ledger \/ PlainRow \/ Void
  <1>0. /\ booking.paid \in Nat /\ booking.deposit \in Nat /\ booking.total \in Nat
        /\ ~ KeyUsed(NoKey) /\ NoKey \in Keys \cup {NoKey} /\ Categories # {}
    BY DEF TypeOK, RowsOK, Booking, KeyUsed, Categories
  <1>1. CASE Confirm
    <2> DEFINE missing == booking.deposit - booking.paid
    <2>1. missing \in Int /\ "Booking Deposit" \in Categories
      BY <1>0 DEF Categories
    <2>2. \/ UNCHANGED ledger
          \/ ledger' = Append(ledger, NewRow("Booking Deposit", "INCOME", missing, NoKey))
      BY <1>1 DEF Confirm
    <2> HIDE DEF missing
    <2> QED BY <1>0, <2>1, <2>2, PlainNewRow, Zenon
  <1>2. ASSUME NEW i \in DOMAIN ledger, VoidTransaction(i) PROVE Void
    BY <1>2, Zenon DEF VoidTransaction, Void
  <1>3. CASE Posting
    <2>1. PICK t \in {"INCOME", "REFUND"}, a \in Amounts \cup {- x : x \in Amounts} :
               ManualTransaction(t, a)
      BY <1>3, Zenon DEF Posting
    <2>2. a \in Int /\ "Manual" \in Categories
      BY AmountsAssumption DEF Categories
    <2>3. ledger' = Append(ledger, NewRow("Manual", t, a, NoKey))
      BY <2>1 DEF ManualTransaction
    <2> QED BY <1>0, <2>2, <2>3, PlainNewRow, Zenon
  <1>4. ASSUME NEW s \in Sessions, NEW a, NEW k \in Keys \cup {NoKey},
               RecordPayment(s, a, k)
        PROVE  PlainRow
    <2>1. a \in 1..(booking.total - booking.paid) /\ ~ KeyUsed(k)
      BY <1>4, Zenon DEF RecordPayment
    <2>2. a \in Int /\ "Booking Payment" \in Categories
      BY <1>0, <2>1 DEF Categories
    <2>3. ledger' = Append(ledger, NewRow("Booking Payment", "INCOME", a, k))
      BY <1>4, Zenon DEF RecordPayment
    <2> QED BY <2>1, <2>2, <2>3, PlainNewRow, Zenon
  <1>5. ASSUME NEW s \in Sessions, NEW a \in Amounts, RecordRefund(s, a)
        PROVE  PlainRow
    <2>1. a \in Int /\ "Booking Refund" \in Categories
      BY AmountsAssumption DEF Categories
    <2>2. ledger' = Append(ledger, NewRow("Booking Refund", "REFUND", a, NoKey))
      BY <1>5, Zenon DEF RecordRefund
    <2> QED BY <1>0, <2>1, <2>2, PlainNewRow, Zenon
  <1>6. ASSUME NEW s \in Sessions, CancelCommit(s)
        PROVE  UNCHANGED ledger \/ PlainRow
    <2> DEFINE net == NetIncome(ledger)
    <2>1. \/ UNCHANGED ledger
          \/ /\ net \in Nat
             /\ ledger' = Append(ledger,
                                 NewRow("Booking Reversal", "INCOME", - net, NoKey))
      BY <1>6, Zenon DEF CancelCommit, WithCancelReversal
    <2>2. net \in Nat => - net \in Int
      <3> HIDE DEF net
      <3> QED OBVIOUS
    <2>3. "Booking Reversal" \in Categories
      BY DEF Categories
    <2> QED BY <1>0, <2>1, <2>2, <2>3, PlainNewRow, Zenon
  <1>7. ASSUME NEW s \in Sessions, \/ ReadForPayment(s, "pay") \/ ReadForPayment(s, "refund")
                                   \/ CancelRead(s) \/ Completion(s) \/ Invoicing(s)
        PROVE  UNCHANGED ledger
    BY <1>7, Zenon DEF ReadForPayment, CancelRead, Completion, CompleteRead, CompleteReload,
       CompleteWrite, Invoicing, InvoiceRead, InvoiceSave
  <1>8. ASSUME NEW s \in Sessions, NEW a, NEW k,
               PaymentNotRecorded(s, a, k) \/ RefundRefused(s, a)
        PROVE  UNCHANGED ledger
    BY <1>8, Zenon DEF PaymentNotRecorded, RefundRefused
  <1>9. CASE UNCHANGED vars
    BY <1>9 DEF vars
  <1>10. CASE \/ FinishTask \/ \E price \in Pricings : UpdatePrice(price)
    BY <1>10, Zenon DEF FinishTask, UpdatePrice
  <1> QED BY <1>1, <1>2, <1>3, <1>4, <1>5, <1>6, <1>7, <1>8, <1>9, <1>10, Zenon
          DEF Next, Payment, Refund, Cancellation

(* The ledger's inductive invariant. *)
LedgerInv == TypeOK /\ VoidsNetOut /\ KeyChargedOnce

LEMMA LedgerInit == Init => LedgerInv
  <1> SUFFICES ASSUME Init PROVE LedgerInv
    OBVIOUS
  <1>1. PICK deposit \in IntakeDeposits : ledger = IntakeRows(deposit)
    BY DEF Init
  <1>2. ledger = << >> \/ (DOMAIN ledger = 1..1 /\ Plain(ledger[1]))
    <2>1. CASE deposit = 0
      BY <1>1, <2>1 DEF IntakeRows
    <2>2. CASE deposit # 0
      <3> DEFINE row == NewRow("Booking Deposit", "INCOME", deposit, NoKey)
      <3>1. ledger = <<row>> /\ Plain(row)
        BY <1>1, <2>2 DEF IntakeRows, Plain, NewRow
      <3> HIDE DEF row
      <3> QED BY <3>1
    <2> QED BY <2>1, <2>2
  <1>3. VoidsNetOut /\ KeyChargedOnce
    BY <1>2 DEF VoidsNetOut, KeyChargedOnce, Plain
  <1> QED BY <1>3, TypeInit DEF LedgerInv

LEMMA LedgerNext == LedgerInv /\ [Next]_vars => LedgerInv'
  <1> SUFFICES ASSUME LedgerInv, [Next]_vars PROVE LedgerInv'
    OBVIOUS
  <1>1. TypeOK'
    BY TypeStep DEF LedgerInv
  <1>2. ledger \in Seq(Row)
    BY DEF LedgerInv, TypeOK, RowsOK
  <1>3. CASE UNCHANGED ledger
    <2>1. VoidsNetOut'
      BY <1>3 DEF LedgerInv, VoidsNetOut, ReversesVoided, ReversedOnce
    <2>2. KeyChargedOnce'
      BY <1>3, Zenon DEF LedgerInv, KeyChargedOnce
    <2> QED BY <1>1, <2>1, <2>2 DEF LedgerInv
  <1>4. CASE PlainRow
    BY <1>1, <1>2, <1>4, PlainKeepsVoids, PlainKeepsKeys, Zenon DEF LedgerInv, PlainRow
  <1>5. CASE Void
    BY <1>1, <1>2, <1>5, VoidKeepsVoids, VoidKeepsKeys, Zenon DEF LedgerInv, Void
  <1> QED BY <1>3, <1>4, <1>5, LedgerStep DEF LedgerInv

(* A void takes back exactly the row it voids, once, whatever is voided,    *)
(* refunded, cancelled or posted around it.                                 *)
THEOREM VoidsAlwaysNetOut == Spec => []VoidsNetOut
  <1>1. LedgerInv => VoidsNetOut
    BY DEF LedgerInv
  <1> QED BY <1>1, LedgerInit, LedgerNext, PTL DEF Spec

(* A payment sent any number of times with one idempotency key, from any    *)
(* sessions, is charged once.                                               *)
THEOREM KeysChargedOnce == Spec => []KeyChargedOnce
  <1>1. LedgerInv => KeyChargedOnce
    BY DEF LedgerInv
  <1> QED BY <1>1, LedgerInit, LedgerNext, PTL DEF Spec

(* The ledger only grows, and of a row that is there only voided changes. *)
Extends ==
    /\ Len(ledger') >= Len(ledger)
    /\ \A i \in DOMAIN ledger :
          ledger'[i] = ledger[i] \/ ledger'[i] = [ledger[i] EXCEPT !.voided = TRUE]
    /\ \A i \in DOMAIN ledger : ledger[i].voided => ledger'[i].voided

LEMMA LedgerExtends == TypeOK /\ [Next]_vars => Extends
  <1> SUFFICES ASSUME TypeOK, [Next]_vars PROVE Extends
    OBVIOUS
  <1>0. ledger \in Seq(Row)
    BY DEF TypeOK, RowsOK
  <1>1. CASE UNCHANGED ledger
    BY <1>0, <1>1 DEF Extends
  <1>2. CASE PlainRow
    <2>1. PICK row \in Row : ledger' = Append(ledger, row)
      BY <1>2 DEF PlainRow
    <2> QED BY <1>0, <2>1 DEF Extends
  <1>3. CASE Void
    <2>1. PICK v \in DOMAIN ledger :
               /\ Voidable(ledger[v])
               /\ ledger' = Append([ledger EXCEPT ![v].voided = TRUE], Reversal(v))
      BY <1>3 DEF Void
    <2>2. /\ DOMAIN ledger = 1..Len(ledger) /\ Len(ledger) \in Nat
          /\ DOMAIN ledger' = 1..(Len(ledger) + 1)
          /\ \A i \in 1..Len(ledger) : i # v => ledger'[i] = ledger[i]
          /\ ledger'[v] = [ledger[v] EXCEPT !.voided = TRUE]
      BY <1>0, <2>1, VoidedRows
    <2>3. Len(ledger') = Len(ledger) + 1
      <3>1. Reversal(v) \in Row /\ [ledger EXCEPT ![v].voided = TRUE] \in Seq(Row)
        <4>1. ledger[v] \in Row
          BY <1>0
        <4>2. [ledger[v] EXCEPT !.voided = TRUE] \in Row
          BY <4>1 DEF Row
        <4> QED BY <1>0, <4>2, ReversalType
      <3> QED BY <1>0, <2>1, <3>1
    <2>4. ~ ledger[v].voided
      BY <2>1 DEF Voidable
    <2>5. \A i \in DOMAIN ledger :
              ledger'[i] = ledger[i] \/ ledger'[i] = [ledger[i] EXCEPT !.voided = TRUE]
      BY <2>2
    <2>6. \A i \in DOMAIN ledger : ledger[i].voided => ledger'[i].voided
      BY <2>2, <2>4
    <2> QED BY <2>2, <2>3, <2>5, <2>6 DEF Extends
  <1> QED BY <1>1, <1>2, <1>3, LedgerStep

THEOREM LedgerIsHistory == Spec => LedgerAppendOnly
  <1>1. TypeOK /\ [Next]_vars => [Extends]_vars
    BY LedgerExtends
  <1> QED BY <1>1, TypeInit, TypeStep, PTL DEF Spec, LedgerAppendOnly, Extends
----------------------------------------------------------------------------
(* The lifecycle.  Inductive with what the sessions inside cancelBooking    *)
(* and completeBooking know: the first holds the row as it read it, the     *)
(* second works on a booking that has been confirmed.                       *)
LifecycleInv ==
    /\ LifecycleEventsOnce
    /\ booking.status = "DRAFT" => outbox["BookingConfirmedEvent"] = 0
    /\ booking.status \in {"DRAFT", "CONFIRMED"} => outbox["BookingCancelledEvent"] = 0
    /\ \A s \in Sessions :
          /\ pc[s] = "cancel" => booking.status \in {"DRAFT", "CONFIRMED"}
          /\ pc[s] \in {"complete", "save"} =>
                booking.status # "DRAFT" /\ outbox["BookingConfirmedEvent"] = 1
          /\ pc[s] = "save" => seen[s].status = "COMPLETED"

(* The moves of the status that steps make. *)
StatusMoves ==
    \/ booking'.status = booking.status
    \/ booking.status = "DRAFT" /\ booking'.status = "CONFIRMED"
    \/ booking.status \in {"DRAFT", "CONFIRMED"} /\ booking'.status = "CANCELLED"
    \/ booking.status # "DRAFT" /\ booking'.status = "COMPLETED"

LEMMA WithPaidStatus ==
    ASSUME NEW b \in Booking, NEW paid PROVE WithPaid(b, paid).status = b.status
  BY DEF WithPaid, Booking

LEMMA Emitted ==
    ASSUME TypeOK, NEW types, Emit(types), NEW e \in EventTypes
    PROVE  /\ outbox[e] \in Nat
           /\ outbox'[e] = outbox[e] + (IF e \in types THEN 1 ELSE 0)
  BY DEF TypeOK, RowsOK, Emit

LEMMA EventNames ==
    /\ "BookingConfirmedEvent" \in EventTypes
    /\ "BookingCancelledEvent" \in EventTypes
    /\ "InvoiceGenerationRequested" \in EventTypes
  BY DEF EventTypes

(* A step that changes neither the status nor these three counts, and takes *)
(* no session into cancelBooking or completeBooking.                        *)
LEMMA LifecycleSame ==
    ASSUME LifecycleInv, booking'.status = booking.status,
           \A e \in {"BookingConfirmedEvent", "BookingCancelledEvent",
                     "InvoiceGenerationRequested"} : outbox'[e] = outbox[e],
           \A s \in Sessions : pc'[s] \in {"cancel", "complete", "save"} =>
                                  pc'[s] = pc[s] /\ seen'[s] = seen[s]
    PROVE  LifecycleInv' /\ StatusMoves
  <1>1. LifecycleEventsOnce'
    BY DEF LifecycleInv, LifecycleEventsOnce, StatusMoves
  <1>2. /\ booking'.status = "DRAFT" => outbox'["BookingConfirmedEvent"] = 0
        /\ booking'.status \in {"DRAFT", "CONFIRMED"} => outbox'["BookingCancelledEvent"] = 0
    BY DEF LifecycleInv
  <1>3. \A s \in Sessions :
          /\ pc'[s] = "cancel" => booking'.status \in {"DRAFT", "CONFIRMED"}
          /\ pc'[s] \in {"complete", "save"} =>
                booking'.status # "DRAFT" /\ outbox'["BookingConfirmedEvent"] = 1
          /\ pc'[s] = "save" => seen'[s].status = "COMPLETED"
    BY DEF LifecycleInv
  <1> QED BY <1>1, <1>2, <1>3 DEF LifecycleInv, StatusMoves

LEMMA ConfirmLifecycle == ASSUME TypeOK, LifecycleInv, Confirm PROVE LifecycleInv' /\ StatusMoves
  <1>1. /\ booking.status = "DRAFT" /\ booking'.status = "CONFIRMED"
    <2>1. booking.status = "DRAFT"
      BY DEF Confirm, CanTransition, AllowedTransitions
    <2> DEFINE confirmed == [booking EXCEPT !.status = "CONFIRMED"]
    <2>2. confirmed \in Booking /\ confirmed.status = "CONFIRMED"
      BY DEF TypeOK, RowsOK, Booking, Statuses
    <2>3. booking' = confirmed \/ \E p : booking' = WithPaid(confirmed, p)
      BY Zenon DEF Confirm
    <2> HIDE DEF confirmed
    <2> QED BY <2>1, <2>2, <2>3, WithPaidStatus
  <1>2. /\ outbox["BookingConfirmedEvent"] = 0 /\ outbox["BookingCancelledEvent"] = 0
        /\ outbox["InvoiceGenerationRequested"] = 0
    BY <1>1 DEF LifecycleInv, LifecycleEventsOnce, StatusMoves
  <1>3. Emit({"BookingConfirmedEvent", "InvoiceGenerationRequested"})
    BY DEF Confirm
  <1>4. /\ outbox'["BookingConfirmedEvent"] = 1 /\ outbox'["BookingCancelledEvent"] = 0
        /\ outbox'["InvoiceGenerationRequested"] = 1
    BY <1>2, <1>3, Emitted, EventNames
  <1>5. UNCHANGED <<pc, seen>>
    BY DEF Confirm
  <1> QED BY <1>1, <1>4, <1>5 DEF LifecycleInv, LifecycleEventsOnce, StatusMoves

LEMMA CancellationLifecycle ==
    ASSUME TypeOK, LifecycleInv, NEW s \in Sessions, Cancellation(s)
    PROVE  LifecycleInv' /\ StatusMoves
  <1>1. CASE CancelRead(s)
    <2>1. booking.status \in {"DRAFT", "CONFIRMED"}
      BY <1>1 DEF CancelRead, CanTransition, AllowedTransitions
    <2>2. /\ pc' = [pc EXCEPT ![s] = "cancel"] /\ seen' = [seen EXCEPT ![s] = booking]
          /\ UNCHANGED <<booking, outbox>> /\ pc \in [Sessions -> Steps]
          /\ seen \in [Sessions -> Booking]
      BY <1>1 DEF CancelRead, Goto, TypeOK, SessionsOK
    <2> QED BY <2>1, <2>2 DEF LifecycleInv, LifecycleEventsOnce, StatusMoves
  <1>2. CASE CancelCommit(s)
    <2>1. booking.status \in {"DRAFT", "CONFIRMED"}
      BY <1>2 DEF CancelCommit, LifecycleInv
    <2>2. booking'.status = "CANCELLED"
      <3>1. seen[s] \in Booking
        BY DEF TypeOK, SessionsOK
      <3> DEFINE cancelled == [seen[s] EXCEPT !.status = "CANCELLED", !.cancelledAt = TRUE]
      <3>2. cancelled \in Booking /\ cancelled.status = "CANCELLED"
        BY <3>1 DEF Booking, Statuses
      <3>3. booking' = WithPaid(cancelled, 0)
        BY <1>2 DEF CancelCommit
      <3> HIDE DEF cancelled
      <3> QED BY <3>2, <3>3, WithPaidStatus
    <2>3. Emit({"BookingCancelledEvent"})
      BY <1>2 DEF CancelCommit
    <2>4. outbox["BookingCancelledEvent"] = 0
      BY <2>1 DEF LifecycleInv
    <2>5. /\ outbox'["BookingCancelledEvent"] = 1
          /\ outbox'["BookingConfirmedEvent"] = outbox["BookingConfirmedEvent"]
          /\ outbox'["InvoiceGenerationRequested"] = outbox["InvoiceGenerationRequested"]
      BY <2>3, <2>4, Emitted, EventNames
    <2>6. /\ pc' = [pc EXCEPT ![s] = "idle"] /\ seen' = [seen EXCEPT ![s] = NoBooking]
          /\ pc \in [Sessions -> Steps] /\ seen \in [Sessions -> Booking]
      BY <1>2 DEF CancelCommit, Finish, Goto, TypeOK, SessionsOK
    <2>7. \A r \in Sessions : pc'[r] # "cancel"
      BY <1>2, <2>6, SessionsAssumption DEF CancelCommit, TypeOK, SessionsOK
    <2>8. \A r \in Sessions : pc'[r] \in {"complete", "save"} =>
              pc[r] = pc'[r] /\ seen'[r] = seen[r]
      BY <2>6
    <2>9. StatusMoves
      BY <2>1, <2>2 DEF StatusMoves
    <2> QED BY <2>2, <2>5, <2>7, <2>8, <2>9 DEF LifecycleInv, LifecycleEventsOnce
  <1> QED BY <1>1, <1>2 DEF Cancellation

LEMMA CompletionLifecycle ==
    ASSUME TypeOK, LifecycleInv, NEW s \in Sessions, Completion(s)
    PROVE  LifecycleInv' /\ StatusMoves
  <1>0. pc \in [Sessions -> Steps] /\ seen \in [Sessions -> Booking]
    BY DEF TypeOK, SessionsOK
  <1>1. CASE CompleteRead(s)
    <2>1. booking.status = "CONFIRMED"
      BY <1>1 DEF CompleteRead, CanTransition, AllowedTransitions
    <2>2. outbox["BookingConfirmedEvent"] = 1
      BY <2>1 DEF LifecycleInv, LifecycleEventsOnce, StatusMoves
    <2>3. /\ pc' = [pc EXCEPT ![s] = "complete"] /\ seen' = [seen EXCEPT ![s] = booking]
          /\ UNCHANGED <<booking, outbox>>
      BY <1>1 DEF CompleteRead, Goto
    <2> QED BY <1>0, <2>1, <2>2, <2>3 DEF LifecycleInv, LifecycleEventsOnce, StatusMoves
  <1>2. CASE CompleteReload(s)
    <2> DEFINE mine == [seen[s] EXCEPT !.status = "COMPLETED"]
    <2>1. mine.status = "COMPLETED"
      BY <1>0 DEF Booking
    <2>2. /\ pc' = [pc EXCEPT ![s] = "save"] /\ seen' = [seen EXCEPT ![s] = mine]
          /\ UNCHANGED <<booking, outbox>> /\ pc[s] = "complete"
      BY <1>2 DEF CompleteReload, Goto
    <2> HIDE DEF mine
    <2> QED BY <1>0, <2>1, <2>2 DEF LifecycleInv, LifecycleEventsOnce, StatusMoves
  <1>3. CASE CompleteWrite(s)
    <2>1. /\ booking.status # "DRAFT" /\ outbox["BookingConfirmedEvent"] = 1
          /\ seen[s].status = "COMPLETED"
      BY <1>3 DEF CompleteWrite, LifecycleInv
    <2>2. booking'.status \in {booking.status, "COMPLETED"}
      BY <1>3, <2>1 DEF CompleteWrite, UpdateColumns, TypeOK, RowsOK, Booking
    <2>3. \A e \in {"BookingConfirmedEvent", "BookingCancelledEvent",
                    "InvoiceGenerationRequested"} : outbox'[e] = outbox[e]
      BY <1>3, Emitted, EventNames DEF CompleteWrite
    <2>4. pc' = [pc EXCEPT ![s] = "idle"] /\ seen' = [seen EXCEPT ![s] = NoBooking]
      BY <1>3 DEF CompleteWrite, Finish, Goto
    <2>5. \A r \in Sessions : pc'[r] # "cancel"
      BY <1>3, <2>4, SessionsAssumption DEF CompleteWrite, RowFree, TypeOK, SessionsOK
    <2>6. \A r \in Sessions : pc'[r] \in {"complete", "save"} =>
              pc[r] = pc'[r] /\ seen'[r] = seen[r]
      BY <1>0, <2>4
    <2> QED BY <2>1, <2>2, <2>3, <2>5, <2>6 DEF LifecycleInv, LifecycleEventsOnce, StatusMoves
  <1> QED BY <1>1, <1>2, <1>3 DEF Completion

(* Payments, refunds, voids, prices, tasks, postings and invoices. *)
LEMMA OthersLifecycle ==
    ASSUME TypeOK, LifecycleInv,
           \/ FinishTask \/ Posting \/ \E price \in Pricings : UpdatePrice(price)
           \/ \E i \in DOMAIN ledger : VoidTransaction(i)
           \/ \E s \in Sessions : Payment(s) \/ Refund(s) \/ Invoicing(s)
    PROVE  LifecycleInv' /\ StatusMoves
  <1>0. booking \in Booking /\ pc \in [Sessions -> Steps] /\ seen \in [Sessions -> Booking]
    BY DEF TypeOK, RowsOK, SessionsOK
  <1>1. CASE FinishTask \/ Posting
    BY <1>1, LifecycleSame DEF FinishTask, Posting, ManualTransaction
  <1>2. ASSUME NEW price \in Pricings, UpdatePrice(price) PROVE LifecycleInv' /\ StatusMoves
    <2> DEFINE priced == [booking EXCEPT !.total = price.total, !.deposit = price.deposit]
    <2>1. priced \in Booking /\ priced.status = booking.status
      <3>1. price.total \in Nat /\ price.deposit \in Nat
        BY PricingsAssumption
      <3> QED BY <1>0, <3>1 DEF Booking
    <2>2. booking' = WithPaid(priced, booking.paid) /\ UNCHANGED <<outbox, pc, seen>>
      BY <1>2 DEF UpdatePrice
    <2> HIDE DEF priced
    <2> QED BY <2>1, <2>2, WithPaidStatus, LifecycleSame
  <1>3. ASSUME NEW i \in DOMAIN ledger, VoidTransaction(i) PROVE LifecycleInv' /\ StatusMoves
    <2>1. booking' = WithPaid(booking, PaidAfterVoid(ledger[i]))
          /\ UNCHANGED <<outbox, pc, seen>>
      BY <1>3 DEF VoidTransaction
    <2> QED BY <1>0, <2>1, WithPaidStatus, LifecycleSame
  <1>4. ASSUME NEW s \in Sessions,
               \/ ReadForPayment(s, "pay") \/ ReadForPayment(s, "refund")
               \/ InvoiceRead(s) \/ InvoiceSave(s)
               \/ \E a, k : PaymentNotRecorded(s, a, k)
               \/ \E a : RefundRefused(s, a)
        PROVE  LifecycleInv' /\ StatusMoves
    <2>1. /\ UNCHANGED <<booking, outbox>>
          /\ \E step \in {"pay", "refund", "invoice", "idle"} :
                /\ pc' = [pc EXCEPT ![s] = step]
                /\ \E copy : seen' = [seen EXCEPT ![s] = copy]
      BY <1>4, Zenon DEF ReadForPayment, InvoiceRead, InvoiceSave, PaymentNotRecorded,
         RefundRefused, Finish, Goto
    <2> QED BY <1>0, <2>1, LifecycleSame
  <1>5. ASSUME NEW s \in Sessions, NEW a, NEW k, RecordPayment(s, a, k)
        PROVE  LifecycleInv' /\ StatusMoves
    <2>1. /\ booking' = WithPaid(booking, booking.paid + a)
          /\ Emit({"PaymentRecordedEvent"})
          /\ pc' = [pc EXCEPT ![s] = "idle"] /\ seen' = [seen EXCEPT ![s] = NoBooking]
      BY <1>5, Zenon DEF RecordPayment, Finish, Goto
    <2>2. \A e \in {"BookingConfirmedEvent", "BookingCancelledEvent",
                    "InvoiceGenerationRequested"} : outbox'[e] = outbox[e]
      BY <2>1, Emitted, EventNames
    <2> QED BY <1>0, <2>1, <2>2, WithPaidStatus, LifecycleSame
  <1>6. ASSUME NEW s \in Sessions, NEW a \in Amounts, RecordRefund(s, a)
        PROVE  LifecycleInv' /\ StatusMoves
    <2> DEFINE refunded == [booking EXCEPT !.refunded = @ + a]
    <2>1. /\ booking' = WithPaid(refunded, booking.paid - a)
          /\ Emit({"RefundRecordedEvent"})
          /\ pc' = [pc EXCEPT ![s] = "idle"] /\ seen' = [seen EXCEPT ![s] = NoBooking]
      BY <1>6, Zenon DEF RecordRefund, AfterRefund, Finish, Goto
    <2>2. refunded \in Booking /\ refunded.status = booking.status
      BY <1>0, AmountsAssumption DEF Booking
    <2>3. \A e \in {"BookingConfirmedEvent", "BookingCancelledEvent",
                    "InvoiceGenerationRequested"} : outbox'[e] = outbox[e]
      BY <2>1, Emitted, EventNames
    <2> HIDE DEF refunded
    <2> QED BY <1>0, <2>1, <2>2, <2>3, WithPaidStatus, LifecycleSame
  <1> QED BY <1>1, <1>2, <1>3, <1>4, <1>5, <1>6, Zenon DEF Payment, Refund, Invoicing

LEMMA LifecycleInit == Init => LifecycleInv
  <1> SUFFICES ASSUME Init PROVE LifecycleInv
    OBVIOUS
  <1>1. PICK price \in Pricings, deposit \in IntakeDeposits :
             booking = Created(price, deposit) /\ outbox = IntakeEvents(deposit)
    BY DEF Init
  <1>2. booking.status = "DRAFT"
    <2> DEFINE b == [NoBooking EXCEPT !.total = price.total, !.deposit = price.deposit]
    <2>1. b.status = "DRAFT" /\ b \in Booking
      <3>1. price.total \in Nat /\ price.deposit \in Nat
        BY PricingsAssumption
      <3> QED BY <3>1, NoBookingType DEF NoBooking, Booking
    <2>2. booking \in {b, WithPaid(b, deposit)}
      BY <1>1 DEF Created
    <2> HIDE DEF b
    <2> QED BY <2>1, <2>2, WithPaidStatus
  <1>3. /\ outbox["BookingConfirmedEvent"] = 0 /\ outbox["BookingCancelledEvent"] = 0
        /\ outbox["InvoiceGenerationRequested"] = 0
    BY <1>1, EventNames DEF IntakeEvents
  <1>4. \A s \in Sessions : pc[s] = "idle"
    BY DEF Init
  <1> QED BY <1>2, <1>3, <1>4 DEF LifecycleInv, LifecycleEventsOnce

LEMMA EventsNext == TypeOK /\ LifecycleInv /\ [Next]_vars => LifecycleInv' /\ StatusMoves
  <1> SUFFICES ASSUME TypeOK, LifecycleInv, [Next]_vars PROVE LifecycleInv' /\ StatusMoves
    OBVIOUS
  <1>1. CASE UNCHANGED vars
    BY <1>1, LifecycleSame DEF vars
  <1>2. CASE Next
    BY <1>2, ConfirmLifecycle, CancellationLifecycle, CompletionLifecycle,
       OthersLifecycle, Zenon DEF Next
  <1> QED BY <1>1, <1>2

(* A booking is confirmed at most once and cancelled at most once, and no   *)
(* completion working on an old copy of the row makes it otherwise.         *)
THEOREM LifecyclePublishedOnce == Spec => []LifecycleEventsOnce
  <1>1. LifecycleInv => LifecycleEventsOnce
    BY DEF LifecycleInv
  <1> QED BY <1>1, TypeInit, TypeStep, LifecycleInit, EventsNext, PTL DEF Spec

(* No step goes back in the lifecycle, the completion's stale save included. *)
THEOREM NeverReopened == Spec => NoReopening
  <1>1. TypeOK /\ LifecycleInv /\ [Next]_vars =>
          [ /\ booking.status # "DRAFT" => booking'.status # "DRAFT"
            /\ booking.status \in {"COMPLETED", "CANCELLED"} => booking'.status # "CONFIRMED"
            /\ booking.status = "COMPLETED" => booking'.status = "COMPLETED" ]_vars
    BY EventsNext DEF StatusMoves
  <1>2. TypeOK /\ LifecycleInv /\ [Next]_vars => LifecycleInv'
    BY EventsNext
  <1> QED BY <1>1, <1>2, TypeInit, TypeStep, LifecycleInit, PTL DEF Spec, NoReopening
------------------------------------------------------------------------------
(* Every step of a question is a step of the handlers. *)
LEMMA QuestionsAreSteps == [MCNext]_MCvars => [Next]_vars
  <1>1. PaymentsNext => Next
    BY DEF PaymentsNext, Next
  <1>2. LifecycleNext => Next
    BY <1>1 DEF LifecycleNext, Next
  <1> QED BY <1>1, <1>2, Zenon DEF MCNext, MCvars, vars

(* The payment status is a function of three amounts. *)
LEMMA DeriveOfSame ==
    ASSUME NEW b, NEW c, b.total = c.total, b.paid = c.paid, b.deposit = c.deposit
    PROVE  DerivePaymentStatus(b) = DerivePaymentStatus(c)
  BY DEF DerivePaymentStatus

LEMMA WithPaidFields ==
    ASSUME NEW b \in Booking, NEW paid \in Nat
    PROVE  LET w == WithPaid(b, paid)
           IN  /\ w.paid = paid /\ w.status = b.status /\ w.total = b.total
               /\ w.deposit = b.deposit /\ w.refunded = b.refunded
               /\ w.cancelledAt = b.cancelledAt
               /\ w.payStatus = DerivePaymentStatus(w)
  <1> DEFINE w == WithPaid(b, paid)
             c == [b EXCEPT !.paid = paid]
  <1>1. /\ w.paid = paid /\ w.status = b.status /\ w.total = b.total
        /\ w.deposit = b.deposit /\ w.refunded = b.refunded /\ w.cancelledAt = b.cancelledAt
        /\ w.payStatus = DerivePaymentStatus(c)
    BY DEF WithPaid, Booking
  <1>2. c.total = b.total /\ c.paid = paid /\ c.deposit = b.deposit
    BY DEF Booking
  <1>3. DerivePaymentStatus(w) = DerivePaymentStatus(c)
    <2> HIDE DEF w, c
    <2> QED BY <1>1, <1>2, DeriveOfSame
  <1> QED BY <1>1, <1>3

LEMMA BookingSynced ==
    ASSUME NEW b \in Booking, NEW paid \in Nat, booking' = WithPaid(b, paid)
    PROVE  PaymentStatusInSync'
  <1>1. booking'.payStatus = DerivePaymentStatus(booking')
    BY WithPaidFields
  <1> QED BY <1>1 DEF PaymentStatusInSync

LEMMA SyncKept ==
    ASSUME PaymentStatusInSync, booking'.total = booking.total, booking'.paid = booking.paid,
           booking'.deposit = booking.deposit, booking'.payStatus = booking.payStatus
    PROVE  PaymentStatusInSync'
  <1>1. DerivePaymentStatus(booking') = DerivePaymentStatus(booking)
    BY DeriveOfSame
  <1> QED BY <1>1 DEF PaymentStatusInSync
----------------------------------------------------------------------------
(* The two sums over a ledger, and what one more row adds to them.          *)
RefundOf(row) == IF row.category = "Booking Refund" THEN row.amount ELSE 0
RefundSum(rows) == SumFunction([i \in DOMAIN rows |-> RefundOf(rows[i])])

LEMMA RowWorth ==
    ASSUME NEW row \in Row PROVE Worth(row) \in Int /\ RefundOf(row) \in Int
  <1>1. row.amount \in Int /\ - row.amount \in Int /\ 0 \in Int
    BY DEF Row
  <1>2. Worth(row) \in {row.amount, - row.amount} /\ RefundOf(row) \in {row.amount, 0}
    BY DEF Worth, RefundOf
  <1> QED BY <1>1, <1>2

LEMMA SumsOfAppend ==
    ASSUME NEW rows \in Seq(Row), NEW row \in Row
    PROVE  /\ LedgerBalance(Append(rows, row)) = LedgerBalance(rows) + Worth(row)
           /\ RefundSum(Append(rows, row)) = RefundSum(rows) + RefundOf(row)
           /\ LedgerBalance(rows) \in Int /\ RefundSum(rows) \in Int
  <1> DEFINE n == Len(rows)
             next == Append(rows, row)
             worths(r) == [i \in DOMAIN r |-> Worth(r[i])]
             refunds(r) == [i \in DOMAIN r |-> RefundOf(r[i])]
  <1>1. /\ n \in Nat /\ DOMAIN rows = 1..n /\ DOMAIN next = 1..(n + 1)
        /\ \A i \in 1..n : rows[i] \in Row /\ next[i] = rows[i]
        /\ next[n + 1] = row
    OBVIOUS
  <1> HIDE DEF n, next
  <1>2. /\ DOMAIN worths(rows) = 1..n /\ DOMAIN worths(next) = 1..(n + 1)
        /\ \A i \in 1..n : worths(rows)[i] \in Int /\ worths(next)[i] = worths(rows)[i]
        /\ worths(next)[n + 1] = Worth(row) /\ worths(next)[n + 1] \in Int
    BY <1>1, RowWorth
  <1>3. /\ DOMAIN refunds(rows) = 1..n /\ DOMAIN refunds(next) = 1..(n + 1)
        /\ \A i \in 1..n : refunds(rows)[i] \in Int /\ refunds(next)[i] = refunds(rows)[i]
        /\ refunds(next)[n + 1] = RefundOf(row) /\ refunds(next)[n + 1] \in Int
    BY <1>1, RowWorth
  <1>4. /\ LedgerBalance(rows) = SumFunction(worths(rows))
        /\ LedgerBalance(next) = SumFunction(worths(next))
        /\ RefundSum(rows) = SumFunction(refunds(rows))
        /\ RefundSum(next) = SumFunction(refunds(next))
    BY DEF LedgerBalance, RefundSum
  <1> HIDE DEF worths, refunds
  <1>5. /\ SumFunction(worths(next)) = SumFunction(worths(rows)) + worths(next)[n + 1]
        /\ SumFunction(worths(rows)) \in Int
    BY <1>1, <1>2, SumOfLonger
  <1>6. /\ SumFunction(refunds(next)) = SumFunction(refunds(rows)) + refunds(next)[n + 1]
        /\ SumFunction(refunds(rows)) \in Int
    BY <1>1, <1>3, SumOfLonger
  <1> QED BY <1>2, <1>3, <1>4, <1>5, <1>6 DEF next

LEMMA SumsOfNoRows == LedgerBalance(<< >>) = 0 /\ RefundSum(<< >>) = 0
  <1>1. /\ [i \in DOMAIN << >> |-> Worth(<< >>[i])] = << >>
        /\ [i \in DOMAIN << >> |-> RefundOf(<< >>[i])] = << >>
        /\ DOMAIN << >> = {}
    OBVIOUS
  <1>2. SumFunction(<< >>) = 0
    BY <1>1, SumOfNone DEF SumFunction
  <1> QED BY <1>1, <1>2 DEF LedgerBalance, RefundSum

(* No row was voided and no refund gives anything back. *)
PlainLedger ==
    \A i \in DOMAIN ledger : /\ ~ ledger[i].voided
                             /\ ledger[i].reversalOf = 0
                             /\ ledger[i].type = "REFUND" => ledger[i].amount >= 0

(* What cancelBooking sums over such a ledger is its balance. *)
LEMMA NetIsBalance ==
    ASSUME ledger \in Seq(Row), PlainLedger
    PROVE  NetIncome(ledger) = LedgerBalance(ledger)
  <1> DEFINE abs(x) == IF x < 0 THEN - x ELSE x
             counted(r) == IF r.voided THEN 0
                           ELSE IF r.type = "INCOME" THEN r.amount ELSE - abs(r.amount)
             f == [i \in DOMAIN ledger |-> counted(ledger[i])]
             g == [i \in DOMAIN ledger |-> Worth(ledger[i])]
  <1>1. \A i \in DOMAIN ledger : counted(ledger[i]) = Worth(ledger[i])
    <2> TAKE i \in DOMAIN ledger
    <2>1. ledger[i] \in Row
      OBVIOUS
    <2>2. ledger[i].amount \in Int /\ ledger[i].type \in {"INCOME", "REFUND"}
      BY <2>1 DEF Row
    <2> QED BY <2>2 DEF Worth, PlainLedger
  <1>2. f = g
    BY <1>1
  <1>3. NetIncome(ledger) = SumFunction(f) /\ LedgerBalance(ledger) = SumFunction(g)
    BY DEF NetIncome, LedgerBalance
  <1> QED BY <1>2, <1>3
----------------------------------------------------------------------------
LedgerMoney == PaidMatchesLedger /\ RefundedMatchesLedger /\ PlainLedger

ReversedWhenCancelled ==
    (\E i \in DOMAIN ledger : ledger[i].category = "Booking Reversal")
        => booking.status = "CANCELLED"

(* cancelBooking holds the row: what it read is what is there. *)
CancelKnows ==
    \A s \in Sessions : pc[s] = "cancel" => /\ seen[s] = booking
                                            /\ booking.status \in {"DRAFT", "CONFIRMED"}

MoneyInv == LedgerMoney /\ PaymentStatusInSync /\ ReversedWhenCancelled /\ CancelKnows

LEMMA RefundsAreSums == RefundedMatchesLedger <=> booking.refunded = RefundSum(ledger)
  BY DEF RefundedMatchesLedger, RefundSum, RefundOf

LEMMA RefundsAreSumsAfter == RefundedMatchesLedger' <=> booking'.refunded = RefundSum(ledger')
  BY DEF RefundedMatchesLedger, RefundSum, RefundOf

(* A handler appends a row and counts it. *)
LEMMA Posted ==
    ASSUME TypeOK, LedgerMoney, NEW row \in Row, ledger' = Append(ledger, row),
           row.voided = FALSE, row.reversalOf = 0, row.type = "REFUND" => row.amount >= 0,
           booking'.paid = booking.paid + Worth(row),
           booking'.refunded = booking.refunded + RefundOf(row)
    PROVE  LedgerMoney'
  <1>1. ledger \in Seq(Row)
    BY DEF TypeOK, RowsOK
  <1>2. /\ LedgerBalance(Append(ledger, row)) = LedgerBalance(ledger) + Worth(row)
        /\ RefundSum(Append(ledger, row)) = RefundSum(ledger) + RefundOf(row)
    BY <1>1, SumsOfAppend
  <1>3. PaidMatchesLedger'
    BY <1>2 DEF LedgerMoney, PaidMatchesLedger
  <1>4. RefundedMatchesLedger'
    BY <1>2, RefundsAreSums, RefundsAreSumsAfter DEF LedgerMoney
  <1>5. PlainLedger'
    BY <1>1, Appended DEF LedgerMoney, PlainLedger
  <1> QED BY <1>3, <1>4, <1>5 DEF LedgerMoney

LEMMA NothingPosted ==
    ASSUME LedgerMoney, UNCHANGED ledger, booking'.paid = booking.paid,
           booking'.refunded = booking.refunded
    PROVE  LedgerMoney'
  <1>1. RefundedMatchesLedger'
    BY RefundsAreSums, RefundsAreSumsAfter DEF LedgerMoney
  <1> QED BY <1>1 DEF LedgerMoney, PaidMatchesLedger, PlainLedger

LEMMA RowsOfAppend ==
    ASSUME NEW rows \in Seq(Row), NEW row \in Row, NEW next, next = Append(rows, row)
    PROVE  \A i \in DOMAIN next : next[i] = row \/ (i \in DOMAIN rows /\ next[i] = rows[i])
  <1> DEFINE n == Len(rows)
  <1>1. /\ n \in Nat /\ DOMAIN rows = 1..n /\ DOMAIN next = 1..(n + 1)
        /\ \A i \in 1..n : next[i] = rows[i]
        /\ next[n + 1] = row
    OBVIOUS
  <1> HIDE DEF n
  <1>2. \A i \in 1..(n + 1) : i \in 1..n \/ i = n + 1
    BY <1>1
  <1> QED BY ONLY <1>1, <1>2

(* A row that is not the reversal of a cancellation. *)
LEMMA NoReversalPosted ==
    ASSUME TypeOK, ReversedWhenCancelled, NEW row \in Row, row.category # "Booking Reversal",
           ledger' = Append(ledger, row), booking'.status = booking.status \/ booking.status = "DRAFT"
    PROVE  ReversedWhenCancelled'
  <1>1. ledger \in Seq(Row)
    BY DEF TypeOK, RowsOK
  <1>2. \A i \in DOMAIN ledger' : ledger'[i] = row \/ (i \in DOMAIN ledger /\ ledger'[i] = ledger[i])
    BY <1>1, RowsOfAppend
  <1>3. \A i \in DOMAIN ledger' : ledger'[i].category = "Booking Reversal"
           => i \in DOMAIN ledger /\ ledger[i].category = "Booking Reversal"
    BY <1>2
  <1> QED BY <1>3 DEF ReversedWhenCancelled

(* Who may write the row finds no cancellation under way. *)
LEMMA NoneCancelling ==
    ASSUME TypeOK, RowFree PROVE \A s \in Sessions : pc[s] # "cancel"
  BY SessionsAssumption DEF TypeOK, SessionsOK, RowFree

(* The steps that touch neither the booking nor the ledger. *)
LEMMA QuietMoney ==
    ASSUME TypeOK, MoneyInv, UNCHANGED <<booking, ledger>>,
           \A s \in Sessions : pc'[s] = "cancel" => pc[s] = "cancel" /\ seen'[s] = seen[s]
    PROVE  MoneyInv'
  <1>1. LedgerMoney'
    BY NothingPosted DEF MoneyInv
  <1>2. PaymentStatusInSync'
    BY SyncKept DEF MoneyInv
  <1> QED BY <1>1, <1>2 DEF MoneyInv, ReversedWhenCancelled, CancelKnows

(* The part of a session that only goes on, or ends. *)
LEMMA GoesOn ==
    ASSUME TypeOK, NEW s \in Sessions, NEW step \in Steps \ {"cancel"}, NEW copy,
           Goto(s, step, copy)
    PROVE  \A r \in Sessions : pc'[r] = "cancel" => pc[r] = "cancel" /\ seen'[r] = seen[r]
  BY DEF TypeOK, SessionsOK, Goto

LEMMA QuietSteps ==
    ASSUME TypeOK, MoneyInv, NEW s \in Sessions,
           \/ FinishTask \/ ReadForPayment(s, "pay") \/ ReadForPayment(s, "refund")
           \/ InvoiceRead(s) \/ InvoiceSave(s) \/ CompleteRead(s) \/ CompleteReload(s)
           \/ \E a, k : PaymentNotRecorded(s, a, k)
           \/ \E a : RefundRefused(s, a)
    PROVE  MoneyInv'
  <1>1. CASE FinishTask
    BY <1>1, QuietMoney DEF FinishTask
  <1>2. ASSUME ~ FinishTask PROVE MoneyInv'
    <2>1. /\ UNCHANGED <<booking, ledger>>
          /\ \E step \in {"pay", "refund", "invoice", "idle", "complete", "save"} :
                \E copy : Goto(s, step, copy)
      BY <1>2, Zenon DEF ReadForPayment, InvoiceRead, InvoiceSave, CompleteRead, CompleteReload,
         PaymentNotRecorded, RefundRefused, Finish
    <2>2. PICK step \in {"pay", "refund", "invoice", "idle", "complete", "save"} :
             \E copy : Goto(s, step, copy)
      BY <2>1
    <2>3. step \in Steps \ {"cancel"}
      BY DEF Steps
    <2>4. \A r \in Sessions : pc'[r] = "cancel" => pc[r] = "cancel" /\ seen'[r] = seen[r]
      BY <2>2, <2>3, GoesOn
    <2> QED BY <2>1, <2>4, QuietMoney
  <1> QED BY <1>1, <1>2

LEMMA PriceMoney ==
    ASSUME TypeOK, MoneyInv, NEW price \in Pricings, UpdatePrice(price)
    PROVE  MoneyInv'
  <1> DEFINE priced == [booking EXCEPT !.total = price.total, !.deposit = price.deposit]
  <1>1. booking \in Booking /\ price.total \in Nat /\ price.deposit \in Nat
    BY PricingsAssumption DEF TypeOK, RowsOK
  <1>2. /\ priced \in Booking /\ priced.status = booking.status
        /\ priced.refunded = booking.refunded /\ booking.paid \in Nat
    BY <1>1 DEF Booking
  <1>3. /\ booking' = WithPaid(priced, booking.paid) /\ RowFree
        /\ UNCHANGED <<ledger, pc, seen>>
    BY DEF UpdatePrice
  <1> HIDE DEF priced
  <1>4. /\ booking'.paid = booking.paid /\ booking'.refunded = booking.refunded
        /\ booking'.status = booking.status
    BY <1>2, <1>3, WithPaidFields
  <1>5. PaymentStatusInSync'
    BY <1>2, <1>3, BookingSynced
  <1>6. LedgerMoney'
    BY <1>3, <1>4, NothingPosted DEF MoneyInv
  <1> QED BY <1>3, <1>4, <1>5, <1>6, NoneCancelling
          DEF MoneyInv, ReversedWhenCancelled, CancelKnows

(* The deposit confirmBooking posts is what it adds to the paid amount. *)
LEMMA ConfirmMoney == ASSUME TypeOK, MoneyInv, Confirm PROVE MoneyInv'
  <1> DEFINE missing == booking.deposit - booking.paid
             confirmed == [booking EXCEPT !.status = "CONFIRMED"]
  <1>1. booking \in Booking /\ booking.deposit \in Nat /\ booking.paid \in Nat
        /\ booking.refunded \in Nat
    BY DEF TypeOK, RowsOK, Booking
  <1>2. /\ confirmed \in Booking /\ confirmed.status = "CONFIRMED"
        /\ confirmed.paid = booking.paid /\ confirmed.refunded = booking.refunded
        /\ confirmed.total = booking.total /\ confirmed.deposit = booking.deposit
        /\ confirmed.payStatus = booking.payStatus
    BY <1>1 DEF Booking, Statuses
  <1>3. booking.status = "DRAFT" /\ RowFree /\ UNCHANGED <<pc, seen>>
    BY DEF Confirm, CanTransition, AllowedTransitions
  <1>4. CancelKnows'
    BY <1>3, NoneCancelling DEF CancelKnows
  <1>5. CASE missing <= 0
    <2>1. booking' = confirmed /\ UNCHANGED ledger
      BY <1>5 DEF Confirm
    <2> HIDE DEF confirmed
    <2>2. LedgerMoney' /\ PaymentStatusInSync'
      BY <1>2, <2>1, NothingPosted, SyncKept DEF MoneyInv
    <2>3. ReversedWhenCancelled'
      BY <1>3, <2>1 DEF MoneyInv, ReversedWhenCancelled
    <2> QED BY <1>4, <2>2, <2>3 DEF MoneyInv
  <1>6. CASE ~ (missing <= 0)
    <2>1. PICK due \in Nat : due = missing
      BY <1>1, <1>6
    <2>2. PICK row : /\ row = NewRow("Booking Deposit", "INCOME", due, NoKey)
                     /\ booking' = WithPaid(confirmed, booking.paid + due)
                     /\ ledger' = Append(ledger, row)
      BY <1>6, <2>1 DEF Confirm
    <2> HIDE DEF confirmed, missing
    <2>3. booking.paid + due \in Nat /\ due \in Int
      BY <1>1
    <2>4. /\ booking'.paid = booking.paid + due /\ booking'.refunded = booking.refunded
          /\ booking'.status = "CONFIRMED"
      BY <1>2, <2>2, <2>3, WithPaidFields
    <2>5. /\ row \in Row
          /\ row.category = "Booking Deposit" /\ row.type = "INCOME" /\ row.amount = due
          /\ row.voided = FALSE /\ row.reversalOf = 0
      BY <2>2, <2>3 DEF NewRow, Row, Categories
    <2>6. Worth(row) = due /\ RefundOf(row) = 0 /\ row.type # "REFUND"
      BY <2>5 DEF Worth, RefundOf
    <2>7. /\ booking'.paid = booking.paid + Worth(row)
          /\ booking'.refunded = booking.refunded + RefundOf(row)
      BY <1>1, <2>4, <2>6
    <2>8. LedgerMoney'
      BY <2>2, <2>5, <2>6, <2>7, Posted DEF MoneyInv
    <2>9. PaymentStatusInSync'
      BY <1>2, <2>2, <2>3, BookingSynced
    <2>10. ReversedWhenCancelled'
      BY <1>3, <2>2, <2>5, NoReversalPosted DEF MoneyInv
    <2> QED BY <1>4, <2>8, <2>9, <2>10 DEF MoneyInv
  <1> QED BY <1>5, <1>6

LEMMA PaymentMoney ==
    ASSUME TypeOK, MoneyInv, NEW s \in Sessions, NEW amount, NEW key \in Keys \cup {NoKey},
           RecordPayment(s, amount, key)
    PROVE  MoneyInv'
  <1>1. booking \in Booking /\ booking.paid \in Nat /\ booking.total \in Nat
        /\ booking.refunded \in Nat
    BY DEF TypeOK, RowsOK, Booking
  <1>2. PICK row : /\ row = NewRow("Booking Payment", "INCOME", amount, key)
                   /\ amount \in 1..(booking.total - booking.paid) /\ RowFree
                   /\ booking' = WithPaid(booking, booking.paid + amount)
                   /\ ledger' = Append(ledger, row) /\ Goto(s, "idle", NoBooking)
    BY DEF RecordPayment, Finish
  <1>3. amount \in Nat /\ amount \in Int /\ booking.paid + amount \in Nat
    <2>1. PICK t \in Nat, p \in Nat : t = booking.total /\ p = booking.paid
      BY <1>1
    <2>2. amount \in 1..(t - p)
      BY <1>2, <2>1
    <2>3. amount \in Nat
      BY <2>2
    <2> QED BY <2>1, <2>3
  <1>4. /\ booking'.paid = booking.paid + amount /\ booking'.refunded = booking.refunded
        /\ booking'.status = booking.status
    BY <1>1, <1>2, <1>3, WithPaidFields
  <1>5. /\ row.category = "Booking Payment" /\ row.type = "INCOME" /\ row.amount = amount
        /\ row.voided = FALSE /\ row.reversalOf = 0
    BY <1>2 DEF NewRow
  <1>6. row \in Row
    BY <1>2, <1>3 DEF NewRow, Row, Categories
  <1>7. Worth(row) = amount /\ RefundOf(row) = 0 /\ row.type # "REFUND"
    BY <1>5 DEF Worth, RefundOf
  <1>12. /\ booking'.paid = booking.paid + Worth(row)
         /\ booking'.refunded = booking.refunded + RefundOf(row)
    BY <1>1, <1>4, <1>7
  <1>8. LedgerMoney'
    BY <1>2, <1>5, <1>6, <1>7, <1>12, Posted DEF MoneyInv
  <1>9. PaymentStatusInSync'
    BY <1>1, <1>2, <1>3, BookingSynced
  <1>10. ReversedWhenCancelled'
    BY <1>2, <1>4, <1>5, <1>6, NoReversalPosted DEF MoneyInv
  <1>11. CancelKnows'
    BY <1>2, NoneCancelling DEF Goto, CancelKnows, TypeOK, SessionsOK
  <1> QED BY <1>8, <1>9, <1>10, <1>11 DEF MoneyInv

LEMMA RefundMoney ==
    ASSUME TypeOK, MoneyInv, NEW s \in Sessions, NEW amount \in Amounts, RecordRefund(s, amount)
    PROVE  MoneyInv'
  <1> DEFINE refunded == [booking EXCEPT !.refunded = @ + amount]
  <1>1. booking \in Booking /\ booking.paid \in Nat /\ booking.refunded \in Nat
        /\ amount \in Nat /\ amount \in Int
    BY AmountsAssumption DEF TypeOK, RowsOK, Booking
  <1>2. PICK row : /\ row = NewRow("Booking Refund", "REFUND", amount, NoKey)
                   /\ amount <= booking.paid /\ RowFree
                   /\ booking' = WithPaid(refunded, booking.paid - amount)
                   /\ ledger' = Append(ledger, row) /\ Goto(s, "idle", NoBooking)
    BY DEF RecordRefund, Refundable, AfterRefund, Finish
  <1>13. booking.refunded + amount \in Nat /\ booking.paid - amount \in Nat
    <2>1. \A a, p, r \in Nat : a <= p => p - a \in Nat /\ r + a \in Nat
      OBVIOUS
    <2> HIDE DEF refunded
    <2> QED BY <1>1, <1>2, <2>1
  <1>3. /\ refunded \in Booking /\ refunded.refunded = booking.refunded + amount
        /\ refunded.status = booking.status /\ booking.paid - amount \in Nat
    BY <1>1, <1>13 DEF Booking
  <1> HIDE DEF refunded
  <1>4. /\ booking'.paid = booking.paid - amount /\ booking'.status = booking.status
        /\ booking'.refunded = booking.refunded + amount
    BY <1>2, <1>3, WithPaidFields
  <1>5. /\ row.category = "Booking Refund" /\ row.type = "REFUND" /\ row.amount = amount
        /\ row.voided = FALSE /\ row.reversalOf = 0
    BY <1>2 DEF NewRow
  <1>6. row \in Row
    BY <1>1, <1>2 DEF NewRow, Row, Categories
  <1>7. Worth(row) = - amount /\ RefundOf(row) = amount
    BY <1>5 DEF Worth, RefundOf
  <1>8. /\ booking'.paid = booking.paid + Worth(row) /\ row.amount >= 0
        /\ booking'.refunded = booking.refunded + RefundOf(row)
    <2>1. \A p \in Int : p - amount = p + (- amount)
      BY <1>1
    <2>2. amount >= 0
      BY <1>1
    <2>3. row.amount >= 0
      BY <1>5, <2>2
    <2> QED BY <1>1, <1>4, <1>7, <2>1, <2>3
  <1>9. LedgerMoney'
    BY <1>2, <1>5, <1>6, <1>8, Posted DEF MoneyInv
  <1>10. PaymentStatusInSync'
    BY <1>2, <1>3, BookingSynced
  <1>11. ReversedWhenCancelled'
    BY <1>2, <1>4, <1>5, <1>6, NoReversalPosted DEF MoneyInv
  <1>12. CancelKnows'
    BY <1>2, NoneCancelling DEF Goto, CancelKnows, TypeOK, SessionsOK
  <1> QED BY <1>9, <1>10, <1>11, <1>12 DEF MoneyInv

LEMMA CancelReadMoney ==
    ASSUME TypeOK, MoneyInv, NEW s \in Sessions, CancelRead(s)
    PROVE  MoneyInv'
  <1>1. /\ booking.status \in {"DRAFT", "CONFIRMED"} /\ RowFree
        /\ Goto(s, "cancel", booking) /\ UNCHANGED <<booking, ledger>>
    BY DEF CancelRead, CanTransition, AllowedTransitions
  <1>2. LedgerMoney' /\ PaymentStatusInSync'
    BY <1>1, NothingPosted, SyncKept DEF MoneyInv
  <1>3. CancelKnows'
    BY <1>1, NoneCancelling DEF Goto, CancelKnows, TypeOK, SessionsOK
  <1> QED BY <1>1, <1>2, <1>3 DEF MoneyInv, ReversedWhenCancelled

(* The reversal cancels the balance, which is what the booking showed as    *)
(* paid: nothing reversed before, it is posted unless there is none.        *)
LEMMA CancelCommitMoney ==
    ASSUME TypeOK, MoneyInv, NEW s \in Sessions, CancelCommit(s)
    PROVE  MoneyInv' /\ booking'.paid = 0 /\ booking'.status = "CANCELLED"
  <1> DEFINE cancelled == [booking EXCEPT !.status = "CANCELLED", !.cancelledAt = TRUE]
  <1>1. booking \in Booking /\ booking.paid \in Nat /\ booking.refunded \in Nat
        /\ ledger \in Seq(Row)
    BY DEF TypeOK, RowsOK, Booking
  <1>2. seen[s] = booking /\ booking.status \in {"DRAFT", "CONFIRMED"}
    BY DEF CancelCommit, MoneyInv, CancelKnows
  <1>3. /\ booking' = WithPaid(cancelled, 0) /\ ledger' = WithCancelReversal(ledger)
        /\ Goto(s, "idle", NoBooking) /\ pc[s] = "cancel"
    BY <1>2 DEF CancelCommit, Finish
  <1>4. /\ cancelled \in Booking /\ cancelled.status = "CANCELLED"
        /\ cancelled.refunded = booking.refunded
    BY <1>1 DEF Booking, Statuses
  <1> HIDE DEF cancelled
  <1>5. booking'.paid = 0 /\ booking'.status = "CANCELLED" /\ booking'.refunded = booking.refunded
    BY <1>3, <1>4, WithPaidFields
  <1>6. NetIncome(ledger) = booking.paid
    BY <1>1, NetIsBalance DEF MoneyInv, LedgerMoney, PaidMatchesLedger
  <1>7. ~ HasReversal(ledger)
    BY <1>2 DEF HasReversal, MoneyInv, LedgerMoney, PlainLedger, ReversedWhenCancelled
  <1>8. PICK row : /\ row = NewRow("Booking Reversal", "INCOME", - booking.paid, NoKey)
                   /\ ledger' = IF booking.paid \in Nat \ {0} THEN Append(ledger, row) ELSE ledger
    BY <1>3, <1>6, <1>7 DEF WithCancelReversal
  <1>9. LedgerMoney'
    <2>1. CASE booking.paid = 0
      BY <1>5, <1>8, <2>1, NothingPosted DEF MoneyInv
    <2>2. CASE booking.paid # 0
      <3>1. /\ row.category = "Booking Reversal" /\ row.type = "INCOME"
            /\ row.amount = - booking.paid /\ row.voided = FALSE /\ row.reversalOf = 0
        BY <1>8 DEF NewRow
      <3>2. row \in Row
        <4>1. - booking.paid \in Int
          BY <1>1
        <4> QED BY <1>8, <4>1 DEF NewRow, Row, Categories
      <3>3. ledger' = Append(ledger, row)
        BY <1>1, <1>8, <2>2
      <3>4. Worth(row) = - booking.paid /\ RefundOf(row) = 0
        BY <3>1 DEF Worth, RefundOf
      <3>5. /\ booking'.paid = booking.paid + Worth(row)
            /\ booking'.refunded = booking.refunded + RefundOf(row)
        BY <1>1, <1>5, <3>4
      <3> QED BY <3>1, <3>2, <3>3, <3>5, Posted DEF MoneyInv
    <2> QED BY <2>1, <2>2
  <1>10. PaymentStatusInSync'
    BY <1>3, <1>4, BookingSynced
  <1>11. CancelKnows'
    BY <1>3 DEF Goto, CancelKnows, TypeOK, SessionsOK
  <1> QED BY <1>5, <1>9, <1>10, <1>11 DEF MoneyInv, ReversedWhenCancelled

(* A completion that found nothing but the status to differ writes nothing  *)
(* else.                                                                    *)
OnlyStatus(s) ==
    diff[s] = {"status"} /\ seen[s].status = "COMPLETED" /\ booking.status = "CONFIRMED"

LEMMA CompleteWriteFields ==
    ASSUME TypeOK, NEW s \in Sessions, CompleteWrite(s), OnlyStatus(s)
    PROVE  /\ booking'.paid = booking.paid /\ booking'.refunded = booking.refunded
           /\ booking'.total = booking.total /\ booking'.deposit = booking.deposit
           /\ booking'.payStatus = booking.payStatus
           /\ \/ booking'.status = "COMPLETED" /\ Emit({"BookingCompletedEvent"})
              \/ booking'.status = "CONFIRMED" /\ UNCHANGED outbox
  <1>1. booking \in Booking
    BY DEF TypeOK, RowsOK
  <1>2. \/ booking' = UpdateColumns(booking, seen[s], {"status"}) /\ Emit({"BookingCompletedEvent"})
        \/ UNCHANGED <<booking, outbox>>
    BY DEF CompleteWrite, OnlyStatus
  <1> QED BY <1>1, <1>2 DEF UpdateColumns, Booking, OnlyStatus

LEMMA CompleteWriteMoney ==
    ASSUME TypeOK, MoneyInv, NEW s \in Sessions, CompleteWrite(s), OnlyStatus(s)
    PROVE  MoneyInv'
  <1>1. /\ booking'.paid = booking.paid /\ booking'.refunded = booking.refunded
        /\ booking'.total = booking.total /\ booking'.deposit = booking.deposit
        /\ booking'.payStatus = booking.payStatus
    BY CompleteWriteFields
  <1>2. RowFree /\ UNCHANGED ledger /\ Goto(s, "idle", NoBooking) /\ booking.status = "CONFIRMED"
    BY DEF CompleteWrite, Finish, OnlyStatus
  <1>3. LedgerMoney' /\ PaymentStatusInSync'
    BY <1>1, <1>2, NothingPosted, SyncKept DEF MoneyInv
  <1>4. CancelKnows'
    BY <1>2, NoneCancelling DEF Goto, CancelKnows, TypeOK, SessionsOK
  <1> QED BY <1>2, <1>3, <1>4 DEF MoneyInv, ReversedWhenCancelled

LEMMA TheOneRow ==
    ASSUME NEW rows, NEW row, rows = <<row>> PROVE \A i \in DOMAIN rows : rows[i] = row
  <1>1. DOMAIN <<row>> = {1} /\ <<row>>[1] = row
    OBVIOUS
  <1> QED BY <1>1

LEMMA SumsOfOneRow ==
    ASSUME NEW row \in Row
    PROVE  LedgerBalance(<<row>>) = Worth(row) /\ RefundSum(<<row>>) = RefundOf(row)
  <1>1. << >> \in Seq(Row)
    OBVIOUS
  <1>2. Append(<< >>, row) = <<row>>
    OBVIOUS
  <1>3. /\ LedgerBalance(Append(<< >>, row)) = LedgerBalance(<< >>) + Worth(row)
        /\ RefundSum(Append(<< >>, row)) = RefundSum(<< >>) + RefundOf(row)
    BY <1>1, SumsOfAppend
  <1> QED BY <1>2, <1>3, SumsOfNoRows, RowWorth
----------------------------------------------------------------------------
(* The first state: what the intake form took is posted and paid.           *)
LEMMA MoneyInit == Init => MoneyInv
  <1> SUFFICES ASSUME Init PROVE MoneyInv
    OBVIOUS
  <1>1. PICK price \in Pricings, deposit \in IntakeDeposits :
          booking = Created(price, deposit) /\ ledger = IntakeRows(deposit)
    BY DEF Init
  <1>2. price.total \in Nat /\ price.deposit \in Nat /\ deposit \in Nat /\ deposit \in Int
    BY PricingsAssumption, IntakeAssumption
  <1>3. PICK b : b = [NoBooking EXCEPT !.total = price.total, !.deposit = price.deposit]
    OBVIOUS
  <1>4. /\ b \in Booking /\ b.paid = 0 /\ b.refunded = 0 /\ b.payStatus = "UNPAID"
        /\ b.status = "DRAFT" /\ b.total \in Nat /\ b.deposit \in Nat
    BY <1>2, <1>3 DEF NoBooking, Booking, Statuses, PaymentStatuses
  <1>5. booking = IF deposit = 0 THEN b ELSE WithPaid(b, deposit)
    BY <1>1, <1>3 DEF Created
  <1>6. CancelKnows
    BY DEF Init, CancelKnows
  <1>7. CASE deposit = 0
    <2>1. booking = b /\ ledger = << >>
      BY <1>1, <1>5, <1>7 DEF IntakeRows
    <2>2. LedgerMoney
      BY <1>4, <2>1, SumsOfNoRows, RefundsAreSums DEF LedgerMoney, PaidMatchesLedger, PlainLedger
    <2>3. PaymentStatusInSync
      BY <1>4, <2>1 DEF PaymentStatusInSync, DerivePaymentStatus
    <2> QED BY <1>6, <2>1, <2>2, <2>3 DEF MoneyInv, ReversedWhenCancelled
  <1>8. CASE deposit # 0
    <2>1. PICK row : /\ row = NewRow("Booking Deposit", "INCOME", deposit, NoKey)
                     /\ ledger = <<row>>
      BY <1>1, <1>8 DEF IntakeRows
    <2>2. /\ row \in Row /\ row.category = "Booking Deposit" /\ row.type = "INCOME"
          /\ row.amount = deposit /\ row.voided = FALSE /\ row.reversalOf = 0
      BY <1>2, <2>1 DEF NewRow, Row, Categories
    <2>3. /\ booking.paid = deposit /\ booking.refunded = 0
          /\ booking.payStatus = DerivePaymentStatus(booking)
      BY <1>2, <1>4, <1>5, <1>8, WithPaidFields
    <2>4. \A i \in DOMAIN ledger : ledger[i] = row
      BY <2>1, TheOneRow
    <2>10. PlainLedger
      BY <2>2, <2>4 DEF PlainLedger
    <2>6. Worth(row) = deposit /\ RefundOf(row) = 0
      BY <2>2 DEF Worth, RefundOf
    <2>7. LedgerBalance(ledger) = deposit /\ RefundSum(ledger) = 0
      BY <2>1, <2>2, <2>6, SumsOfOneRow
    <2>8. LedgerMoney
      BY <2>3, <2>7, <2>10, RefundsAreSums DEF LedgerMoney, PaidMatchesLedger
    <2>11. ReversedWhenCancelled
      BY <2>2, <2>4 DEF ReversedWhenCancelled
    <2> QED BY <1>6, <2>3, <2>8, <2>11
            DEF MoneyInv, PaymentStatusInSync
  <1> QED BY <1>7, <1>8
----------------------------------------------------------------------------
(* One handler at a time.  A handler under way knows what the booking is,   *)
(* and no other acts.                                                       *)
OneActing == \A s, t \in Sessions : s # t => pc[s] = "idle" \/ pc[t] = "idle"

KnowsBooking(s) ==
    /\ pc[s] \in {"pay", "refund"} => OpenForPayment(booking)
    /\ pc[s] = "complete" => /\ seen[s] = booking /\ booking.status = "CONFIRMED"
                             /\ tasksDone = NumTasks
    /\ pc[s] = "save" => OnlyStatus(s) /\ tasksDone = NumTasks
    /\ pc[s] = "invoice" /\ booking.status = "CANCELLED" => seen[s].paid = 0

NothingInvoiced == invoice.status = "NONE" => invoice.paid = 0

SoloInv == /\ OneActing
           /\ \A s \in Sessions : KnowsBooking(s)
           /\ CompletedOnce /\ CancelledHoldsNothing
           /\ NothingInvoiced

(* What an action of session s has still to show: the others are idle.      *)
LEMMA OnlyActor ==
    ASSUME TypeOK, OneActing, OneActs, NEW s \in Sessions, NEW step \in Steps, NEW copy,
           Goto(s, step, copy), pc[s] # "idle" \/ step # "idle", KnowsBooking(s)'
    PROVE  OneActing' /\ \A r \in Sessions : KnowsBooking(r)'
  <1>1. OneActing'
    BY DEF OneActs, OneActing
  <1>2. /\ pc' = [pc EXCEPT ![s] = step] /\ pc \in [Sessions -> Steps]
    BY DEF Goto, TypeOK, SessionsOK
  <1>3. \A r \in Sessions : r # s => pc'[r] = "idle"
    <2>1. pc'[s] = step /\ \A r \in Sessions : r # s => pc'[r] = pc[r]
      BY <1>2
    <2> QED BY <2>1 DEF OneActs, OneActing
  <1>4. \A r \in Sessions : r # s => KnowsBooking(r)'
    BY <1>3 DEF KnowsBooking
  <1> QED BY <1>1, <1>4

(* The step of a session that becomes idle. *)
LEMMA Ends ==
    ASSUME TypeOK, NEW s \in Sessions, Goto(s, "idle", NoBooking) PROVE KnowsBooking(s)'
  BY DEF Goto, TypeOK, SessionsOK, KnowsBooking

LEMMA NotCompletedAgain ==
    ASSUME TypeOK, NEW types, Emit(types), "BookingCompletedEvent" \notin types
    PROVE  outbox'["BookingCompletedEvent"] = outbox["BookingCompletedEvent"]
  BY DEF TypeOK, RowsOK, Emit, EventTypes

(* The ends hold where the money does and the booking goes on as it was.    *)
LEMMA EndsKept ==
    ASSUME SoloInv, MoneyInv', tasksDone' = tasksDone,
           outbox'["BookingCompletedEvent"] = outbox["BookingCompletedEvent"],
           booking'.status = booking.status,
           booking.status = "CANCELLED" => booking'.paid = booking.paid /\ invoice'.paid = 0
    PROVE  CompletedOnce' /\ CancelledHoldsNothing'
  <1>1. CompletedOnce'
    BY DEF SoloInv, CompletedOnce
  <1>2. LedgerBalance(ledger') = booking'.paid
    BY DEF MoneyInv, LedgerMoney, PaidMatchesLedger
  <1> QED BY <1>1, <1>2 DEF SoloInv, CancelledHoldsNothing

(* A booking in DRAFT has no handler that waits for anything else.          *)
LEMMA DraftSolo ==
    ASSUME TypeOK, SoloInv, booking.status = "DRAFT", booking'.status \in {"DRAFT", "CONFIRMED"},
           outbox'["BookingCompletedEvent"] = outbox["BookingCompletedEvent"],
           UNCHANGED <<tasksDone, invoice, pc, seen, diff>>
    PROVE  SoloInv'
  <1>1. \A s \in Sessions : KnowsBooking(s)'
    BY DEF SoloInv, KnowsBooking, OpenForPayment, OnlyStatus
  <1>2. CompletedOnce' /\ CancelledHoldsNothing'
    BY DEF SoloInv, CompletedOnce, CancelledHoldsNothing
  <1> QED BY <1>1, <1>2 DEF SoloInv, OneActing, NothingInvoiced

LEMMA PriceSolo ==
    ASSUME TypeOK, SoloInv, NEW price \in Pricings, UpdatePrice(price) PROVE SoloInv'
  <1> DEFINE priced == [booking EXCEPT !.total = price.total, !.deposit = price.deposit]
  <1>1. booking \in Booking /\ price.total \in Nat /\ price.deposit \in Nat
    BY PricingsAssumption DEF TypeOK, RowsOK
  <1>2. priced \in Booking /\ priced.status = booking.status /\ booking.paid \in Nat
    BY <1>1 DEF Booking
  <1>3. /\ booking' = WithPaid(priced, booking.paid) /\ booking.status = "DRAFT"
        /\ UNCHANGED <<tasksDone, invoice, outbox, pc, seen, diff>>
    BY DEF UpdatePrice
  <1> HIDE DEF priced
  <1>4. booking'.status = "DRAFT"
    BY <1>2, <1>3, WithPaidFields
  <1> QED BY <1>3, <1>4, DraftSolo

LEMMA ConfirmSolo == ASSUME TypeOK, SoloInv, Confirm PROVE SoloInv'
  <1> DEFINE confirmed == [booking EXCEPT !.status = "CONFIRMED"]
             missing == booking.deposit - booking.paid
  <1>1. booking \in Booking /\ booking.deposit \in Nat /\ booking.paid \in Nat
    BY DEF TypeOK, RowsOK, Booking
  <1>2. confirmed \in Booking /\ confirmed.status = "CONFIRMED"
    BY <1>1 DEF Booking, Statuses
  <1>3. /\ booking.status = "DRAFT" /\ UNCHANGED <<tasksDone, invoice, pc, seen, diff>>
        /\ Emit({"BookingConfirmedEvent", "InvoiceGenerationRequested"})
        /\ \/ booking' = confirmed
           \/ booking' = WithPaid(confirmed, booking.paid + missing) /\ ~ (missing <= 0)
    BY DEF Confirm, CanTransition, AllowedTransitions
  <1>4. ~ (missing <= 0) => booking.paid + missing \in Nat
    BY <1>1
  <1> HIDE DEF confirmed, missing
  <1>5. booking'.status = "CONFIRMED"
    BY <1>2, <1>3, <1>4, WithPaidFields
  <1>6. outbox'["BookingCompletedEvent"] = outbox["BookingCompletedEvent"]
    BY <1>3, NotCompletedAgain
  <1> QED BY <1>3, <1>5, <1>6, DraftSolo

LEMMA TaskSolo == ASSUME TypeOK, SoloInv, FinishTask PROVE SoloInv'
  <1>1. /\ tasksDone \in 0..NumTasks /\ tasksDone # NumTasks
        /\ UNCHANGED <<booking, ledger, invoice, outbox, pc, seen, diff>>
    BY BoundsAssumption DEF FinishTask, TypeOK, RowsOK
  <1>2. \A s \in Sessions : KnowsBooking(s)'
    BY <1>1 DEF SoloInv, KnowsBooking, OpenForPayment, OnlyStatus
  <1>3. CompletedOnce' /\ CancelledHoldsNothing'
    BY <1>1 DEF SoloInv, CompletedOnce, CancelledHoldsNothing
  <1> QED BY <1>1, <1>2, <1>3 DEF SoloInv, OneActing, NothingInvoiced

(* The steps that only read, or end without having done anything. *)
LEMMA ReadingSolo ==
    ASSUME TypeOK, SoloInv, MoneyInv', OneActs, NEW s \in Sessions,
           \/ ReadForPayment(s, "pay") \/ ReadForPayment(s, "refund")
           \/ InvoiceRead(s) \/ CompleteRead(s) \/ CancelRead(s)
           \/ \E a, k : PaymentNotRecorded(s, a, k)
           \/ \E a : RefundRefused(s, a)
    PROVE  SoloInv'
  <1>1. UNCHANGED <<booking, tasksDone, ledger, invoice, outbox, diff>>
    BY DEF ReadForPayment, InvoiceRead, CompleteRead, CancelRead, PaymentNotRecorded, RefundRefused
  <1>2. pc \in [Sessions -> Steps] /\ seen \in [Sessions -> Booking] /\ OneActing
    BY DEF TypeOK, SessionsOK, SoloInv
  <1>3. PICK step, copy :
          step \in Steps /\ Goto(s, step, copy) /\ (pc[s] # "idle" \/ step # "idle") /\ KnowsBooking(s)'
    <2>1. CASE ReadForPayment(s, "pay") \/ ReadForPayment(s, "refund")
      <3>1. PICK step \in {"pay", "refund"} : Goto(s, step, NoBooking) /\ OpenForPayment(booking)
        BY <2>1 DEF ReadForPayment
      <3>2. KnowsBooking(s)'
        BY <1>1, <1>2, <3>1 DEF Goto, KnowsBooking, OpenForPayment
      <3> QED BY <3>1, <3>2 DEF Steps
    <2>2. CASE InvoiceRead(s)
      <3>1. Goto(s, "invoice", booking)
        BY <2>2 DEF InvoiceRead
      <3>2. KnowsBooking(s)'
        BY <1>1, <1>2, <3>1 DEF Goto, KnowsBooking, SoloInv, CancelledHoldsNothing
      <3> QED BY <3>1, <3>2 DEF Steps
    <2>3. CASE CompleteRead(s)
      <3>1. /\ Goto(s, "complete", booking) /\ booking.status = "CONFIRMED"
            /\ tasksDone = NumTasks
        BY <2>3 DEF CompleteRead, CanTransition, AllowedTransitions, AllTasksDone
      <3>2. KnowsBooking(s)'
        BY <1>1, <1>2, <3>1 DEF Goto, KnowsBooking
      <3> QED BY <3>1, <3>2 DEF Steps
    <2>4. CASE CancelRead(s)
      <3>1. Goto(s, "cancel", booking)
        BY <2>4 DEF CancelRead
      <3>2. KnowsBooking(s)'
        BY <1>2, <3>1 DEF Goto, KnowsBooking
      <3> QED BY <3>1, <3>2 DEF Steps
    <2>5. CASE (\E a, k : PaymentNotRecorded(s, a, k)) \/ (\E a : RefundRefused(s, a))
      <3>1. Goto(s, "idle", NoBooking) /\ pc[s] # "idle"
        BY <2>5 DEF PaymentNotRecorded, RefundRefused, Finish
      <3> QED BY <3>1, Ends DEF Steps
    <2> QED BY <2>1, <2>2, <2>3, <2>4, <2>5
  <1>4. OneActing' /\ \A r \in Sessions : KnowsBooking(r)'
    BY <1>2, <1>3, OnlyActor
  <1>5. CompletedOnce' /\ CancelledHoldsNothing'
    BY <1>1 DEF SoloInv, CompletedOnce, CancelledHoldsNothing
  <1> QED BY <1>1, <1>4, <1>5 DEF SoloInv, NothingInvoiced

(* What the invoice shows as paid follows the payment, the refund, the      *)
(* cancellation; a booking without an invoice has none afterwards.          *)
LEMMA InvoiceFields ==
    ASSUME NEW inv \in Invoice, NEW amount \in Int
    PROVE  /\ inv.status = "NONE" => /\ InvoiceAfterPayment(inv, amount) = inv
                                     /\ InvoiceAfterRefund(inv, amount) = inv
                                     /\ InvoiceAfterCancel(inv) = inv
           /\ inv.status # "NONE" =>
                 /\ InvoiceAfterPayment(inv, amount).paid = inv.paid + amount
                 /\ InvoiceAfterRefund(inv, amount).paid = inv.paid - amount
                 /\ InvoiceAfterCancel(inv).paid = 0
                 /\ InvoiceAfterPayment(inv, amount).status # "NONE"
                 /\ InvoiceAfterRefund(inv, amount).status # "NONE"
                 /\ InvoiceAfterCancel(inv).status # "NONE"
  <1>1. inv \in [status : InvoiceStatuses, total : Nat, paid : Nat]
    BY DEF Invoice
  <1> QED BY <1>1 DEF InvoiceAfterPayment, InvoiceAfterRefund, InvoiceAfterCancel

(* What a payment and a refund make of the booking. *)
LEMMA PaymentPaid ==
    ASSUME TypeOK, NEW s \in Sessions, NEW amount, NEW key \in Keys \cup {NoKey},
           RecordPayment(s, amount, key)
    PROVE  /\ amount \in Int /\ booking'.paid = booking.paid + amount
           /\ booking'.status = booking.status
  <1>1. booking \in Booking /\ booking.paid \in Nat /\ booking.total \in Nat
    BY DEF TypeOK, RowsOK, Booking
  <1>2. /\ amount \in 1..(booking.total - booking.paid)
        /\ booking' = WithPaid(booking, booking.paid + amount)
    BY DEF RecordPayment
  <1>3. amount \in Int /\ booking.paid + amount \in Nat
    <2>1. PICK t \in Nat, p \in Nat : t = booking.total /\ p = booking.paid
      BY <1>1
    <2>2. amount \in 1..(t - p)
      BY <1>2, <2>1
    <2>3. amount \in Nat
      BY <2>2
    <2> QED BY <2>1, <2>3
  <1> QED BY <1>1, <1>2, <1>3, WithPaidFields

LEMMA RefundPaid ==
    ASSUME TypeOK, NEW s \in Sessions, NEW amount \in Amounts, RecordRefund(s, amount)
    PROVE  /\ amount \in Int /\ booking'.paid = booking.paid - amount
           /\ booking'.status = booking.status
  <1> DEFINE refunded == [booking EXCEPT !.refunded = @ + amount]
  <1>1. booking \in Booking /\ booking.paid \in Nat /\ booking.refunded \in Nat
        /\ amount \in Nat /\ amount \in Int
    BY AmountsAssumption DEF TypeOK, RowsOK, Booking
  <1>2. amount <= booking.paid /\ booking' = WithPaid(refunded, booking.paid - amount)
    BY DEF RecordRefund, Refundable, AfterRefund
  <1>3. booking.refunded + amount \in Nat /\ booking.paid - amount \in Nat
    <2>1. \A a, p, r \in Nat : a <= p => p - a \in Nat /\ r + a \in Nat
      OBVIOUS
    <2> HIDE DEF refunded
    <2> QED BY <1>1, <1>2, <2>1
  <1>4. refunded \in Booking /\ refunded.status = booking.status
    BY <1>1, <1>3 DEF Booking
  <1> HIDE DEF refunded
  <1> QED BY <1>1, <1>2, <1>3, <1>4, WithPaidFields

LEMMA PaymentSolo ==
    ASSUME TypeOK, SoloInv, MoneyInv', OneActs, NEW s \in Sessions, NEW amount,
           NEW key \in Keys \cup {NoKey}, RecordPayment(s, amount, key)
    PROVE  SoloInv'
  <1>1. /\ pc[s] = "pay" /\ invoice' = InvoiceAfterPayment(invoice, amount)
        /\ Goto(s, "idle", NoBooking) /\ Emit({"PaymentRecordedEvent"})
        /\ UNCHANGED tasksDone
    BY DEF RecordPayment, Finish
  <1>2. amount \in Int /\ booking'.status = booking.status
    BY PaymentPaid
  <1>3. booking.status # "CANCELLED"
    BY <1>1 DEF SoloInv, KnowsBooking, OpenForPayment
  <1>4. outbox'["BookingCompletedEvent"] = outbox["BookingCompletedEvent"]
    BY <1>1, NotCompletedAgain
  <1>5. CompletedOnce' /\ CancelledHoldsNothing'
    BY <1>1, <1>2, <1>3, <1>4, EndsKept
  <1>6. NothingInvoiced'
    <2>1. invoice \in Invoice
      BY DEF TypeOK, RowsOK
    <2> QED BY <1>1, <1>2, <2>1, InvoiceFields DEF SoloInv, NothingInvoiced
  <1>7. OneActing' /\ \A r \in Sessions : KnowsBooking(r)'
    BY <1>1, Ends, OnlyActor DEF SoloInv, Steps
  <1> QED BY <1>5, <1>6, <1>7 DEF SoloInv

LEMMA RefundSolo ==
    ASSUME TypeOK, SoloInv, MoneyInv', OneActs, NEW s \in Sessions, NEW amount \in Amounts,
           RecordRefund(s, amount)
    PROVE  SoloInv'
  <1>1. /\ pc[s] = "refund" /\ invoice' = InvoiceAfterRefund(invoice, amount)
        /\ Goto(s, "idle", NoBooking) /\ Emit({"RefundRecordedEvent"})
        /\ UNCHANGED tasksDone
    BY DEF RecordRefund, Finish
  <1>2. amount \in Int /\ booking'.status = booking.status
    BY RefundPaid
  <1>3. booking.status # "CANCELLED"
    BY <1>1 DEF SoloInv, KnowsBooking, OpenForPayment
  <1>4. outbox'["BookingCompletedEvent"] = outbox["BookingCompletedEvent"]
    BY <1>1, NotCompletedAgain
  <1>5. CompletedOnce' /\ CancelledHoldsNothing'
    BY <1>1, <1>2, <1>3, <1>4, EndsKept
  <1>6. NothingInvoiced'
    <2>1. invoice \in Invoice
      BY DEF TypeOK, RowsOK
    <2> QED BY <1>1, <1>2, <2>1, InvoiceFields DEF SoloInv, NothingInvoiced
  <1>7. OneActing' /\ \A r \in Sessions : KnowsBooking(r)'
    BY <1>1, Ends, OnlyActor DEF SoloInv, Steps
  <1> QED BY <1>5, <1>6, <1>7 DEF SoloInv

LEMMA CancelSolo ==
    ASSUME TypeOK, SoloInv, MoneyInv, MoneyInv', OneActs, NEW s \in Sessions, CancelCommit(s)
    PROVE  SoloInv'
  <1>1. booking'.paid = 0 /\ booking'.status = "CANCELLED"
    BY CancelCommitMoney
  <1>2. /\ invoice' = InvoiceAfterCancel(invoice) /\ pc[s] = "cancel"
        /\ Goto(s, "idle", NoBooking) /\ Emit({"BookingCancelledEvent"})
    BY DEF CancelCommit, Finish
  <1>3. booking.status \in {"DRAFT", "CONFIRMED"}
    BY <1>2 DEF MoneyInv, CancelKnows
  <1>4. outbox'["BookingCompletedEvent"] = outbox["BookingCompletedEvent"]
    BY <1>2, NotCompletedAgain
  <1>5. CompletedOnce'
    BY <1>1, <1>3, <1>4 DEF SoloInv, CompletedOnce
  <1>6. LedgerBalance(ledger') = booking'.paid
    BY DEF MoneyInv, LedgerMoney, PaidMatchesLedger
  <1>7. NothingInvoiced' /\ invoice'.paid = 0
    <2>1. invoice \in Invoice /\ 0 \in Int
      BY DEF TypeOK, RowsOK
    <2> QED BY <1>2, <2>1, InvoiceFields DEF SoloInv, NothingInvoiced
  <1>8. CancelledHoldsNothing'
    BY <1>1, <1>6, <1>7 DEF CancelledHoldsNothing
  <1>9. OneActing' /\ \A r \in Sessions : KnowsBooking(r)'
    BY <1>2, Ends, OnlyActor DEF SoloInv, Steps
  <1> QED BY <1>5, <1>7, <1>8, <1>9 DEF SoloInv

(* The reload finds the booking as completeBooking read it. *)
LEMMA ReloadSolo ==
    ASSUME TypeOK, SoloInv, MoneyInv', OneActs, NEW s \in Sessions, CompleteReload(s)
    PROVE  SoloInv'
  <1> DEFINE mine == [seen[s] EXCEPT !.status = "COMPLETED"]
  <1>1. /\ pc[s] = "complete" /\ Goto(s, "save", mine)
        /\ diff' = [diff EXCEPT ![s] = ChangedColumns(mine, booking)]
        /\ UNCHANGED <<booking, tasksDone, ledger, invoice, outbox>>
    BY DEF CompleteReload
  <1>2. /\ booking \in Booking /\ pc \in [Sessions -> Steps] /\ seen \in [Sessions -> Booking]
        /\ diff \in [Sessions -> SUBSET Columns]
    BY DEF TypeOK, RowsOK, SessionsOK
  <1>3. seen[s] = booking /\ booking.status = "CONFIRMED" /\ tasksDone = NumTasks
    BY <1>1 DEF SoloInv, KnowsBooking
  <1>4. ChangedColumns(mine, booking) = {"status"} /\ mine.status = "COMPLETED"
    <2>1. mine = [booking EXCEPT !.status = "COMPLETED"]
      BY <1>3
    <2>2. \A c \in Columns : mine[c] # booking[c] <=> c = "status"
      BY <1>2, <1>3, <2>1 DEF Booking, Columns
    <2>3. mine.status = "COMPLETED"
      BY <1>2, <2>1 DEF Booking
    <2> HIDE DEF mine
    <2> QED BY <2>2, <2>3 DEF ChangedColumns, Columns
  <1> HIDE DEF mine
  <1>5. diff'[s] = {"status"} /\ seen'[s] = mine /\ pc'[s] = "save"
    BY <1>1, <1>2, <1>4 DEF Goto
  <1>6. KnowsBooking(s)'
    BY <1>1, <1>3, <1>4, <1>5 DEF KnowsBooking, OnlyStatus
  <1>7. OneActing' /\ \A r \in Sessions : KnowsBooking(r)'
    BY <1>1, <1>6, OnlyActor DEF SoloInv, Steps
  <1>8. CompletedOnce' /\ CancelledHoldsNothing'
    BY <1>1 DEF SoloInv, CompletedOnce, CancelledHoldsNothing
  <1> QED BY <1>1, <1>7, <1>8 DEF SoloInv, NothingInvoiced

LEMMA WriteSolo ==
    ASSUME TypeOK, SoloInv, MoneyInv', OneActs, NEW s \in Sessions, CompleteWrite(s)
    PROVE  SoloInv'
  <1>1. /\ pc[s] = "save" /\ Goto(s, "idle", NoBooking)
        /\ UNCHANGED <<tasksDone, ledger, invoice>>
    BY DEF CompleteWrite, Finish
  <1>2. OnlyStatus(s) /\ tasksDone = NumTasks
    BY <1>1 DEF SoloInv, KnowsBooking
  <1>3. \/ booking'.status = "COMPLETED" /\ Emit({"BookingCompletedEvent"})
        \/ booking'.status = "CONFIRMED" /\ UNCHANGED outbox
    BY <1>2, CompleteWriteFields
  <1>4. outbox["BookingCompletedEvent"] = 0
    BY <1>2 DEF OnlyStatus, SoloInv, CompletedOnce
  <1>5. CompletedOnce'
    <2>1. outbox \in [EventTypes -> Nat] /\ "BookingCompletedEvent" \in EventTypes
      BY DEF TypeOK, RowsOK, EventTypes
    <2>2. CASE booking'.status = "COMPLETED" /\ Emit({"BookingCompletedEvent"})
      <3>1. outbox'["BookingCompletedEvent"] = 1
        BY <1>4, <2>1, <2>2 DEF Emit
      <3> QED BY <1>1, <1>2, <2>2, <3>1 DEF CompletedOnce
    <2>3. CASE booking'.status = "CONFIRMED" /\ UNCHANGED outbox
      BY <1>4, <2>3 DEF CompletedOnce
    <2> QED BY <1>3, <2>2, <2>3
  <1>6. CancelledHoldsNothing'
    BY <1>3 DEF CancelledHoldsNothing
  <1>7. OneActing' /\ \A r \in Sessions : KnowsBooking(r)'
    BY <1>1, Ends, OnlyActor DEF SoloInv, Steps
  <1> QED BY <1>1, <1>5, <1>6, <1>7 DEF SoloInv, NothingInvoiced

LEMMA InvoiceForShows ==
    ASSUME NEW b PROVE InvoiceFor(b).paid = b.paid /\ InvoiceFor(b).status # "NONE"
  BY DEF InvoiceFor

LEMMA InvoiceSolo ==
    ASSUME TypeOK, SoloInv, MoneyInv', OneActs, NEW s \in Sessions, InvoiceSave(s)
    PROVE  SoloInv'
  <1>1. /\ pc[s] = "invoice" /\ Goto(s, "idle", NoBooking)
        /\ invoice' = IF invoice.status = "NONE" THEN InvoiceFor(seen[s]) ELSE invoice
        /\ UNCHANGED <<booking, tasksDone, ledger, outbox>>
    BY DEF InvoiceSave, Finish
  <1>2. booking.status = "CANCELLED" => invoice'.paid = 0
    BY <1>1, InvoiceForShows DEF SoloInv, KnowsBooking, CancelledHoldsNothing
  <1>3. CompletedOnce' /\ CancelledHoldsNothing'
    BY <1>1, <1>2 DEF SoloInv, CompletedOnce, CancelledHoldsNothing
  <1>4. NothingInvoiced'
    BY <1>1, InvoiceForShows DEF SoloInv, NothingInvoiced
  <1>5. OneActing' /\ \A r \in Sessions : KnowsBooking(r)'
    BY <1>1, Ends, OnlyActor DEF SoloInv, Steps
  <1> QED BY <1>3, <1>4, <1>5 DEF SoloInv

LEMMA SoloInit == Init /\ MoneyInv => SoloInv
  <1> SUFFICES ASSUME Init, MoneyInv PROVE SoloInv
    OBVIOUS
  <1>1. PICK price \in Pricings, deposit \in IntakeDeposits :
          booking = Created(price, deposit) /\ outbox = IntakeEvents(deposit)
    BY DEF Init
  <1>2. booking.status = "DRAFT"
    <2>1. PICK b : b = [NoBooking EXCEPT !.total = price.total, !.deposit = price.deposit]
      OBVIOUS
    <2>2. b \in Booking /\ b.status = "DRAFT" /\ deposit \in Nat
      <3>1. price.total \in Nat /\ price.deposit \in Nat /\ deposit \in Nat
        BY PricingsAssumption, IntakeAssumption
      <3> QED BY <2>1, <3>1 DEF NoBooking, Booking, Statuses, PaymentStatuses
    <2>3. booking = IF deposit = 0 THEN b ELSE WithPaid(b, deposit)
      BY <1>1, <2>1 DEF Created
    <2> QED BY <2>2, <2>3, WithPaidFields
  <1>3. outbox["BookingCompletedEvent"] = 0
    BY <1>1 DEF IntakeEvents, EventTypes
  <1>4. OneActing /\ \A s \in Sessions : KnowsBooking(s)
    BY DEF Init, OneActing, KnowsBooking
  <1> QED BY <1>2, <1>3, <1>4
          DEF SoloInv, CompletedOnce, CancelledHoldsNothing, NothingInvoiced, NoInvoice, Init
----------------------------------------------------------------------------
(* The steps of the questions, one by one. *)
LEMMA PaymentsMoney == ASSUME TypeOK, MoneyInv, PaymentsNext PROVE MoneyInv'
  <1>1. ASSUME NEW price \in Pricings, UpdatePrice(price) PROVE MoneyInv'
    BY <1>1, PriceMoney
  <1>2. CASE Confirm
    BY <1>2, ConfirmMoney
  <1>3. CASE FinishTask
    <2>1. CASE Sessions = {}
      <3>1. UNCHANGED <<booking, ledger>> /\ \A s \in Sessions : FALSE
        BY <1>3, <2>1 DEF FinishTask
      <3> QED BY <3>1, QuietMoney
    <2>2. CASE Sessions # {}
      BY <1>3, <2>2, QuietSteps
    <2> QED BY <2>1, <2>2
  <1>4. ASSUME NEW s \in Sessions, Payment(s) PROVE MoneyInv'
    <2>1. CASE ReadForPayment(s, "pay")
      BY <2>1, QuietSteps
    <2>2. ASSUME NEW amount, NEW key \in Keys \cup {NoKey}, RecordPayment(s, amount, key)
          PROVE  MoneyInv'
      BY <2>2, PaymentMoney
    <2>3. ASSUME NEW amount, NEW key, PaymentNotRecorded(s, amount, key) PROVE MoneyInv'
      BY <2>3, QuietSteps
    <2> QED BY <1>4, <2>1, <2>2, <2>3 DEF Payment
  <1>5. ASSUME NEW s \in Sessions, Refund(s) PROVE MoneyInv'
    <2>1. CASE ReadForPayment(s, "refund")
      BY <2>1, QuietSteps
    <2>2. ASSUME NEW amount \in Amounts, RecordRefund(s, amount) PROVE MoneyInv'
      BY <2>2, RefundMoney
    <2>3. ASSUME NEW amount \in Amounts, RefundRefused(s, amount) PROVE MoneyInv'
      BY <2>3, QuietSteps
    <2> QED BY <1>5, <2>1, <2>2, <2>3 DEF Refund
  <1>6. ASSUME NEW s \in Sessions, Cancellation(s) PROVE MoneyInv'
    BY <1>6, CancelReadMoney, CancelCommitMoney DEF Cancellation
  <1>7. ASSUME NEW s \in Sessions, Invoicing(s) PROVE MoneyInv'
    BY <1>7, QuietSteps DEF Invoicing
  <1> QED BY <1>1, <1>2, <1>3, <1>4, <1>5, <1>6, <1>7 DEF PaymentsNext

LEMMA CompletionMoney ==
    ASSUME TypeOK, MoneyInv, SoloInv, NEW s \in Sessions, Completion(s) PROVE MoneyInv'
  <1>1. CASE CompleteRead(s) \/ CompleteReload(s)
    BY <1>1, QuietSteps
  <1>2. CASE CompleteWrite(s)
    <2>1. OnlyStatus(s)
      BY <1>2 DEF CompleteWrite, SoloInv, KnowsBooking
    <2> QED BY <1>2, <2>1, CompleteWriteMoney
  <1> QED BY <1>1, <1>2 DEF Completion

LEMMA LifecycleSolo ==
    ASSUME TypeOK, MoneyInv, SoloInv, MoneyInv', LifecycleNext, OneActs PROVE SoloInv'
  <1>1. ASSUME NEW price \in Pricings, UpdatePrice(price) PROVE SoloInv'
    BY <1>1, PriceSolo
  <1>2. CASE Confirm
    BY <1>2, ConfirmSolo
  <1>3. CASE FinishTask
    BY <1>3, TaskSolo
  <1>4. ASSUME NEW s \in Sessions, Payment(s) PROVE SoloInv'
    <2>1. CASE ReadForPayment(s, "pay")
      BY <2>1, ReadingSolo
    <2>2. ASSUME NEW amount, NEW key \in Keys \cup {NoKey}, RecordPayment(s, amount, key)
          PROVE  SoloInv'
      BY <2>2, PaymentSolo
    <2>3. ASSUME NEW amount, NEW key, PaymentNotRecorded(s, amount, key) PROVE SoloInv'
      BY <2>3, ReadingSolo
    <2> QED BY <1>4, <2>1, <2>2, <2>3 DEF Payment
  <1>5. ASSUME NEW s \in Sessions, Refund(s) PROVE SoloInv'
    <2>1. CASE ReadForPayment(s, "refund")
      BY <2>1, ReadingSolo
    <2>2. ASSUME NEW amount \in Amounts, RecordRefund(s, amount) PROVE SoloInv'
      BY <2>2, RefundSolo
    <2>3. ASSUME NEW amount \in Amounts, RefundRefused(s, amount) PROVE SoloInv'
      BY <2>3, ReadingSolo
    <2> QED BY <1>5, <2>1, <2>2, <2>3 DEF Refund
  <1>6. ASSUME NEW s \in Sessions, Cancellation(s) PROVE SoloInv'
    BY <1>6, ReadingSolo, CancelSolo DEF Cancellation
  <1>7. ASSUME NEW s \in Sessions, Invoicing(s) PROVE SoloInv'
    BY <1>7, ReadingSolo, InvoiceSolo DEF Invoicing
  <1>8. ASSUME NEW s \in Sessions, Completion(s) PROVE SoloInv'
    BY <1>8, ReadingSolo, ReloadSolo, WriteSolo DEF Completion
  <1> QED BY <1>1, <1>2, <1>3, <1>4, <1>5, <1>6, <1>7, <1>8 DEF LifecycleNext, PaymentsNext
----------------------------------------------------------------------------
(* The invariant of the three questions. *)
QuestionsInv == /\ TypeOK
                /\ question # "all" => MoneyInv
                /\ question = "solo" => SoloInv

LEMMA QuestionsInit == MCInit => QuestionsInv
  BY TypeInit, MoneyInit, SoloInit DEF MCInit, QuestionsInv

LEMMA QuestionsStep ==
    ASSUME QuestionsInv, MCNext PROVE QuestionsInv'
  <1>1. TypeOK' /\ question' = question
    <2>1. [Next]_vars
      BY QuestionsAreSteps
    <2> QED BY <2>1, TypeStep DEF QuestionsInv, MCNext
  <1>2. CASE question = "all"
    BY <1>1, <1>2 DEF QuestionsInv
  <1>3. CASE question = "payments"
    <2>1. PaymentsNext
      BY <1>3 DEF MCNext
    <2> QED BY <1>1, <1>3, <2>1, PaymentsMoney DEF QuestionsInv
  <1>4. CASE question = "solo"
    <2>1. LifecycleNext /\ OneActs
      BY <1>4 DEF MCNext
    <2>2. MoneyInv'
      BY <1>4, <2>1, PaymentsMoney, CompletionMoney DEF QuestionsInv, LifecycleNext
    <2> QED BY <1>1, <1>4, <2>1, <2>2, LifecycleSolo DEF QuestionsInv
  <1> QED BY <1>2, <1>3, <1>4 DEF MCNext

LEMMA QuestionsNext == QuestionsInv /\ [MCNext]_MCvars => QuestionsInv'
  <1> SUFFICES ASSUME QuestionsInv, [MCNext]_MCvars PROVE QuestionsInv'
    OBVIOUS
  <1>1. CASE MCNext
    BY <1>1, QuestionsStep
  <1>2. CASE UNCHANGED MCvars
    <2>1. TypeOK'
      BY <1>2, TypeStep DEF QuestionsInv, MCvars, vars
    <2>2. question # "all" => MoneyInv'
      BY <1>2, QuietMoney DEF QuestionsInv, MCvars
    <2>3. question = "solo" => SoloInv'
      <3>1. /\ (\A s \in Sessions : KnowsBooking(s)) => \A s \in Sessions : KnowsBooking(s)'
            /\ OneActing => OneActing'
            /\ NothingInvoiced => NothingInvoiced'
        BY <1>2 DEF MCvars, KnowsBooking, OnlyStatus, OpenForPayment, OneActing, NothingInvoiced
      <3>2. /\ CompletedOnce => CompletedOnce'
            /\ CancelledHoldsNothing => CancelledHoldsNothing'
        BY <1>2 DEF MCvars, CompletedOnce, CancelledHoldsNothing
      <3> QED BY <3>1, <3>2 DEF QuestionsInv, SoloInv
    <2> QED BY <1>2, <2>1, <2>2, <2>3 DEF QuestionsInv, MCvars
  <1> QED BY <1>1, <1>2

LEMMA QuestionsHold == MCSpec => []QuestionsInv
  BY QuestionsInit, QuestionsNext, PTL DEF MCSpec

(* recordPayment, recordRefund, confirmBooking, cancelBooking, update:      *)
(* whoever runs them and in whatever order, the paid amount is the balance  *)
(* of the ledger, the refunded amount the sum of its refund rows, and the   *)
(* payment status what the amounts give, as long as nobody voids or posts   *)
(* by hand and no completion overlaps another handler.                      *)
THEOREM MoneyStaysInStep == MCSpec => []MoneyInStep
  <1>1. QuestionsInv => MoneyInStep
    BY DEF QuestionsInv, MoneyInv, LedgerMoney, MoneyInStep
  <1> QED BY <1>1, QuestionsHold, PTL

(* One handler at a time, a booking is completed once and with all its      *)
(* tasks done, and a cancelled one holds none of the client's money: not    *)
(* as paid, not in the ledger, not on the invoice.                          *)
THEOREM EndsStayInStep == MCSpec => []EndsInStep
  <1>1. QuestionsInv => EndsInStep
    BY DEF QuestionsInv, SoloInv, EndsInStep
  <1> QED BY <1>1, QuestionsHold, PTL
----------------------------------------------------------------------------
(* The invoice.  A session that is making one holds what is paid, and the   *)
(* document shows it, unless the paid amount changed in between.            *)
InvoiceKnows == \A s \in Sessions : pc[s] = "invoice" => seen[s].paid = booking.paid

InvoiceShows == invoice.status # "NONE" => invoice.paid = booking.paid

InvoiceInv == question # "all" /\ ~ raced => InvoiceKnows /\ InvoiceShows

(* A step that races no invoice. *)
Unraced == booking'.paid = booking.paid
              \/ ((\A s \in Sessions : pc[s] # "invoice")
                     /\ (booking.status = "DRAFT" => invoice.status = "NONE"))

LEMMA StillKnows ==
    ASSUME InvoiceKnows, Unraced,
           \A s \in Sessions : pc'[s] = "invoice" => pc[s] = "invoice" /\ seen'[s] = seen[s]
    PROVE  InvoiceKnows'
  BY DEF InvoiceKnows, Unraced

LEMMA LeavesInvoices ==
    ASSUME TypeOK, NEW s \in Sessions, NEW step \in Steps \ {"invoice"}, NEW copy,
           Goto(s, step, copy)
    PROVE  \A r \in Sessions : pc'[r] = "invoice" => pc[r] = "invoice" /\ seen'[r] = seen[r]
  BY DEF TypeOK, SessionsOK, Goto

LEMMA PriceInvoice ==
    ASSUME TypeOK, NEW price \in Pricings, UpdatePrice(price) PROVE booking'.paid = booking.paid
  <1> DEFINE priced == [booking EXCEPT !.total = price.total, !.deposit = price.deposit]
  <1>1. booking \in Booking /\ price.total \in Nat /\ price.deposit \in Nat
    BY PricingsAssumption DEF TypeOK, RowsOK
  <1>2. priced \in Booking /\ booking.paid \in Nat
    BY <1>1 DEF Booking
  <1>3. booking' = WithPaid(priced, booking.paid)
    BY DEF UpdatePrice
  <1> HIDE DEF priced
  <1> QED BY <1>2, <1>3, WithPaidFields

(* The steps of no session. *)
LEMMA RowInvoice ==
    ASSUME TypeOK, InvoiceKnows, InvoiceShows, Unraced,
           \/ \E price \in Pricings : UpdatePrice(price)
           \/ Confirm \/ FinishTask
    PROVE  InvoiceKnows' /\ InvoiceShows'
  <1>1. UNCHANGED <<invoice, pc, seen>>
    BY DEF UpdatePrice, Confirm, FinishTask
  <1>2. booking.status = "DRAFT" \/ booking'.paid = booking.paid
    BY DEF Confirm, CanTransition, AllowedTransitions, UpdatePrice, FinishTask
  <1> QED BY <1>1, <1>2, StillKnows DEF InvoiceShows, Unraced

(* The steps that write neither the booking nor the invoice. *)
LEMMA ReadingInvoice ==
    ASSUME TypeOK, InvoiceKnows, InvoiceShows, NEW s \in Sessions,
           \/ ReadForPayment(s, "pay") \/ ReadForPayment(s, "refund")
           \/ CompleteRead(s) \/ CompleteReload(s) \/ CancelRead(s)
           \/ \E a, k : PaymentNotRecorded(s, a, k)
           \/ \E a : RefundRefused(s, a)
    PROVE  InvoiceKnows' /\ InvoiceShows'
  <1>1. /\ UNCHANGED <<booking, invoice>>
        /\ \E step \in {"pay", "refund", "cancel", "complete", "save", "idle"} :
              \E copy : Goto(s, step, copy)
    BY Zenon DEF ReadForPayment, CompleteRead, CompleteReload, CancelRead, PaymentNotRecorded,
       RefundRefused, Finish
  <1>2. PICK step \in Steps \ {"invoice"} : \E copy : Goto(s, step, copy)
    BY <1>1 DEF Steps
  <1>3. Unraced
    BY <1>1 DEF Unraced
  <1> QED BY <1>1, <1>2, <1>3, LeavesInvoices, StillKnows DEF InvoiceShows

LEMMA WritingInvoice ==
    ASSUME TypeOK, MoneyInv, InvoiceKnows, InvoiceShows, Unraced, NEW s \in Sessions,
           \/ \E amount : \E key \in Keys \cup {NoKey} : RecordPayment(s, amount, key)
           \/ \E amount \in Amounts : RecordRefund(s, amount)
           \/ CancelCommit(s)
           \/ CompleteWrite(s) /\ OnlyStatus(s)
    PROVE  InvoiceKnows' /\ InvoiceShows'
  <1>1. Goto(s, "idle", NoBooking)
    BY DEF RecordPayment, RecordRefund, CancelCommit, CompleteWrite, Finish
  <1>2. InvoiceKnows'
    BY <1>1, LeavesInvoices, StillKnows DEF Steps
  <1>3. invoice \in Invoice /\ 0 \in Int
    BY DEF TypeOK, RowsOK
  <1>4. ASSUME NEW amount, NEW key \in Keys \cup {NoKey}, RecordPayment(s, amount, key)
        PROVE  InvoiceShows'
    <2>1. amount \in Int /\ booking'.paid = booking.paid + amount
      BY <1>4, PaymentPaid
    <2>2. invoice' = InvoiceAfterPayment(invoice, amount)
      BY <1>4 DEF RecordPayment
    <2> QED BY <1>3, <2>1, <2>2, InvoiceFields DEF InvoiceShows
  <1>5. ASSUME NEW amount \in Amounts, RecordRefund(s, amount) PROVE InvoiceShows'
    <2>1. amount \in Int /\ booking'.paid = booking.paid - amount
      BY <1>5, RefundPaid
    <2>2. invoice' = InvoiceAfterRefund(invoice, amount)
      BY <1>5 DEF RecordRefund
    <2> QED BY <1>3, <2>1, <2>2, InvoiceFields DEF InvoiceShows
  <1>6. ASSUME CancelCommit(s) PROVE InvoiceShows'
    <2>1. booking'.paid = 0
      BY <1>6, CancelCommitMoney
    <2>2. invoice' = InvoiceAfterCancel(invoice)
      BY <1>6 DEF CancelCommit
    <2>3. /\ invoice.status = "NONE" => InvoiceAfterCancel(invoice) = invoice
          /\ invoice.status # "NONE" => InvoiceAfterCancel(invoice).paid = 0
      BY <1>3, InvoiceFields
    <2> QED BY <2>1, <2>2, <2>3 DEF InvoiceShows
  <1>7. ASSUME CompleteWrite(s) /\ OnlyStatus(s) PROVE InvoiceShows'
    <2>1. booking'.paid = booking.paid
      BY <1>7, CompleteWriteFields
    <2>2. UNCHANGED invoice
      BY <1>7 DEF CompleteWrite
    <2> QED BY <2>1, <2>2 DEF InvoiceShows
  <1> QED BY <1>2, <1>4, <1>5, <1>6, <1>7

(* The two halves of createInvoice. *)
LEMMA MakingInvoice ==
    ASSUME TypeOK, InvoiceKnows, InvoiceShows, NEW s \in Sessions, Invoicing(s)
    PROVE  InvoiceKnows' /\ InvoiceShows'
  <1>1. CASE InvoiceRead(s)
    <2>1. Goto(s, "invoice", booking) /\ UNCHANGED <<booking, invoice>>
      BY <1>1 DEF InvoiceRead
    <2> QED BY <2>1 DEF Goto, TypeOK, SessionsOK, InvoiceKnows, InvoiceShows
  <1>2. CASE InvoiceSave(s)
    <2>1. /\ pc[s] = "invoice" /\ Goto(s, "idle", NoBooking) /\ UNCHANGED booking
          /\ invoice' = IF invoice.status = "NONE" THEN InvoiceFor(seen[s]) ELSE invoice
      BY <1>2 DEF InvoiceSave, Finish
    <2>2. InvoiceKnows'
      BY <2>1, LeavesInvoices, StillKnows DEF Steps, Unraced
    <2>3. seen[s].paid = booking.paid
      BY <2>1 DEF InvoiceKnows
    <2> QED BY <2>1, <2>2, <2>3, InvoiceForShows DEF InvoiceShows
  <1> QED BY <1>1, <1>2 DEF Invoicing

LEMMA PaymentsInvoice ==
    ASSUME TypeOK, MoneyInv, InvoiceKnows, InvoiceShows, Unraced, PaymentsNext
    PROVE  InvoiceKnows' /\ InvoiceShows'
  <1>1. CASE (\E price \in Pricings : UpdatePrice(price)) \/ Confirm \/ FinishTask
    BY <1>1, RowInvoice
  <1>2. ASSUME NEW s \in Sessions, Payment(s) PROVE InvoiceKnows' /\ InvoiceShows'
    <2>1. CASE ReadForPayment(s, "pay")
      BY <2>1, ReadingInvoice
    <2>2. ASSUME NEW amount, NEW key \in Keys \cup {NoKey}, RecordPayment(s, amount, key)
          PROVE  InvoiceKnows' /\ InvoiceShows'
      BY <2>2, WritingInvoice
    <2>3. ASSUME NEW amount, NEW key, PaymentNotRecorded(s, amount, key)
          PROVE  InvoiceKnows' /\ InvoiceShows'
      BY <2>3, ReadingInvoice
    <2> QED BY <1>2, <2>1, <2>2, <2>3 DEF Payment
  <1>3. ASSUME NEW s \in Sessions, Refund(s) PROVE InvoiceKnows' /\ InvoiceShows'
    BY <1>3, ReadingInvoice, WritingInvoice DEF Refund
  <1>4. ASSUME NEW s \in Sessions, Cancellation(s) PROVE InvoiceKnows' /\ InvoiceShows'
    BY <1>4, ReadingInvoice, WritingInvoice DEF Cancellation
  <1>5. ASSUME NEW s \in Sessions, Invoicing(s) PROVE InvoiceKnows' /\ InvoiceShows'
    BY <1>5, MakingInvoice
  <1> QED BY <1>1, <1>2, <1>3, <1>4, <1>5 DEF PaymentsNext

LEMMA InvoiceNext ==
    QuestionsInv /\ InvoiceInv /\ [MCNext]_MCvars => InvoiceInv'
  <1> SUFFICES ASSUME QuestionsInv, InvoiceInv, [MCNext]_MCvars,
                      question' # "all", ~ raced'
               PROVE  InvoiceKnows' /\ InvoiceShows'
    BY DEF InvoiceInv
  <1>1. CASE UNCHANGED MCvars
    BY <1>1 DEF MCvars, InvoiceInv, InvoiceKnows, InvoiceShows
  <1>2. CASE MCNext
    <2>1. /\ question # "all" /\ ~ raced
          /\ ~ (booking'.paid # booking.paid
                  /\ ((\E s \in Sessions : pc[s] = "invoice")
                        \/ (booking.status = "DRAFT" /\ invoice.status # "NONE")))
      BY <1>2 DEF MCNext
    <2>2. Unraced
      BY <2>1 DEF Unraced
    <2>3. TypeOK /\ MoneyInv /\ InvoiceKnows /\ InvoiceShows
      BY <2>1 DEF QuestionsInv, InvoiceInv
    <2>4. CASE PaymentsNext
      BY <2>2, <2>3, <2>4, PaymentsInvoice
    <2>5. ASSUME question = "solo", NEW s \in Sessions, Completion(s)
          PROVE  InvoiceKnows' /\ InvoiceShows'
      <3>1. CompleteWrite(s) => OnlyStatus(s)
        BY <2>5 DEF CompleteWrite, QuestionsInv, SoloInv, KnowsBooking
      <3> QED BY <2>2, <2>3, <2>5, <3>1, ReadingInvoice, WritingInvoice DEF Completion
    <2> QED BY <1>2, <2>1, <2>4, <2>5 DEF MCNext, LifecycleNext
  <1> QED BY <1>1, <1>2

LEMMA InvoiceInit == MCInit => InvoiceInv
  BY DEF MCInit, Init, InvoiceInv, InvoiceKnows, InvoiceShows, NoInvoice

(* createInvoice and the invoice's part in payments, refunds and            *)
(* cancellation: the document shows as paid what the booking shows, unless  *)
(* the amount changed between createInvoice's two statements, or the        *)
(* deposit was posted to a booking that had an invoice already.             *)
THEOREM InvoicesStayInStep == MCSpec => []InvoiceInStep
  <1>1. InvoiceInv => InvoiceInStep
    BY DEF InvoiceInv, InvoiceShows, InvoiceInStep
  <1> QED BY <1>1, InvoiceInit, InvoiceNext, QuestionsHold, PTL DEF MCSpec
----------------------------------------------------------------------------
(* What a step does to a booking that has ended. *)
LEMMA EndedStays ==
    ASSUME TypeOK, MoneyInv, PaymentsNext, booking.status \in {"COMPLETED", "CANCELLED"}
    PROVE  booking'.status = booking.status
  <1>1. ~ Confirm /\ \A price \in Pricings : ~ UpdatePrice(price)
    BY DEF Confirm, CanTransition, AllowedTransitions, UpdatePrice
  <1>2. \A s \in Sessions : ~ CancelCommit(s)
    BY DEF CancelCommit, MoneyInv, CancelKnows
  <1>3. ASSUME NEW s \in Sessions, NEW amount, NEW key \in Keys \cup {NoKey},
               RecordPayment(s, amount, key)
        PROVE  booking'.status = booking.status
    BY <1>3, PaymentPaid
  <1>4. ASSUME NEW s \in Sessions, NEW amount \in Amounts, RecordRefund(s, amount)
        PROVE  booking'.status = booking.status
    BY <1>4, RefundPaid
  <1>5. ASSUME NEW s \in Sessions, Payment(s) PROVE booking'.status = booking.status
    BY <1>3, <1>5 DEF Payment, ReadForPayment, PaymentNotRecorded
  <1>6. ASSUME NEW s \in Sessions, Refund(s) PROVE booking'.status = booking.status
    BY <1>4, <1>6 DEF Refund, ReadForPayment, RefundRefused
  <1>7. ASSUME NEW s \in Sessions, Cancellation(s) \/ Invoicing(s)
        PROVE  booking'.status = booking.status
    BY <1>2, <1>7 DEF Cancellation, CancelRead, Invoicing, InvoiceRead, InvoiceSave
  <1> QED BY <1>1, <1>5, <1>6, <1>7 DEF PaymentsNext, FinishTask

(* "Once CANCELLED or COMPLETED, status is terminal", as long as no         *)
(* completion overlaps another handler.                                     *)
THEOREM EndsAreTerminal == MCSpec => TerminalInStep
  <1>1. ASSUME QuestionsInv, [MCNext]_MCvars, question # "all",
               booking.status \in {"COMPLETED", "CANCELLED"}
        PROVE  booking'.status = booking.status
    <2>1. CASE UNCHANGED MCvars
      BY <2>1 DEF MCvars
    <2>2. CASE PaymentsNext
      BY <1>1, <2>2, EndedStays DEF QuestionsInv
    <2>3. ASSUME question = "solo", NEW s \in Sessions, Completion(s)
          PROVE  booking'.status = booking.status
      <3>1. ~ CompleteWrite(s)
        BY <1>1, <2>3 DEF CompleteWrite, QuestionsInv, SoloInv, KnowsBooking, OnlyStatus
      <3> QED BY <2>3, <3>1 DEF Completion, CompleteRead, CompleteReload
    <2> QED BY <1>1, <2>1, <2>2, <2>3 DEF MCNext, LifecycleNext
  <1> QED BY <1>1, QuestionsHold, PTL DEF MCSpec, TerminalInStep

LEMMA LastAppended ==
    ASSUME NEW rows \in Seq(Row), NEW row, NEW next, next = Append(rows, row)
    PROVE  next[Len(next)] = row
  <1>1. rows \in Seq(Row \cup {row})
    OBVIOUS
  <1>2. Len(Append(rows, row)) = Len(rows) + 1 /\ Append(rows, row)[Len(rows) + 1] = row
    BY <1>1
  <1> QED BY <1>2

LEMMA LongerDiffers ==
    ASSUME NEW rows \in Seq(Row), NEW next, Len(next) > Len(rows) PROVE next # rows
  <1>1. Len(rows) \in Nat
    OBVIOUS
  <1> QED BY <1>1

OtherRow == \E row : ledger' = Append(ledger, row) /\ row.category # "Booking Payment"

LEMMA PostsOther ==
    ASSUME NEW c, NEW t, c # "Booking Payment",
           \E a : ledger' = Append(ledger, NewRow(c, t, a, NoKey))
    PROVE  OtherRow
  <1>1. PICK a, row : row = NewRow(c, t, a, NoKey) /\ ledger' = Append(ledger, row)
    OBVIOUS
  <1>2. row.category = c
    BY <1>1 DEF NewRow
  <1> QED BY <1>1, <1>2 DEF OtherRow

(* What the other handlers post, if they post anything. *)
LEMMA OtherRows ==
    ASSUME \/ \E price \in Pricings : UpdatePrice(price)
           \/ Confirm \/ FinishTask
           \/ \E s \in Sessions : Refund(s) \/ Cancellation(s) \/ Invoicing(s) \/ Completion(s)
    PROVE  ledger' = ledger \/ OtherRow
  <1>2. CASE (\E price \in Pricings : UpdatePrice(price)) \/ FinishTask
    BY <1>2 DEF UpdatePrice, FinishTask
  <1>3. CASE Confirm
    <2>1. ledger' = ledger
             \/ \E a : ledger' = Append(ledger, NewRow("Booking Deposit", "INCOME", a, NoKey))
      BY <1>3 DEF Confirm
    <2> QED BY <2>1, PostsOther
  <1>4. ASSUME NEW s \in Sessions, Refund(s)
        PROVE  ledger' = ledger \/ OtherRow
    <2>1. ledger' = ledger
             \/ \E a : ledger' = Append(ledger, NewRow("Booking Refund", "REFUND", a, NoKey))
      BY <1>4 DEF Refund, ReadForPayment, RecordRefund, RefundRefused
    <2> QED BY <2>1, PostsOther
  <1>5. ASSUME NEW s \in Sessions, Cancellation(s)
        PROVE  ledger' = ledger \/ OtherRow
    <2>1. ledger' = ledger
             \/ \E a : ledger' = Append(ledger, NewRow("Booking Reversal", "INCOME", a, NoKey))
      BY <1>5 DEF Cancellation, CancelRead, CancelCommit, WithCancelReversal
    <2> QED BY <2>1, PostsOther
  <1>6. ASSUME NEW s \in Sessions, Invoicing(s) \/ Completion(s) PROVE ledger' = ledger
    BY <1>6 DEF Invoicing, InvoiceRead, InvoiceSave, Completion, CompleteRead, CompleteReload,
       CompleteWrite
  <1> QED BY <1>2, <1>3, <1>4, <1>5, <1>6

LEMMA PaymentRowsAreOpen ==
    ASSUME TypeOK, SoloInv, LifecycleNext, Len(ledger') > Len(ledger),
           ledger'[Len(ledger')].category = "Booking Payment"
    PROVE  OpenForPayment(booking)
  <1>1. ledger \in Seq(Row)
    BY DEF TypeOK, RowsOK
  <1>2. \A row : ledger' = Append(ledger, row) => row.category = "Booking Payment"
    BY <1>1, LastAppended
  <1>3. ledger' # ledger
    BY <1>1, LongerDiffers
  <1>4. PICK s \in Sessions : Payment(s)
    BY <1>2, <1>3, OtherRows DEF LifecycleNext, PaymentsNext, OtherRow
  <1>5. pc[s] = "pay"
    BY <1>3, <1>4 DEF Payment, ReadForPayment, RecordPayment, PaymentNotRecorded
  <1> QED BY <1>5 DEF SoloInv, KnowsBooking

(* "Payment only for confirmed or completed": one handler at a time, a      *)
(* payment row is added only to the ledger of a booking in one of these     *)
(* statuses.                                                                *)
THEOREM PaymentsWhileOpen == MCSpec => PaymentInStep
  <1>1. ASSUME QuestionsInv, [MCNext]_MCvars, question = "solo", Len(ledger') > Len(ledger),
               ledger'[Len(ledger')].category = "Booking Payment"
        PROVE  booking.status \in {"CONFIRMED", "COMPLETED"}
    <2>1. TypeOK /\ SoloInv /\ ledger \in Seq(Row)
      BY <1>1 DEF QuestionsInv, TypeOK, RowsOK
    <2>2. CASE UNCHANGED MCvars
      BY <1>1, <2>1, <2>2, LongerDiffers DEF MCvars
    <2>3. CASE MCNext
      <3>1. LifecycleNext
        BY <1>1, <2>3 DEF MCNext
      <3> QED BY <1>1, <2>1, <3>1, PaymentRowsAreOpen DEF OpenForPayment
    <2> QED BY <1>1, <2>2, <2>3
  <1> QED BY <1>1, QuestionsHold, PTL DEF MCSpec, PaymentInStep
=============================================================================
