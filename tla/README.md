# Verification of the ERP backend

TLA+ models of the parts of the backend where concurrent actors meet: money, commissions,
events, sessions, schedules, caches, queues and the schema itself; the TLC runs that check
them on small instances, and TLAPS proofs of what matters most for every instance. Paths
below are relative to the repository; `modules/` stands for `src/modules/`, `common/` for
`src/common/`.

The backend is a NestJS monolith on PostgreSQL (TypeORM, READ COMMITTED), with Redis (locks,
BullMQ queues, caches, flags). Several instances of the process serve requests, run cron jobs
and process queues at the same time. What makes it hard is therefore not any single handler
but what handlers of different requests, jobs and workers do between each other's statements:
a row read without a lock and saved later, a side effect made outside the transaction that
records it, a lease, a lock or a cache entry that runs out under its holder.

## Files

| Module | Models |
| --- | --- |
| `BookingLedger` | one booking, its ledger rows, its invoice |
| `TaskCommission` | tasks, assignees and the commissions in wallets |
| `DurableDelivery`, `OutboxDelivery` | what the durable event path promises; how outbox, relay, queue, consumers and inbox do it |
| `DistributedLock` | the Redis lock with its token and its time to live |
| `PayrollPayout` | payroll runs, payouts, the payout relay and the gateway, under that lock |
| `PayoutWatch` | the jobs that look for payouts the relay left behind: the nightly reconciliation, the check of stuck payouts |
| `RecurringTransactions` | the nightly job of recurring transactions, under that lock |
| `StaffSchedule` | bookings in time, the staff check, availability slots, assignments |
| `AuthSessions` | one account: password, sessions, lockout, MFA, verification, deactivation |
| `PlatformTenants` | one tenant: status, deletion and purge, the guard's cache, impersonation |
| `WebhookDelivery` | one event on its two paths to the webhooks of its tenant |
| `MessageDelivery` | one event on its two paths to mails and notifications, the mail queue, reading and deleting notifications |
| `AuditChain` | the hash chain of the audit trail and its two kinds of writer |
| `IdempotentRequests` | the retries of one idempotency key |
| `TimeTracking` | the timers of one user |
| `ClientRecords` | packages with their cached list, one client, their events |
| `StaffRecords` | user, wallet and profile of one employee |
| `SchemaOps`, `MigrationsFirst`, `MigrationsSecond`, `MigrationsThird`, `EntitySchema`, `SchemaHistory`, `SchemaUpgrade` | the tables and columns each migration adds and drops, those the entities name, the order of the migrations, and migrating, reverting and serving |
| `MCBookingLedger`, `MCBookingQuestions`, `MCTaskCommission`, `MCTaskPlots`, `MCOutboxDelivery`, `MCPayroll`, `MCBackOffice` | instances for TLC |
| `BookingProofs`, `TaskCommissionProofs`, `OutboxDeliveryProofs`, `PayrollProofs`, `AuthSessionsProofs`, `SubsystemProofs`, `BackOfficeProofs` | theorems; `SubsystemProofs` has those about webhooks, messages, the schedule, the audit trail, idempotency keys, staff records and timers, `BackOfficeProofs` those about packages and clients, the tenant, and the composition |
| `SumFacts` | lemmas about sums over finite sets |

`PROJECT.json` has the components, the runs, a mutation for each property, the source lines of
every definition, the hazards, the findings and the theorems. Run a check with
`tlc -workers 2 -config booking.cfg MCBookingQuestions.tla`, the proofs of a module with
`tlapm BookingProofs.tla`.

## Inventory

**Bookings** (`modules/bookings`). State: `bookings` rows (status, time, prices, amounts paid and
refunded, payment status). Operations: intake, update, confirm (spawns tasks, asks for an
invoice), record payment, record refund, cancel, complete, reschedule, duplicate, soft delete.
Most handlers take the row `pessimistic_write`; payments and refunds look at the status before
they do; `update` decides on a copy it read before and reads again under the lock; `completeBooking`
takes no lock at all. Calls finance and the staff check in its transaction and writes outbox rows.
Correct when: the amounts shown are those of the ledger, the status only moves forward, each lifecycle event is published once, a cancelled booking
holds none of the client's money, a confirmed booking has its staff and keeps its time.

**Finance** (`modules/finance`). State: `transactions` rows (the ledger), `invoices`,
`employee_wallets`, `payouts`, recurring transactions, vendors, purchase invoices. Correct when:
the ledger is history, a void takes back what it voids, an idempotency key is charged once,
wallets match what was earned, a payout is paid once and settled, a due date is posted once.

**Tasks** (`modules/tasks`). State: `tasks`, `task_assignees`, `time_entries`. Operations: start,
edit, assign, add, promote and remove assignees, complete, track time. Moves commissions in
wallets. `findTaskWithLock` guards the handlers that move money; start and edit read without it.
Correct when: a commission accrues once, a task has one lead, one timer runs at a time.

**Durable events** (`common/services/outbox-relay.service.ts`, `consumer-inbox.service.ts`, the
`outbox-*.consumer.ts` files). State: `outbox_events`, BullMQ jobs, `consumer_inbox`. Producers
write a row in their transaction; a cron of ten seconds leases due rows and adds a job per event;
the processor calls the consumers of the event's type in order; each asks the inbox, makes its
side effect and records the event. Correct when: no committed event is lost, an event that is
done has reached each consumer, a recorded event is not acted on again, every event ends.

**Webhooks, mail, notifications** (`modules/webhooks`, `modules/mail`, `modules/notifications`): the
effects of those consumers, each with a second path over the in-process event bus; a kill switch
chooses between the paths. State: webhook and e-mail jobs, delivery rows, a circuit breaker,
notification rows. Correct when: everybody is told by one of the paths, twice only for a reason.

**Payroll and staff** (`modules/hr`). State: profiles, wallets, payouts, availability slots,
attendance. Operations: the monthly run in pages under a lock, the payout relay, records.
Correct when: nobody is skipped, commissions are conserved, what the books say of a transfer is
what the gateway did, a deleted user is off the payroll.

**Distributed lock** (`common/services/distributed-lock.service.ts`): SET NX with a token and a time
to live, released by a script that compares the token. Used by payroll, the payout relay, the
recurring job and tenant deletion.

**Authentication** (`modules/auth`, `modules/users`): users, refresh tokens with rotation and a grace
time, reset and verification tokens, temporary MFA tokens, a lockout counter in the cache.
Correct when: a credential is used once, sessions end with the password or the account.

**Tenants and platform** (`modules/tenants`, `modules/platform`): the tenant's status and the date of
its deletion, the guard's cache, lifecycle events, impersonation sessions, the deletion job.

**Audit trail** (`modules/audit`), **idempotency interceptor** (`common/interceptors`), **catalog** and
**clients**, **database schema** (`src/database`: 104 migrations, `migrate.ts`, the gate that waits for
them).

**The rest** — reports, dashboard, exports, vendors, categories, privacy, health, telemetry: see
`components` in `PROJECT.json` with the reason each is not modelled.

How they interact:

```
 requests ─► idempotency ─► tenant guard ─► handlers ─► audit chain
                                             │
        ┌──────────────┬─────────────┬───────┴──────┬────────────┐
        ▼              ▼             ▼              ▼            ▼
  auth, users   catalog, clients  bookings ◄──► tasks ──► time entries
        │              │             │  │  └─ staff check, slots │
        │ user deleted │             │  └► finance: ledger, invoice, wallets ◄─ payroll, relay,
        ▼              │             │                                          recurring job
   staff records       └──► outbox_events ──► relay ──► queue ──► consumers       (under the lock)
                                                         ├► metrics, invoice
                                                         ├► webhook jobs
                                                         └► mails, notifications
```

### What is hard here

1. Entities read without a lock and saved whole. TypeORM's `save` reloads the row and updates the
   columns in which the entity in memory differs; an old copy undoes what others wrote. It is the
   pattern of most handlers: `completeBooking`, `startTask`, the relay, tenants, users, profiles,
   packages, clients, slots, time entries, recurring transactions.
2. Checks made before the transaction that acts on them, or that hold nothing: payments, the staff
   check, slots, running timers, tokens, idempotency keys.
3. Handlers called in legal but unplanned orders: void then cancel, remove an assignee of a finished
   task, revert then migrate.
4. Side effects beside their record: the gateway, mails, webhooks, metrics; crashes, retries, stalled
   jobs, lost answers; one event on two paths with a switch between them.
5. Locks, leases and cache entries that run out, or are stale, under their holder.

`hazards` in `PROJECT.json` lists each at its line, with the properties that watch it. Where the code does
go wrong a property exempts exactly that step, and the note of the hazard says so; what the property
then claims is that nothing else has the same effect.

## The models

### BookingLedger

One booking, since no handler works on two at once. The variables are the
`bookings` row, how many of its tasks are completed, its `transactions` rows in
order of insertion, its `invoices` row, counts of the outbox rows written, who
holds the row lock across two steps, and for each of `Sessions` where its handler
is (`pc`), the copy of the booking it holds (`seen`) and the columns its save is
about to update (`diff`).

A handler that works entirely under the row lock is one action (`UpdatePrice`,
`Confirm`, `VoidTransaction`, `ManualTransaction`); such an action waits for
`RowFree`. Others are split where the code lets go:

| Handler | Actions |
| --- | --- |
| `recordPayment` | `ReadForPayment`, then `RecordPayment` or `PaymentNotRecorded` (key already charged, refused) |
| `recordRefund` | `ReadForPayment`, then `RecordRefund` or `RefundRefused` |
| `cancelBooking` | `CancelRead` (locks the row, reads the tasks unlocked), `CancelCommit` |
| `completeBooking` | `CompleteRead`, `CompleteReload`, `CompleteWrite` |
| `createInvoice` | `InvoiceRead`, `InvoiceSave` |

What a transaction rolls back is a step that changes nothing but the session. The
database's CHECK constraint on status and `cancelled_at` is `RowAllowed`. Rows
posted by hand have one category, "Manual". A booking with total 0 is left out of
`PaymentStatusInSync`: it is created UNPAID and derived FULLY_PAID at its first
mutation. Not modelled: soft delete, duplicate, currencies; rescheduling is in `StaffSchedule`.

### TaskCommission

The tasks of confirmed bookings, `task_assignees` and `employee_wallets`. The
handlers that call `findTaskWithLock` hold the task to the end of their
transaction and are one action each, their wallet changes included; when one
wallet does not cover its part the whole is rolled back and the action is not
enabled. `startTask` and `update` are split as above: `ReadTask`, `SaveReload`,
`SaveWrite`. `cancelBooking` keeps the booking row from `CancelRead` to `CancelCommit`
(or `CancelRefused`), but not its tasks.

A save of an entity that has both the assigned user's column and the loaded
relation may write either (`AssignedAfter`); both are allowed. `slips` is a history
variable: it records which of three irregular kinds of step have happened, so
that properties can say what they do not claim. "legacy" is a commission that
goes over `task.assignedUserId` instead of an assignee (`assignTask` adds it to
pending, `completeTask` then adds it to payable without taking it from pending);
"late" is an assignee added to or removed from a finished task; "undone" is a save
that takes a task out of COMPLETED or CANCELLED.

### OutboxDelivery and DurableDelivery

`DurableDelivery` is what a producer may rely on: accepted events reach their
consumers, a receipt follows the effect, an event is closed when every consumer
has its receipt or was switched off, nothing is taken back. `OutboxDelivery` is the
code: `row` (`outbox_events`), `mine` (each relay run's copies), `job` (the BullMQ job
of the event), `worker` (where each processor is in the route of its event),
`enabled` (kill switches), `inbox` (`consumer_inbox`), `applied` (how often each
side effect happened), and the history variables `waived`, `finished`, `faults`.

A relay is one run of `processOutbox`; runs overlap within and between instances.
`Claim` takes any non-empty set of due rows up to the batch size (`FOR UPDATE SKIP
LOCKED` makes the set depend on other claims; the order within it is not modelled).
`SaveRow` overwrites the row with the copy, as `save(event)` does. `LeaseOver` stands for
the end of a lease and of a backoff. BullMQ is modelled from how it is used: an
`add` with the id of a job it has does nothing, completed jobs are removed, failed
ones kept, an active job whose lock ran out goes back to the queue once and fails
the second time. Faults are actions that use up `MaxFaults`: a relay or worker
process ends, an add throws before or after the queue took the job, a consumer
throws, a lock runs out under a live worker, a kill switch flips, an operator
replays. Not modelled: the content of events, the delivery of the same events by
the in-process event bus (see `WebhookDelivery` and `MessageDelivery`).

### DistributedLock and PayrollPayout

`DistributedLock` is `withLock`: a job enters when the key is free (`Acquire`), leaves by the script
that compares its token (`Release`), or dies and leaves the key behind (`Abandon`); `Expire` is
the time to live, which nothing extends. `overrun` holds the jobs that are still inside after
their key has gone.

`PayrollPayout` has scheduled runs under `RunLock`, requested runs under no lock, and relays under
`RelayLock`. A run reads the staff page by page (`LoadPage`, an offset in the order of the ids, so that a
hiring or a removal meanwhile shifts the pages), checks a
payout's key before its transaction (`CheckKey`) and pays an employee in one transaction
(`PayEmployee`: the wallet is emptied, the payout and the expense are inserted; the unique key of
the payout is checked again there), or fails for this employee alone. A relay reads the PENDING
payouts, calls the gateway (`Pay`, `Refuse`, `PayUnanswered`), and settles each in a transaction of
its own (`CompletePayout`, `FailPayout` with its refund, `SettleFails`). `faults` counts crashes,
lost answers, database errors and locks that ran out under a job. The order of the ids is the constant
`IdOf`; an employee is `Before` another by it and on the page `PageOf` of those who are there.

### PayoutWatch

Two jobs that change nothing of the payroll and read it while runs and relays work, each under a
lock of its own. `StartWatch` lists payouts: every night those PENDING for a day, every ten minutes the
oldest `StuckLimit` of those PENDING for ten minutes. `Ask` asks the gateway for one and keeps or raises
what it finds, `AskFails` logs and goes on, `FileTicket` and `TicketFails` are the nightly job's tickets,
`TimePasses` ages a payout. `owed` and `alarms` are history variables: the payouts on a job's list that
the gateway had paid, and the last reports of money that left the account, each with what its row
said, whether a relay had it in hand and whether a fault had happened.

### RecurringTransactions

`processRecurringTransactions` under the lock, one tick a night: it reads the due items, posts each
in one transaction (`PostDue`) and saves the item's next date in another (`SaveDue`); failures are
counted and the third one sets the item to FAILED. Edits read an item and save it later, which
writes back what they read. `slip` records which irregular steps have happened: a crash between
the two transactions, an overrun lock, a failed save, an edit saved over a newer row, an item
activated again after its last occurrence.

### The database schema

`SchemaOps` gives the statements their meaning: a schema is a function from tables to sets of
columns, a migration two sequences of statements, and a statement that fails takes its migration
back. `MigrationsFirst`, `-Second` and `-Third` have the 104 migrations, each as the tables and
columns its `up` and `down` add, drop and rename, with their IF EXISTS; `EntitySchema` has the
columns the entities name. `SchemaHistory` puts the migrations in the order
`patch-typeorm-migration-order.ts` gives them, which overrides three of the timestamps.
`SchemaUpgrade` runs `migrate.js` over them with its retries, crashes between the commit of a
migration and its exit, a second migrator that read the list of pending migrations earlier,
`migration:revert` by an operator, and the gate an application passes before it serves. Types,
enum types, indexes, constraints, row-level security and changes of data are left out, so
`UpgradesEndWell` speaks of tables and columns only.

### AuthSessions

One account. A request runs one operation, numbered by the order in which the requests begin; the
session, temporary token or reset token it issues carries its number. Where a handler awaits, its
action ends: the login is `CheckLockout`, `LoadUser`, perhaps `UpgradeHash`, and then `ClearAttempts` and
`StoreSession`, an MFA token, or the count of a failure, read and written in two steps; the exchange of a refresh
token locks the row (`LockToken`) and commits; the reset claims its token, sets the password, revokes
the sessions and marks the token one after the other; the link of a mail is looked for, marked as used
and only then written to the user. "force" is the reset a platform operator forces:
a password nobody knows, all sessions revoked, and a link in a mail unless the operator asked for
silence. A TOTP code is checked against the secret in the row, which `disableMfa` leaves there
(`mfaSecret: secret ?? undefined`), so a temporary token issued before signs in after MFA was
switched off; the recovery codes it empties. Setting up a new secret and regenerating
recovery codes are not modelled. `together` has the pairs of requests that overlapped and `spent` every credential accepted,
so that a property can say which overlap it allows for, and for no other. A session has a line: the
requests of the exchanges, the second factor and the login it comes from.

### PlatformTenants

The row with the status and the date of the deletion, the status the guard cached, the requests of
operators (load, save, drop of the cache, lifecycle event, one await each), guarded visitors, the
hourly deletion under its lock, and impersonation sessions, whose unique index on the open ones is
part of `OpenImpersonation`. A visitor that loaded the status before a save or a purge and caches it after
is marked as having missed it (`MissedByVisitors`).

### WebhookDelivery and MessageDelivery

What the consumers of the durable path do, and what the CQRS handlers do for the same event in the
process: each looks at the kill switch on its own. `WebhookDelivery` goes on to the jobs per endpoint,
the delivery row and the retries with or without a queue. Without background jobs nothing consumes
the outbox: with the durable switch on the event then goes to nobody, in both modules, and `PathsOver` and
`Reachable` take that combination out of what is claimed; `MessageDelivery` to mails sent directly,
mails put into the queue, its attempts, the circuit breaker they share, and notifications, which
their users mark as read and delete with rows they loaded before. `mishaps` and `setbacks` count
what may justify a second copy.

### StaffSchedule

Time is hours of one weekday in weeks 1, 2, ... Slots have hours and a range of weeks, bookings a
week and a start, tasks a lead and a team. A request reads what the staff check reads (`LookAtRoster`,
the active eligible users whose slots have the time; `LookAtBusy`, those of them with no confirmed
booking that overlaps), and is
granted or refused; confirming and moving hold the row of the booking from there to the save,
nothing holds the slots and the other bookings. A slot has a first and a last week in this order
(`effectiveTo` before `effectiveFrom` is refused, on creation and on change). The check's interval comparison is modelled as the
code writes it; `FreeAllHours` asks the same question hour by hour, as the reference.

### AuditChain and IdempotentRequests

`AuditChain`: an entry's writer is the queue's worker or the request itself, when the queue did not
take the entry (or said so although it had). A writer takes the tenant's advisory lock, reads the
last entry and inserts the next one; attempts and dead letters follow the processor. A hash stands
for the position of its entry. `IdempotentRequests` is the interceptor around a handler: look-up,
mark, handler, and then, with nobody waiting for it, the response or the removal of the mark.

### TimeTracking, ClientRecords, StaffRecords

Records that are loaded, changed and saved. In each a request loads a copy in one step and saves it in
a later one, and TypeORM's save is modelled by what it does: it writes the columns in which the copy
differs from the row by then, and inserts a row that is gone. `TimeTracking` has the entries of one
user; `ClientRecords` packages with their cached list and the handlers that drop it, one client and
its tags, and the outbox events that tell of both; `StaffRecords` the user, wallet and profile of an
employee, with the event inside the process that deletes the profile of a deleted user.

### MC modules

`MCBackOffice` and `MCPayroll` choose a part at the start and let only that part move: subsystems that
share no variable share a run. Each subsystem of `MCBackOffice` has its plots, records that name the
kinds of request, the initial rows, and how many faults, flips and changes may happen; a plot is
one question, such as "two edits and a deletion of one client". `MCBookingQuestions` does the same with
three questions about the booking, `MCTaskPlots` with two instances of the tasks.

## The runs

| Run | Question | Instance | Distinct states |
| --- | --- | --- | --- |
| `booking` | three questions: what all handlers keep whatever interleaves ("all"); do the handlers that lock the row keep amounts, status and invoice equal to the ledger ("payments"); are the guards of the lifecycle right one session at a time ("solo") | 2 sessions, 1 key, amounts 1 and 2, two pricings, 2 tasks, 4 rows | 1,111 thousand |
| `tasks` | one lead, accrual once, wallets match the tasks, while a team shares a task ("team") or a booking with two tasks is cancelled ("booking") | 2 users and 1 task, or 1 user and 2 tasks; 1 session that saves old copies | 420 thousand |
| `outbox_faults` | nothing lost, nothing repeated without cause, `DurableDelivery` implemented | 2 relays, 2 workers, 1 event with 2 consumers, 2 retries, 2 attempts, any 3 faults | 179 thousand |
| `outbox_ends` | every event ends | 2 events, 1 relay, 1 worker, batch of 2, any 2 faults | 86 thousand |
| `payroll` | locks exclude, commissions conserved, transfers as recorded, nobody skipped, dates posted once, alarms raised for a reason and lost transfers reported (`NightlyJobsHold`), payouts settled | seven parts: 2 runs and 2 employees on pages of 1; 2 relays, 2 months, 1 fault; 1 month, up to 3 faults; an employee without an account; a relay, the reconciliation and the check over 1 month with 1 fault, and over 2 months without; 2 ticks, 1 editor, 1 item over 3 dates, to the first slip that is exempt | 402 thousand |
| `back_office` | eleven subsystems, each in its plots (below) | see below | 1,053 thousand |
| `booking_lost_payment` | counterexample: completion undoes a payment | 2 sessions | stops at it |
| `booking_payment_after_cancel` | counterexample: payment on a cancelled booking | 2 sessions | stops at it |
| `outbox_revenue_twice` | counterexample: revenue counted twice | 1 relay, 1 worker, 1 fault | stops at it |
| `tasks_accrued_twice` | counterexample: a stale save reopens a completed task | 1 task, 2 users, 1 session | stops at it |
| `mail_never_sent` | counterexample: a cancellation mail's job is done and nothing was sent | plots of `back_office` | stops at it |
| `audit_dead_letter` | counterexample: the chain goes on from a dead letter | plots of `back_office` | stops at it |

What `back_office` asks of each subsystem:

| Part | Property | Says | Plots |
| --- | --- | --- | --- |
| schema | `UpgradesEndWell` | a lone `migrate.js` that is retried succeeds; every finished upgrade has the tables and columns of a fresh installation, after crashes, a second migrator and rollbacks too; nothing serves without a column its entities name | 5: fresh installation and 79 reverts, faults, upgrades with two migrators |
| auth | `SessionsEndWithTheAccount` | a reset ends the sessions of the old password, a deactivation all; exempt are those of requests that overlapped it, and of second factors of logins that began before it | 12, of 3 requests of 2 to 4 kinds |
| auth | `SignInsAreRight` | credentials are spent once but for overlaps, a refresh token even then; wrong codes close a token; a used link verifies; the lockout counts sequential failures | the same |
| tenants | `TenantStateAgrees` | the last decision stands, the cached status follows, lifecycle events chain, sessions are revoked for a reason, one impersonation at a time | 7, of 2 or 3 requests, a visitor, a crash |
| webhooks, messages, audit | `EverybodyIsReached` | everybody is told on some path, and again only after a fault or a flip of the switch; deleted notifications stay deleted; each log has its entry | 5, 11 and 4, with up to 3 faults |
| schedule | `ScheduleIsSound`, `CommitmentsStand` | verdicts say what the schedule says while nothing changed under them; slots overlap only when their requests did; the time of a confirmed booking and the start of a task stand | 8, of 2 or 3 requests, up to 3 changes |
| audit | `AuditChainHolds` | without dead letters each entry has the number of its place and the hash of the one before, and verification finds nothing | 4, of 2 or 3 logs |
| keys | `HandledOnce` | one commit per key unless requests crossed or a mark or response was lost; only what was committed is repeated | 3, of 3 retries |
| time, records, staff | `RecordsHoldTogether` | one timer, right minutes; the cached list is current; the events tell the rows; a deleted user is off the payroll; each up to saves of old copies | 3, 5 and 4 |

Properties that exempt something name it: a history variable (`slips`, `together`, `beside`,
`slotRaces`, `slipped`, `oldCopies`, `crossed`, `misfits`, `slip`, `raced`) records that exactly this
kind of overlap or loss has happened. So each says both what the code promises and the only ways in
which it is known to break.

Every property of a passing run has a mutation in `PROJECT.json`: an operator beside
the original that makes the mistake a change of the code could make, under which
the run fails.

**Bounds.** `MaxRows` bounds the ledger: 4 rows hold a deposit, a payment, a refund or a void, and a
cancellation reversal, which is the longest chain the handlers react to (they look at sums and at
the existence of a reversal). Two sessions are what an overlap needs, since a session uses only its
own copy and the row; what a third would add are further overwrites of the same kind. `NumTasks` 2
tells "some" from "all". Amounts 1 and 2 against a total of 2 or 3 make partial, exact and excess
payments. `MaxBalance` 2 lets a wallet hold the commission of a task and of another or of a second
assignment; `MaxCompletions` 2 lets a task be completed again. In the durable path two attempts and
two retries tell first, later and last; three faults combine any two that interact and one more; two
relays and two workers overlap. In payroll pages of one employee make every page boundary happen;
`Earnings` 1 lets a commission arrive after a run took the first; `Horizon` 2 gives three due dates
against two occurrences. In the back office three requests are an overlap and one that comes before,
after or across it; `LockoutMaxAttempts` and `MaxTotpAttempts` 2, and two attempts of every job, tell
first from last; two weeks and starts one hour apart make times that overlap, meet and miss. All
104 migrations are run; the 79 reverts stop above the 25th, `PerformanceIndexes`, whose `down` drops
what earlier migrations made: below it `UpgradeConverges` does not hold.

`SYMMETRY` is used over interchangeable sessions, users, tasks, relays and workers, in runs of safety
properties only.

**Deadlock** is not checked: idle servers stop when the bounds are used up, and all
commissions, payments, payouts and events being done is a proper end.

**Fairness.** `outbox_ends` has weak fairness of each relay's steps (the cron fires every ten seconds,
a run that has started goes on), of each worker's steps (a BullMQ worker polls), of `LeaseOver` and
`JobRecovered` (time passes). `payroll` has it of the start of some relay (its cron), of the steps of
each relay, and of the expiry of a key nobody holds. Commits, faults, requests and operators have
none: nothing forces a client to book or a process to crash. `EveryEventEnds` says an event ends by
being consumed, dead-lettered, switched off or given up by the queue after its attempts. In the last
case the row still says DISPATCHED and the replay script, which selects rows by status, does not find
it. `EveryPayoutSettles` says no payout stays PENDING.

## What the counterexamples show

`findings` in `PROJECT.json` has the quoted lines. In short:

1. A completion overlapping a payment saves the amount it read: the booking shows
   less paid than its ledger (`booking_lost_payment`).
2. A payment whose status check precedes a cancellation is recorded after it
   (`booking_payment_after_cancel`).
3. The revenue metric is written outside the transaction of the inbox row, and a failed
   attempt counts it again (`outbox_revenue_twice`).
4. Starting or editing a task that is being completed reopens it, and its commission
   accrues again (`tasks_accrued_twice`).
5. The jobs `booking-cancellation` and `payment-receipt` are handled by queueing themselves again;
   no such mail is ever sent (`mail_never_sent`).
6. After a dead letter, which has no sequence number, PostgreSQL sorts it first in descending
   order: the next entry is chained to it and counted from 1 (`audit_dead_letter`).

Modelling met more of the kind, which have no run of their own because no document or test says
otherwise, or because the models show them only as exemptions:

- Any reversal row, a void's included, makes the cancellation believe the booking is reversed already
  (`booking-finance-effects.service.ts:116`): paid is cleared, income stays. `EndsInStep` leaves bookings
  with a void out.
- The tenant purge always rolls back: it deletes by the column `tenant_id` of each table of its list, and
  `outbox_events` names it `tenantId` (`tenant-purge.service.ts:9-52`, `outbox-event.entity.ts:32-33`).
  Attachments, consents, billing customers, payment methods and usage records are not in the list.
- A deletion that has fallen due can neither be cancelled nor reactivated, but suspending or locking the tenant
  is not refused, and a suspended tenant is reactivated without the question
  (`platform-tenant.service.ts:323-333`, `:390-404`): its users' sessions were revoked, its data stays.
  `RevokedForAReason` and the proof of `TenantsAlwaysAgree` name this way out.
- A payroll run posts the expense of a payout when it creates it (`payroll.service.ts:347-360`) and the
  relay posts it again when it is settled (`payout-relay.service.ts:152-179`).
- Deleting a client always fails: `softRemove` needs a `DeleteDateColumn`, which the entity does not have
  (`clients.service.ts:205-247`). `updateTags` publishes no event.
- A refresh token used again outside its grace time revokes the sessions in the transaction that the
  exception then rolls back (`auth.service.ts:303-309`).
- A temporary MFA token issued before a reset or a deactivation still opens a session after it: the second
  factor checks neither the password again nor whether the account is active (`auth.service.ts:503-557`).
  `SessionsEndWithTheAccount` exempts the sessions of logins that began before the change.
- Two requests with the same verification link may both find it unused (`auth.service.ts:378-391`).
- The verification link works only for a signed-in tenant, and marks its token used before it fails.
- A recurring item activated again after it FAILED keeps its count of failures: the next one fails it.
- Notification preferences are stored and never consulted; the cache of availability is never filled.
- The `down` of two migrations (SafetyNet, PerformanceIndexes) drops columns and tables that earlier
  migrations made; reverted below the latter and migrated again, a database lacks some of them.
- The fallback of `getOrCreateWallet` reads in the transaction that the failed insert has aborted.
- Deleting a user deletes the profile by an event inside the process only (`users.service.ts:331-333`).

## What is proved

For every number of sessions, keys, users, tasks, bookings, relays, workers, events, logs, retries
and requests, every amount and every bound, from the named assumptions on the constants
alone (`ASSUME` in each module; TLC evaluates them in every run):

| Theorem | Property | Inductive invariant |
| --- | --- | --- |
| `TypeCorrect` (booking) | `TypeOK`: no amount below zero, the lock belongs to the cancelling session | itself |
| `VoidsAlwaysNetOut` | `VoidsNetOut` | `LedgerInv` |
| `KeysChargedOnce` | `KeyChargedOnce` | `LedgerInv` |
| `LedgerIsHistory` | `LedgerAppendOnly` | `LedgerInv` |
| `LifecyclePublishedOnce` | `LifecycleEventsOnce` | `LifecycleInv` |
| `NeverReopened` | `NoReopening` | `LifecycleInv` |
| `DeliveryTypeCorrect` | `TypeOK` | itself |
| `DispatchedAlwaysInHand` | `DispatchedIsInHand` | `HandInv` |
| `DeliveredAtLeastOnce` | `AtLeastOnce` | `ServedInv` |
| `NothingAfterReceipt` | `NoEffectAfterReceipt` | `Exclusive` |
| `DeliveryImplemented` | `DeliveryPromises` | `Committed` with `ServedInv` |
| `WalletsNeverNegative` | `TypeOK` | itself |
| `LeadIsUnique` | `OneLead` | itself with `TypeOK` |
| `AccrualFollowsStatus` | `AccruedOnceUnlessUndone` | `AccrualInv` |
| `MoneyStaysInStep` | `MoneyInStep` | `MoneyInv` |
| `EndsStayInStep` | `EndsInStep` | `SoloInv` with `MoneyInv` |
| `InvoicesStayInStep` | `InvoiceInStep` | `InvoiceInv` |
| `EndsAreTerminal`, `PaymentsWhileOpen` | `TerminalInStep`, `PaymentInStep` | `QuestionsInv` |
| `DuplicatesPaidFor` | `DuplicatesNeedWorkerFaults` | `CountInv` |
| `WalletsAddUp` | `WalletsMatchTasks` | `WalletInv` |
| `LocksExclude` | `HoldersExclude` | `LockInv` |
| `PayrollTypeCorrect` | `PayrollTypeOK` | `TypedInv` |
| `TransfersAsRecorded` | `PaidAsRecorded` | `PaidInv` |
| `CommissionsConserved` | `CommissionConserved` | `CommissionInv` |
| `EveryoneIsPaid` | `NobodySkipped` | `PagesInv` |
| `NightlyJobs` | `NightlyJobsHold` | `JobsInv` |
| `PartsTypeCorrect` | `PartsTypeOK` | `JobsInv` |
| `PartsHold` | the six invariants of `payroll` | `JobsInv`, `CommissionInv`, `PagesInv` |
| `AuditTypeCorrect` | `AuditTypeOK` | `AuditInv` |
| `ChainAlwaysHolds` | `AuditChainHolds` | `AuditInv` |
| `KeysHandledOnce` | `HandledOnce` | `KeyInv` |
| `SessionsAlwaysEnd` | `SessionsEndWithTheAccount` | `AccountInv` |
| `ProfilesAlwaysFollow` | `StaffRecordsTypeOK`, `ProfilesFollowUsers` | `StaffInv` |
| `TimersAlwaysAddUp` | `TimeTypeOK`, `TimesAddUp` | `TimeInv` |
| `RecordsAlwaysAgree` | `RecordTypeOK`, `OffersListIsCurrent`, `EventsTellTheRows` | `RecordInv` |
| `TenantsAlwaysAgree` | `TenantTypeOK`, `TenantStateAgrees` | `TenantInv` |
| `TrailAlwaysHolds` | `TrailHolds` | `TrailInv` with `AuditInv` |
| `WebhooksAlwaysDelivered` | `HookTypeOK`, `WebhooksDelivered` | `HookInv` |
| `MessagesAlwaysArrive` | `MessageTypeOK`, `MessagesArrive` | `MessageInv` |
| `ScheduleAlwaysSound` | `ScheduleTypeOK`, `VerdictsAreRight`, `SlotsDisjoint` | `ScheduleInv` |
| `CommitmentsAlwaysStand` | `CommitmentsStand` | `ScheduleInv` |
| `SignInsAlwaysRight` | `AuthTypeOK`, `CredentialsAreSpentOnce`, `LatestLinkOnly`, `UsedLinkVerifies`, `LockoutCounts` | `SignInInv` with `AccountInv` |
| `RecordsAlwaysHold` | `RecordsHoldTogether` | `StaffInv`, `TimeInv`, `RecordInv` |
| `BackOfficeAgrees` | `AuditChainHolds`, `HandledOnce`, `TenantStateAgrees` | `AuditInv`, `KeyInv`, `TenantInv` |
| `EverybodyAlwaysReached` | `EverybodyIsReached` | `HookInv`, `MessageInv`, `TrailInv` |
| `BackOfficeScheduleSound` | `ScheduleIsSound`, `CommitmentsStand` | `ScheduleInv` |
| `BackOfficeSignInsRight` | `SignInsAreRight`, `SessionsEndWithTheAccount` | `SignInInv`, `AccountInv` |
| `BackOfficeTypesCorrect` | `BackOfficeTypeOK` of ten subsystems, all but the schema | those of the ten |

`PartsHold`, the last six of the table and the theorems about `MCSpec` in `BookingProofs` are
about the very specifications that `payroll`, `back_office` and `booking` run. The others are about the
specifications of the modules, of which `tasks` and `back_office` run restrictions (plots, parts), so TLC
looks at fewer behaviours than the proofs. `JobsSpec`, in `PayrollProofs`, is more than any run: payroll, relays, the jobs that watch and the recurring job
interleave freely. Its lemma `PartsAreJobs` shows that every step of every instance in `MCPayroll` is one
of its steps. `ApartAssumption` (the jobs of the three modules are different, and their locks) and
`MembersAssumption` (the members that an instance names exist) are what it needs of the constants.

Why the invariants are stronger than what they are for:

- `LedgerInv` joins types, voids and keys. Each kind of step either appends one plain
  row with an unused key, or voids a row and appends its reversal, or appends the
  cancellation's reversal; two lemmas show that such a ledger keeps all three.
- `LifecycleInv` adds what a session in the middle of a completion or cancellation
  knows: its booking has left DRAFT and was published as confirmed, or is not
  yet cancelled, and a completion about to save holds COMPLETED. Without it
  a stale save could write any status.
- `HandInv` adds that a relay that has its add acknowledged has a job or a finished
  event, and keeps it until the save; a row's status alone does not say so.
- `ServedInv` says of each worker that it has served every consumer before its place
  in the route, and that a receipt means an effect. `Monotone` (nothing served is taken
  back) carries it over the steps of the other workers.
- `Exclusive` says a worker that has an event owns its job as long as no running job
  stalled. It is the reason why no two workers act on one event.
- `AccrualInv` adds that no session is about to write COMPLETED over another status: a copy
  that says so was taken of a task that still does.
- `LockInv` joins the lock's types with `HoldersExclude`, which is inductive with them: a job enters only
  over a key that is not set, and releases only a key with its own token. Only the lock's four steps
  matter; a lemma shows that every step of the payroll is one of them or leaves the lock alone.
- `PaidInv` adds to `LockInv` that a relay with payouts in hand is inside the lock, that what it calls paid
  was paid, and, while nothing failed, that a payout in hand is PENDING, was paid exactly when its relay
  says so, and that a PENDING payout that was paid is still in hand. So a relay that finds the key free
  finds no payout that was paid already.
- `MoneyInv` adds that no row is voided, that a reversal in the ledger means the booking is
  CANCELLED, and that a cancellation, which holds the row, still knows it.
  `SoloInv` says one session acts, and what it has read is what is there; `InvoiceInv` that a session
  making an invoice knows the paid amount unless the amount was changed meanwhile.
- `WalletInv` joins types, `AccrualInv`, that only members of a team have shares, that a booking is
  held by a cancellation that has read all its tasks, and that a task is CANCELLED exactly when its booking is; with these each step
  changes the wallet by what it changes in the sum over the tasks.
- `CountInv` counts per event and consumer. Before the receipt: how often it acted, plus one if the worker
  that owns the job may still act, plus the workers that lost the job and may still act, is at most one
  plus the faults. After the receipt those that had claimed the effect before it are all that is left.
- `TypedInv` adds the types of the copies; `CommissionInv` that, until a relay overruns its lock, a payout in
  a relay's hand is PENDING and is only once in hand, so that each is refunded once.
- `PagesInv` follows the staff by their places in the order of the ids: who was there at the start, and is
  owed, is on a page before the run's page and has the payout, or on this page and still to be done.
- `JobsInv` has each kind of job inside its own lock (`Places`); of a watching job that what it owes is still to
  be asked for, found, told or given up, and that what it found is justified (`WatchInv`); of the
  recurring job that, until an exempt slip, one tick works, and what was posted of an item fits the
  schedule that the tick, or the row, goes on with (`RecurringInv`).
- `AuditInv` adds who is inside the advisory lock, that whoever has read the last entry still knows
  the end of the chain (nobody else inserts before it leaves), and that a writer has attempts left.
- `TrailInv` counts per log: its entries, the writers that may still write it, and one if nobody has taken it
  down yet, are together at most one plus the troubles. So a second entry has a trouble of its own.
- `HookInv` counts per endpoint in the same way: the copies it got, the jobs that still have one to send, and
  what each of the two paths may still emit, are at most one plus the mishaps. A path that emitted without
  a failure has made a job for each endpoint (`PathsCover`), and as long as nothing went wrong the path the
  switch chose covers them all (`QuietHook`).
- `MessageInv` counts the letters, the notifications, the letters in the queue and what each path may still
  bring. Whom a path counts as told was told, but by the in-process handler, which also counts whom it could not
  reach (`CountedAreTold`); a deleted notification that nobody holds a copy of stays deleted (`NobodyMarks`).
- `ScheduleInv` says what a request knows as long as it is not stale: whom it found on the roster and free is
  who is so now. A booking's row is held by one request at a time (`OnlyOne`), what it has
  read of the status is still so, for an edit, which holds nothing, unless it is marked `behind`; and a slot about to be
  written was compared with all that are there but those of requests that overlapped its own.
- `KeyInv` adds that, while nothing has slipped, a running or committed request owns the mark or the
  response; two commits would have to own the same entry.
- `AccountInv` says of every session, temporary token and request that carries one on that it is of the
  current password or excused for good: requests begin in their order, and one that is under way has overlapped
  all that began after it (`InOrder`), so that whoever carries the old password while a reset runs
  has overlapped it, and whoever begins later sees the new one. The valid sessions that are neither
  are those the reset that set the current password has yet to revoke. The same of a deactivation, from the
  moment when it saves, with what requests that save the row still believe (`LinksKnow`, `Closes`).
- `SignInInv` adds, to that, that whatever was spent is of a request that is past the point where it spends it
  (`SpentInPlace`); that between voiding all links and offering its own a request finds valid only links
  of requests it overlapped (`LinksInv`); that who is about to save the user's row knows whether the address
  is verified, unless a verification overlapped (`MailInv`); that who has read the count of failures read no
  more than there are (`LockoutInv`); that wrong codes are counted, so that only those before the limit
  were let through (`FactorInv`); and of each credential that, once accepted, it is used up or
  still in the hand of a request that overlapped the one that used it (`FactorsOnce`, `LinksOnce`, `ExchangedOnce`,
  `CodesOnce`: a recovery code is also on no list that a request is about to write back).
- `StaffInv` adds that as long as a deleted user has a live profile some event or handler is still to
  catch this very profile, unless a recorded misfit let it through; that a request which found a user
  writes for a user that exists; and that a wallet comes before its profile.
- `TimeInv` adds that a start which found no timer running still finds none as long as nothing crossed it, and
  that the minutes of a copy about to be saved add up as its row's did.
- `RecordInv` adds that whoever has read the packages in order to cache them still has them as they are unless a
  change has yet to drop the list, or its reader missed the drop; that each handler under way has its own
  request; and that an id that was never given has neither a row nor events.
- `TenantInv` has three ideas. Two requests under way overlapped, and an overlap, once there, stays and excuses
  (`TogetherIsBeside`). A request that is alone knows the row: what it loaded is what is there
  (`DecisionFits`, `EditsKeepStatus`, `SessionsFit`, `VisitorsKnow`). And whoever changed the row and has not yet
  recorded it is the only one, and knows where the trail ends (`TrailFits`); each request records one
  change, and one more if it purged the tenant (`RecordedOnce`), which bounds the trail.

The eleven subsystems of `MCBackOffice` share no state: of ten of them the lemmas `AuditKeeps` to `AccountKeeps` show
that a step of the composed specification is one of its own steps or none, whence the theorems about
`PartSpec`.

Sums are folds in the models. `SumFacts` proves what is needed of them: that a fold's function exists and has
its equation, that a sum of zeros is zero, that one changed term changes the sum by as much, and that
sums of non-negative terms are non-negative. No induction principle takes an operator there: a set of
subsets without a smallest counterexample is empty.

The refinement proof shows the initial states map to initial states and each step to a step
of `DurableDelivery` or to none; a worker's step maps to `Reach`, `Receipt`, `Waive` or `Close` by
the place in the route that `ServedInv` describes.

## What is only model-checked

- `EveryEventEnds`, `EveryPayoutSettles`: liveness under fairness, out of the prover's reach.
- `UpgradesEndWell`, `UpgradeTypeOK`: that the 104 migrations can be run, reverted and repeated follows from no
  general law. The order is a sort of their versions, the schema after each a recursion over its statements;
  of seven migrations the `down` does not restore the schema before, of one it fails on the schema after, and three,
  repeated by a late migrator, change a later schema. That the upgrades of the run end well all the same is a fact of these
  very migrations, which TLC computes.

Every other invariant and every action property of a passing run is proved, each for more than its run
looks at.

## What is not modelled

Reads, exports, reports, dashboards and analytics queries (they change no state; the one counter that
does, the daily metrics, is in the durable path); formatting, validation of requests, logging,
telemetry and health. Tenant filters: every query has one and no handler crosses tenants. Currencies
and rounding: amounts are whole numbers of the smallest unit. Vendors, purchase invoices, categories,
billing and subscriptions: records kept by single-row operations, and calls of an external service.
Privacy exports, attendance, eligibilities, attachments, reviews: the same. Creation and provisioning
of tenants, registration of users: one transaction each. A new TOTP secret, new recovery codes. Soft delete and duplication of bookings.
Within the schema: types, enum types, indexes, constraints, row-level security, changes of data. The metrics
handler's in-process path, the twin of the durable one: its pair is modelled for webhooks and
messages only.

## Plan

1. `WalletLocks`: the order in which transfers, completions and cancellations lock wallet rows
   (`transferPendingCommission` sorts its two, `completeTask` and `cancelBooking` do not sort theirs); deadlock
   checked, with PostgreSQL's detection as the way out.
2. A composition of the booking, its tasks and wallets over one set of sessions, with
   `BookingLedger`'s abstraction of tasks shown to be implemented by `TaskCommission`.
3. The void's clamp (a void after a refund) as a run, and in `MoneyInv` the voids it now leaves out.
