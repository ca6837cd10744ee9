--------------------------- MODULE OutboxDelivery ---------------------------
(***************************************************************************)
(* The durable event path: rows of outbox_events, the relay that turns     *)
(* them into BullMQ jobs, the processor that takes each job through the    *)
(* consumers of its event, and the consumer_inbox rows they leave.         *)
(*                                                                         *)
(* Events are never read by their content: an event is its id, and what    *)
(* matters of its type is the list of consumers that process() calls.      *)
(* Time is not modelled: the lease and the backoff of a row are over when  *)
(* LeaseOver says so, a worker is slow when JobStalls says so.  A relay is  *)
(* one run of processOutbox; the cron does not keep runs from overlapping, *)
(* within an instance or between instances.                                *)
(***************************************************************************)
EXTENDS Integers, Sequences, FiniteSets, Functions

CONSTANTS
    Events,
    TypeOf,        \* event -> its type
    Relays,        \* runs of processOutbox at the same time
    Workers,       \* processors of the queue
    NoWorker,
    NoEvent,
    BatchSize,     \* BATCH_SIZE
    MaxRetries,    \* MAX_RELAY_ATTEMPTS
    MaxAttempts,   \* attempts of a job
    Switches,      \* the categories whose kill switch an operator flips
    MayHappen,     \* the kinds of fault that happen
    MaxFaults      \* and how many in all, for model checking

FaultKinds == {"relay", "add", "worker", "consumer", "stall", "flip", "replay"}

ASSUME NamesAssumption == NoWorker \notin Workers /\ NoEvent \notin Events
ASSUME BatchAssumption == BatchSize \in Nat \ {0}
ASSUME LimitsAssumption == MaxRetries \in Nat \ {0} /\ MaxAttempts \in Nat \ {0}
ASSUME SwitchesAssumption == Switches \subseteq {"financial", "invoice", "notification", "mail", "webhook"}
ASSUME FaultsAssumption == MayHappen \subseteq FaultKinds /\ MaxFaults \in Nat

VARIABLES
    row,        \* event -> its outbox_events row
    mine,       \* relay -> event -> its copy of the row and how far it got
    job,        \* event -> the job with jobId = eventId
    worker,     \* worker -> the job it runs and where in the route it is
    enabled,    \* the categories whose kill switch is on
    inbox,      \* event -> consumers with a consumer_inbox row
    applied,    \* event -> consumer -> how often its side effect happened
    waived,     \* event -> consumers passed over because switched off
    finished,   \* events whose job has completed
    faults      \* kind of fault -> how often it has happened

vars == <<row, mine, job, worker, enabled, inbox, applied, waived, finished, faults>>
----------------------------------------------------------------------------
Categories == {"financial", "invoice", "notification", "mail", "webhook"}

FinancialTypes == {"PaymentRecordedEvent", "RefundRecordedEvent"}
InvoiceTypes == {"InvoiceGenerationRequested"}
NotificationTypes == {"BookingCreatedEvent", "BookingCompletedEvent", "TaskAssignedEvent",
                      "TaskCompletedEvent"}
MailTypes == {"BookingConfirmedEvent", "BookingCancelledEvent", "BookingRescheduledEvent",
              "PaymentRecordedEvent", "TaskAssignedEvent"}
WebhookTypes == {"BookingCreatedEvent", "BookingConfirmedEvent", "BookingUpdatedEvent",
                 "BookingCompletedEvent", "TaskCompletedEvent", "PackagePriceChangedEvent",
                 "ClientCreatedEvent", "ClientUpdatedEvent", "ClientDeletedEvent"}

(* The categories of an event, in the order in which process() serves them. *)
Route(e) ==
    LET if(types, category) == IF TypeOf[e] \in types THEN <<category>> ELSE << >>
    IN  if(FinancialTypes, "financial") \o if(InvoiceTypes, "invoice")
        \o if(NotificationTypes, "notification") \o if(MailTypes, "mail")
        \o if(WebhookTypes, "webhook")

CategoriesOf(e) == {Route(e)[i] : i \in DOMAIN Route(e)}

(* createInvoice returns the invoice the booking has: done twice is done once. *)
Idempotent == {"invoice"}

RowStatuses == {"NONE", "PENDING", "DISPATCHED", "FAILED", "DEAD_LETTER"}
Row == [status : RowStatuses, retries : Nat, leased : BOOLEAN]
Copy == [stage : {"none", "claimed", "added", "refused"}, retries : Nat]
Job == [state : {"none", "queued", "active", "failed"}, attempts : Nat, stalled : BOOLEAN,
        owner : Workers \cup {NoWorker}]
Run == [event : Events \cup {NoEvent}, at : Nat, stage : {"next", "claimed", "applied"}]

CopyAt(stage, retries) == [stage |-> stage, retries |-> retries]
NoCopy == CopyAt("none", 0)
JobIn(state, attempts, stalled, owner) ==
    [state |-> state, attempts |-> attempts, stalled |-> stalled, owner |-> owner]
Place(e, at, stage) == [event |-> e, at |-> at, stage |-> stage]
NoJob == JobIn("none", 0, FALSE, NoWorker)
Idle == Place(NoEvent, 0, "next")

Init ==
    /\ row = [e \in Events |-> [status |-> "NONE", retries |-> 0, leased |-> FALSE]]
    /\ mine = [r \in Relays |-> [e \in Events |-> NoCopy]]
    /\ job = [e \in Events |-> NoJob]
    /\ worker = [w \in Workers |-> Idle]
    /\ enabled = Categories
    /\ inbox = [e \in Events |-> {}]
    /\ applied = [e \in Events |-> [c \in Categories |-> 0]]
    /\ waived = [e \in Events |-> {}]
    /\ finished = {}
    /\ faults = [k \in FaultKinds |-> 0]

FaultsSoFar == SumFunction(faults)

Fault(kind) == /\ kind \in MayHappen
               /\ FaultsSoFar < MaxFaults
               /\ faults' = [faults EXCEPT ![kind] = @ + 1]
----------------------------------------------------------------------------
(* A business transaction commits with the event's row in it. *)
Commit(e) ==
    /\ row[e].status = "NONE"
    /\ row' = [row EXCEPT ![e].status = "PENDING"]
    /\ UNCHANGED <<mine, job, worker, enabled, inbox, applied, waived, finished, faults>>

(* Mutation: a row whose add was refused is not taken up again. *)
DueNeverRefused(e) == row[e].status = "PENDING" /\ ~ row[e].leased /\ row[e].retries = 0
Due(e) == row[e].status = "PENDING" /\ ~ row[e].leased

(* processBatch's transaction: due rows are leased and copied, up to a      *)
(* batch; rows another claim has locked at that moment are skipped.         *)
Claim(r) ==
    /\ \A e \in Events : mine[r][e].stage = "none"
    /\ \E batch \in SUBSET {e \in Events : Due(e)} :
          /\ batch # {}
          /\ Cardinality(batch) <= BatchSize
          /\ row' = [e \in Events |-> IF e \in batch THEN [row[e] EXCEPT !.leased = TRUE]
                                      ELSE row[e]]
          /\ mine' = [mine EXCEPT ![r] = [e \in Events |->
                IF e \in batch THEN CopyAt("claimed", row[e].retries) ELSE NoCopy]]
    /\ UNCHANGED <<job, worker, enabled, inbox, applied, waived, finished, faults>>

(* The lease, and the backoff of a refused add, run out. *)
LeaseOver(e) ==
    /\ row[e].status = "PENDING" /\ row[e].leased
    /\ row' = [row EXCEPT ![e].leased = FALSE]
    /\ UNCHANGED <<mine, job, worker, enabled, inbox, applied, waived, finished, faults>>

(* A relay takes its batch one event at a time. *)
Relaying(r, e) ==
    /\ mine[r][e].stage = "claimed"
    /\ \A f \in Events : mine[r][f].stage \notin {"added", "refused"}

RelayEnabled(e) == CategoriesOf(e) = {} \/ CategoriesOf(e) \cap enabled # {}

(* save(event): the columns of the copy go over the row, whatever it says.  *)
SaveRow(r, e, status, retries, leased) ==
    /\ row' = [row EXCEPT ![e] = [status |-> status, retries |-> retries, leased |-> leased]]
    /\ mine' = [mine EXCEPT ![r][e] = NoCopy]

(* relayOne with every category switched off. *)
SkipKilled(r, e) ==
    /\ Relaying(r, e)
    /\ ~ RelayEnabled(e)
    /\ SaveRow(r, e, "FAILED", mine[r][e].retries, FALSE)
    /\ UNCHANGED <<job, worker, enabled, inbox, applied, waived, finished, faults>>

(* The queue keeps one job per id, in whatever state: failed jobs are kept, *)
(* completed ones removed, and adding an id it has does nothing.            *)
WithJob(e) ==
    IF job[e].state = "none" THEN [job EXCEPT ![e] = JobIn("queued", 0, FALSE, NoWorker)]
    ELSE job

Enqueue(r, e) ==
    /\ Relaying(r, e)
    /\ RelayEnabled(e)
    /\ job' = WithJob(e)
    /\ mine' = [mine EXCEPT ![r][e] = CopyAt("added", @.retries)]
    /\ UNCHANGED <<row, worker, enabled, inbox, applied, waived, finished, faults>>

(* The add throws, before or after the queue took the job. *)
EnqueueFails(r, e) ==
    /\ Relaying(r, e)
    /\ RelayEnabled(e)
    /\ Fault("add")
    /\ job' \in {job, WithJob(e)}
    /\ mine' = [mine EXCEPT ![r][e] = CopyAt("refused", @.retries)]
    /\ UNCHANGED <<row, worker, enabled, inbox, applied, waived, finished>>

SaveDispatched(r, e) ==
    /\ mine[r][e].stage = "added"
    /\ SaveRow(r, e, "DISPATCHED", mine[r][e].retries, TRUE)
    /\ UNCHANGED <<job, worker, enabled, inbox, applied, waived, finished, faults>>

(* Mutation: a refused add is saved as dispatched. *)
StatusAfterRefusalDispatched(retries) == "DISPATCHED"
(* Mutation: a status the enum does not have. *)
StatusAfterRefusalRetrying(retries) == "RETRYING"
StatusAfterRefusal(retries) == IF retries >= MaxRetries THEN "DEAD_LETTER" ELSE "PENDING"

SaveRefused(r, e) ==
    /\ mine[r][e].stage = "refused"
    /\ SaveRow(r, e, StatusAfterRefusal(mine[r][e].retries + 1), mine[r][e].retries + 1, TRUE)
    /\ UNCHANGED <<job, worker, enabled, inbox, applied, waived, finished, faults>>

(* The process ends, or a save fails and the rest of the batch is given up. *)
RelayCrash(r) ==
    /\ \E e \in Events : mine[r][e].stage # "none"
    /\ Fault("relay")
    /\ mine' = [mine EXCEPT ![r] = [e \in Events |-> NoCopy]]
    /\ UNCHANGED <<row, job, worker, enabled, inbox, applied, waived, finished>>
----------------------------------------------------------------------------
(* Where worker w is: its event, and the consumer it is at. *)
EventOf(w) == worker[w].event
Busy(w) == EventOf(w) # NoEvent
ConsumerAt(w) == Route(EventOf(w))[worker[w].at]
AtConsumer(w, stage) == /\ Busy(w)
                        /\ worker[w].stage = stage
                        /\ worker[w].at <= Len(Route(EventOf(w)))

Take(w, e) ==
    /\ ~ Busy(w)
    /\ job[e].state = "queued"
    /\ job' = [job EXCEPT ![e] = JobIn("active", job[e].attempts, job[e].stalled, w)]
    /\ worker' = [worker EXCEPT ![w] = Place(e, 1, "next")]
    /\ UNCHANGED <<row, mine, enabled, inbox, applied, waived, finished, faults>>

MoveOn(w) == worker' = [worker EXCEPT ![w] = Place(EventOf(w), worker[w].at + 1, "next")]

(* The consumer's category is switched off: process() goes on without it. *)
PassOver(w) ==
    /\ AtConsumer(w, "next")
    /\ ConsumerAt(w) \notin enabled
    /\ waived' = [waived EXCEPT ![EventOf(w)] = @ \cup {ConsumerAt(w)}]
    /\ MoveOn(w)
    /\ UNCHANGED <<row, mine, job, enabled, inbox, applied, finished, faults>>

(* Mutation: the inbox is not asked. *)
NeverReceived(w) == FALSE
Received(w) == ConsumerAt(w) \in inbox[EventOf(w)]

(* tryClaim finds the consumer's inbox row: a duplicate, skipped. *)
Duplicate(w) ==
    /\ AtConsumer(w, "next")
    /\ ConsumerAt(w) \in enabled
    /\ Received(w)
    /\ MoveOn(w)
    /\ UNCHANGED <<row, mine, job, enabled, inbox, applied, waived, finished, faults>>

(* tryClaim finds none: the consumer goes ahead. *)
TryClaim(w) ==
    /\ AtConsumer(w, "next")
    /\ ConsumerAt(w) \in enabled
    /\ ~ Received(w)
    /\ worker' = [worker EXCEPT ![w] = Place(EventOf(w), worker[w].at, "claimed")]
    /\ UNCHANGED <<row, mine, job, enabled, inbox, applied, waived, finished, faults>>

(* The side effect, made outside the transaction of the inbox row: metrics, *)
(* invoice, notification, mail or webhook call.                             *)
Apply(w) ==
    /\ AtConsumer(w, "claimed")
    /\ applied' = [applied EXCEPT ![EventOf(w)][ConsumerAt(w)] =
                      IF ConsumerAt(w) \in Idempotent THEN 1 ELSE @ + 1]
    /\ worker' = [worker EXCEPT ![w] = Place(EventOf(w), worker[w].at, "applied")]
    /\ UNCHANGED <<row, mine, job, enabled, inbox, waived, finished, faults>>

(* process() throws.  The queue counts the attempt if the job is still this *)
(* worker's, and gives up on it after MaxAttempts.                          *)
AttemptFailed(w) ==
    LET attempts == job[EventOf(w)].attempts + 1
        next == IF attempts >= MaxAttempts THEN "failed" ELSE "queued"
    IN  /\ worker' = [worker EXCEPT ![w] = Idle]
        /\ IF job[EventOf(w)].owner = w
           THEN job' = [job EXCEPT ![EventOf(w)] =
                           JobIn(next, attempts, job[EventOf(w)].stalled, NoWorker)]
           ELSE UNCHANGED job

(* The consumer records the event and its transaction commits; the unique   *)
(* index refuses a second row, which fails the attempt.                     *)
Record(w) ==
    /\ AtConsumer(w, "applied")
    /\ IF ConsumerAt(w) \in inbox[EventOf(w)]
       THEN AttemptFailed(w) /\ UNCHANGED inbox
       ELSE /\ inbox' = [inbox EXCEPT ![EventOf(w)] = @ \cup {ConsumerAt(w)}]
            /\ MoveOn(w)
            /\ UNCHANGED job
    /\ UNCHANGED <<row, mine, enabled, applied, waived, finished, faults>>

(* The side effect or the transaction after it fails. *)
ConsumerThrows(w) ==
    /\ AtConsumer(w, "claimed") \/ AtConsumer(w, "applied")
    /\ Fault("consumer")
    /\ AttemptFailed(w)
    /\ UNCHANGED <<row, mine, enabled, inbox, applied, waived, finished>>

(* Mutation: a worker that passed its last consumer but one is done. *)
RouteDoneEarly(w) == worker[w].stage = "next" /\ worker[w].at >= Len(Route(EventOf(w)))
RouteDone(w) == worker[w].stage = "next" /\ worker[w].at > Len(Route(EventOf(w)))

(* process() returns: the job completes and is removed, if it is still this *)
(* worker's.                                                                *)
Finish(w) ==
    /\ Busy(w)
    /\ RouteDone(w)
    /\ worker' = [worker EXCEPT ![w] = Idle]
    /\ IF job[EventOf(w)].owner = w
       THEN /\ job' = [job EXCEPT ![EventOf(w)] = NoJob]
            /\ finished' = finished \cup {EventOf(w)}
       ELSE UNCHANGED <<job, finished>>
    /\ UNCHANGED <<row, mine, enabled, inbox, applied, waived, faults>>

WorkerCrash(w) ==
    /\ Busy(w)
    /\ Fault("worker")
    /\ worker' = [worker EXCEPT ![w] = Idle]
    /\ UNCHANGED <<row, mine, job, enabled, inbox, applied, waived, finished>>

(* The lock of an active job ran out: it goes back to the queue, once.      *)
BackToQueue(e) ==
    job' = [job EXCEPT ![e] = JobIn(IF job[e].stalled THEN "failed" ELSE "queued",
                                    job[e].attempts, TRUE, NoWorker)]

Running(e) == job[e].state = "active" /\ EventOf(job[e].owner) = e

JobRecovered(e) ==
    /\ job[e].state = "active"
    /\ ~ Running(e)
    /\ BackToQueue(e)
    /\ UNCHANGED <<row, mine, worker, enabled, inbox, applied, waived, finished, faults>>

(* The same while its worker, which did not renew the lock in time, goes on. *)
JobStalls(e) ==
    /\ Running(e)
    /\ Fault("stall")
    /\ BackToQueue(e)
    /\ UNCHANGED <<row, mine, worker, enabled, inbox, applied, waived, finished>>
----------------------------------------------------------------------------
(* An operator flips a kill switch. *)
Flip(c) ==
    /\ Fault("flip")
    /\ enabled' = IF c \in enabled THEN enabled \ {c} ELSE enabled \cup {c}
    /\ UNCHANGED <<row, mine, job, worker, inbox, applied, waived, finished>>

(* outbox-dlq-replay, for dead letters or for rows a kill switch failed. *)
Replay(e) ==
    /\ row[e].status \in {"DEAD_LETTER", "FAILED"}
    /\ Fault("replay")
    /\ row' = [row EXCEPT ![e] = [status |-> "PENDING", retries |-> 0, leased |-> FALSE]]
    /\ UNCHANGED <<mine, job, worker, enabled, inbox, applied, waived, finished>>

RelayStep(r) ==
    \/ Claim(r)
    \/ \E e \in Events : \/ SkipKilled(r, e) \/ Enqueue(r, e)
                         \/ SaveDispatched(r, e) \/ SaveRefused(r, e)

WorkerStep(w) ==
    \/ \E e \in Events : Take(w, e)
    \/ PassOver(w) \/ Duplicate(w) \/ TryClaim(w) \/ Apply(w) \/ Record(w) \/ Finish(w)

FaultStep ==
    \/ \E r \in Relays : RelayCrash(r) \/ \E e \in Events : EnqueueFails(r, e)
    \/ \E w \in Workers : ConsumerThrows(w) \/ WorkerCrash(w)
    \/ \E e \in Events : JobStalls(e) \/ Replay(e)
    \/ \E c \in Switches : Flip(c)

Next ==
    \/ \E e \in Events : Commit(e) \/ LeaseOver(e) \/ JobRecovered(e)
    \/ \E r \in Relays : RelayStep(r)
    \/ \E w \in Workers : WorkerStep(w)
    \/ FaultStep

Spec == Init /\ [][Next]_vars

(* The cron fires every ten seconds and a started run goes on; a worker     *)
(* polls the queue; leases, backoffs and job locks run out.                 *)
Fairness ==
    /\ \A e \in Events : WF_vars(LeaseOver(e)) /\ WF_vars(JobRecovered(e))
    /\ \A r \in Relays : WF_vars(RelayStep(r))
    /\ \A w \in Workers : WF_vars(WorkerStep(w))

FairSpec == Spec /\ Fairness
----------------------------------------------------------------------------
(* Every variable holds a value of its kind, and a worker that has a job is *)
(* at a place of its event's route or past the last.                        *)
TypeOK ==
    /\ row \in [Events -> Row]
    /\ mine \in [Relays -> [Events -> Copy]]
    /\ job \in [Events -> Job]
    /\ worker \in [Workers -> Run]
    /\ \A w \in Workers : Busy(w) => worker[w].at \in 1..(Len(Route(EventOf(w))) + 1)
    /\ enabled \subseteq Categories
    /\ inbox \in [Events -> SUBSET Categories]
    /\ applied \in [Events -> [Categories -> Nat]]
    /\ waived \in [Events -> SUBSET Categories]
    /\ finished \subseteq Events
    /\ faults \in [FaultKinds -> Nat]

(* relayOne marks a row DISPATCHED only after the queue took the job: such a *)
(* row has its job, or the job has been through every consumer; wherever    *)
(* relays or workers crash, none is left with neither.                      *)
DispatchedIsInHand ==
    \A e \in Events : row[e].status = "DISPATCHED" => job[e].state # "none" \/ e \in finished

(* "Guarantees at-least-once delivery": the side effect of every consumer   *)
(* of an event whose job completed has happened, unless its kill switch was *)
(* off when the job passed it.                                              *)
AtLeastOnce ==
    \A e \in finished : \A c \in CategoriesOf(e) : c \in waived[e] \/ applied[e][c] >= 1

(* The inbox dedupes: crashes of relays, lost acknowledgements of an add,   *)
(* expired leases and replays never repeat a side effect.  Each repetition  *)
(* is paid for by a fault of a worker or a consumer.                        *)
DuplicatesNeedWorkerFaults ==
    \A e \in Events, c \in Categories :
        applied[e][c] <= 1 + faults["worker"] + faults["consumer"] + faults["stall"]

(* A consumer that has its receipt for an event does not act on it again,   *)
(* as long as no job was taken from a worker that still ran it.             *)
NoEffectAfterReceipt ==
    [][faults["stall"] = 0 =>
          \A e \in Events : \A c \in inbox[e] : applied'[e][c] = applied[e][c]]_vars

(* "Exactly-once for DB side effects via inbox": the revenue metrics of a   *)
(* payment are counted once.                                                *)
RevenueCountedOnce == \A e \in Events : applied[e]["financial"] <= 1

(* An event ends where the path can leave it: given up by the relay, given  *)
(* up by the queue, or through all its consumers.  Every committed event    *)
(* ends, and stays there, once faults and operators stop.                   *)
Ended(e) == \/ row[e].status \in {"FAILED", "DEAD_LETTER"}
            \/ row[e].status = "DISPATCHED" /\ job[e].state = "failed"
            \/ row[e].status = "DISPATCHED" /\ job[e].state = "none" /\ e \in finished

EveryEventEnds == <>[](\A e \in Events : row[e].status = "NONE" \/ Ended(e))

(* The durable path keeps the promises of DurableDelivery. *)
Delivery == INSTANCE DurableDelivery WITH
    ConsumersOf <- [e \in Events |-> CategoriesOf(e)],
    accepted <- {e \in Events : row[e].status # "NONE"},
    reached <- [e \in Events |-> {c \in Categories : applied[e][c] > 0}],
    receipts <- inbox,
    closed <- finished

DeliveryPromises == Delivery!Spec
=============================================================================
