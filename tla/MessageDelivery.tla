--------------------------- MODULE MessageDelivery ---------------------------
(***************************************************************************)
(* What a domain event tells people: an e-mail to each recipient, an       *)
(* e-mail put into the e-mail queue, or a notification in the application. *)
(* The consumer of the outbox (the durable path) and the CQRS handler (the *)
(* direct path) each look at the same kill switch.  E-mails go out through *)
(* one circuit breaker.  A user marks notifications as read and deletes    *)
(* them, beside one another.                                               *)
(***************************************************************************)
EXTENDS Naturals, FiniteSets, Sequences

CONSTANTS People,        \* 1..n, in the order an event names them
          OutboxAttempts,\* attempts of the outbox queue at the durable path
          MailAttempts,  \* attempts of a job of the e-mail queue
          Readers,       \* requests that mark a notification as read
          LetterJobsMax, \* bound: jobs the e-mail queue ever held
          MessagePlots   \* [event, posted, queue, durable, flips, faults, changes]

----------------------------------------------------------------------------
(* What each event has its two handlers do, and to how many people: the     *)
(* staff of a moved booking, and the administrators and managers, are all   *)
(* of People.                                                               *)
BookingConfirmedMail   == [kind |-> "mail", to |-> 1]
BookingRescheduledMail == [kind |-> "mail", to |-> Cardinality(People)]
TaskAssignedMail       == [kind |-> "mail", to |-> 1]
BookingCancelledMail   == [kind |-> "queued", to |-> 1]
PaymentReceiptMail     == [kind |-> "queued", to |-> 1]
BookingCreatedBell     == [kind |-> "bell", to |-> Cardinality(People)]
BookingCompletedBell   == [kind |-> "bell", to |-> Cardinality(People)]
TaskAssignedBell       == [kind |-> "bell", to |-> 1]
TaskCompletedBell      == [kind |-> "bell", to |-> 1]
NoEvent                == [kind |-> "none", to |-> 0]

\* A job of the e-mail queue: a payroll or password letter is sent, a cancellation or a
\* receipt is handed to the method that put it into the queue.
Job(p, says) == [to |-> p, says |-> says, at |-> "waiting", attempt |-> 1]

ASSUME MessageAssumption ==
  /\ IsFiniteSet(People) /\ People = 1..Cardinality(People)
  /\ {OutboxAttempts, MailAttempts} \subseteq Nat \ {0}
  /\ MessagePlots \subseteq [event : [kind : {"mail", "queued", "bell", "none"}, to : 0..Cardinality(People)],
                             posted : Seq({Job(p, "letter") : p \in People}), queue : BOOLEAN, durable : BOOLEAN,
                             flips : Nat, faults : Nat, changes : Nat]
----------------------------------------------------------------------------
VARIABLES tellFlag,    \* the kill switch
          routes,      \* path -> how far it is, whom it told in this attempt, which attempt
          tellInbox,   \* whether the consumer's inbox has the event
          letters,     \* person -> the e-mails that arrived
          letterJobs,  \* the jobs of the e-mail queue
          breaker,     \* the circuit breaker: closed, open, half
          bells,       \* the notifications, in the order they were made: unread, read, deleted
          marking,     \* reader -> the notification it loaded, 0 for none
          messagePlot, \* the plot, and the flips, faults and changes left
          setbacks,    \* history: flips, faults and refused sends so far
          unmarked     \* history: the notifications deleted while nobody was marking them

messageVars == <<tellFlag, routes, tellInbox, letters, letterJobs, breaker, bells, marking,
                 messagePlot, setbacks, unmarked>>

Paths == {"durable", "direct"}
Fresh == [at |-> "due", told |-> {}, attempt |-> 1]

\* Without background jobs there is neither an outbox processor nor an e-mail queue.
MessageInit ==
  \E plot \in MessagePlots :
    /\ messagePlot = plot
    /\ tellFlag = plot.durable
    /\ routes = [durable |-> IF plot.queue THEN Fresh ELSE [Fresh EXCEPT !.at = "absent"], direct |-> Fresh]
    /\ tellInbox = FALSE
    /\ letters = [p \in People |-> 0]
    /\ letterJobs = plot.posted
    /\ breaker = "closed"
    /\ bells = <<>>
    /\ marking = [r \in Readers |-> 0]
    /\ setbacks = 0
    /\ unmarked = {}

FlipTellFlag ==
  /\ messagePlot.flips > 0
  /\ tellFlag' = ~tellFlag
  /\ messagePlot' = [messagePlot EXCEPT !.flips = @ - 1]
  /\ setbacks' = setbacks + 1
  /\ UNCHANGED <<routes, tellInbox, letters, letterJobs, breaker, bells, marking, unmarked>>

Setback ==
  /\ messagePlot.faults > 0
  /\ messagePlot' = [messagePlot EXCEPT !.faults = @ - 1]
  /\ setbacks' = setbacks + 1
----------------------------------------------------------------------------
(* MailSenderService: sendEmail, through the breaker, some attempts each.   *)
(* A send that takes longer than the breaker's timeout fails, and may       *)
(* arrive all the same.                                                     *)
SendSucceeds(p) ==
  /\ breaker # "open"
  /\ breaker' = "closed"
  /\ letters' = [letters EXCEPT ![p] = @ + 1]
  /\ UNCHANGED <<messagePlot, setbacks>>

JobAttemptFails(p) ==
  /\ breaker # "open"
  /\ Setback
  /\ breaker' \in (IF breaker = "half" THEN {"open"} ELSE {"closed", "open"})
  /\ letters' \in {letters, [letters EXCEPT ![p] = @ + 1]}

SendFails(p) ==
  \/ JobAttemptFails(p)
  \/ /\ breaker = "open"
     /\ setbacks' = setbacks + 1
     /\ UNCHANGED <<breaker, letters, messagePlot>>

\* resetTimeout.
BreakerReset ==
  /\ breaker = "open"
  /\ breaker' = "half"
  /\ UNCHANGED <<tellFlag, routes, tellInbox, letters, letterJobs, bells, marking, messagePlot, setbacks, unmarked>>
----------------------------------------------------------------------------
(* The two paths.                                                           *)

Taken(path) == tellFlag = (path = "durable")

RouteGoes(path, at) == routes' = [routes EXCEPT ![path].at = at]
Untold(path) == (1..messagePlot.event.to) \ routes[path].told
\* People are told in the order the event names them.
Turn(path, p) == routes[path].at = "telling" /\ p \in Untold(path) /\ \A q \in Untold(path) : p <= q

StartRoute(path) ==
  /\ routes[path].at = "due"
  /\ RouteGoes(path, IF Taken(path) /\ ~(path = "durable" /\ tellInbox) THEN "telling" ELSE "over")
  /\ UNCHANGED <<tellFlag, tellInbox, letters, letterJobs, breaker, bells, marking, messagePlot, setbacks, unmarked>>

\* An attempt of the durable path fails: its transaction is taken back, what it told is not.
Again(route) ==
  IF route.attempt = OutboxAttempts THEN [route EXCEPT !.at = "dead"]
                                    ELSE [Fresh EXCEPT !.attempt = route.attempt + 1]

TellByMail(path, p) ==
  /\ Turn(path, p)
  /\ messagePlot.event.kind = "mail"
  /\ SendSucceeds(p)
  /\ routes' = [routes EXCEPT ![path].told = @ \cup {p}]
  /\ UNCHANGED <<tellFlag, tellInbox, letterJobs, bells, marking, unmarked>>

\* The handler goes on with the next recipient, the consumer throws.
MailNotSent(path, p) ==
  /\ Turn(path, p)
  /\ messagePlot.event.kind = "mail"
  /\ SendFails(p)
  /\ IF path = "direct" THEN routes' = [routes EXCEPT ![path].told = @ \cup {p}]
                        ELSE routes' = [routes EXCEPT ![path] = Again(@)]
  /\ UNCHANGED <<tellFlag, tellInbox, letterJobs, bells, marking, unmarked>>

\* pRetry: another attempt of the same sendEmail follows.
AttemptAgain(p) ==
  /\ \/ messagePlot.event.kind = "mail" /\ \E path \in Paths : Turn(path, p)
     \/ \E j \in DOMAIN letterJobs : letterJobs[j] = [Job(p, "letter") EXCEPT !.attempt = letterJobs[j].attempt]
  /\ JobAttemptFails(p)
  /\ UNCHANGED <<tellFlag, routes, tellInbox, letterJobs, bells, marking, unmarked>>

\* queueCancellationEmail, queuePaymentReceipt: without a queue nothing is sent.
TellByQueue(path, p) ==
  /\ Turn(path, p)
  /\ messagePlot.event.kind = "queued"
  /\ letterJobs' = IF messagePlot.queue THEN Append(letterJobs, Job(p, "again")) ELSE letterJobs
  /\ routes' = [routes EXCEPT ![path].told = @ \cup {p}]
  /\ UNCHANGED <<tellFlag, tellInbox, letters, breaker, bells, marking, messagePlot, setbacks, unmarked>>

\* createNotification saves outside the consumer's transaction.
TellByBell(path, p) ==
  /\ Turn(path, p)
  /\ messagePlot.event.kind = "bell"
  /\ bells' = Append(bells, [to |-> p, row |-> "unread"])
  /\ routes' = [routes EXCEPT ![path].told = @ \cup {p}]
  /\ UNCHANGED <<tellFlag, tellInbox, letters, letterJobs, breaker, marking, messagePlot, setbacks, unmarked>>

\* The queue or the database refuses: the handler gives up, the consumer tries again.
NotTold(path, p) ==
  /\ Turn(path, p)
  /\ messagePlot.event.kind \in {"queued", "bell"}
  /\ Setback
  /\ IF path = "direct" THEN RouteGoes(path, "dead") ELSE routes' = [routes EXCEPT ![path] = Again(@)]
  /\ UNCHANGED <<tellFlag, tellInbox, letters, letterJobs, breaker, bells, marking, unmarked>>

\* recordProcessed, when all were told.
Recorded(path) == routes[path].at = "telling" /\ Untold(path) = {}

FinishRoute(path) ==
  /\ Recorded(path)
  /\ RouteGoes(path, "over")
  /\ tellInbox' = (tellInbox \/ path = "durable")
  /\ UNCHANGED <<tellFlag, letters, letterJobs, breaker, bells, marking, messagePlot, setbacks, unmarked>>

\* The process dies, or the commit fails.
CrashRoute(path) ==
  /\ routes[path].at = "telling"
  /\ Setback
  /\ IF path = "direct" THEN RouteGoes(path, "dead") ELSE routes' = [routes EXCEPT ![path] = Again(@)]
  /\ UNCHANGED <<tellFlag, tellInbox, letters, letterJobs, breaker, bells, marking, unmarked>>
----------------------------------------------------------------------------
(* EmailProcessor.                                                          *)
LetterWaits(j, says) == letterJobs[j].at = "waiting" /\ letterJobs[j].says = says

SendLetter(j) ==
  /\ LetterWaits(j, "letter")
  /\ SendSucceeds(letterJobs[j].to)
  /\ letterJobs' = [letterJobs EXCEPT ![j].at = "done"]
  /\ UNCHANGED <<tellFlag, routes, tellInbox, bells, marking, unmarked>>

\* sendCancellationEmail and sendPaymentReceipt of MailService only put a job into the queue.
QueueLetterAgain(j) ==
  /\ LetterWaits(j, "again")
  /\ Len(letterJobs) < LetterJobsMax
  /\ letterJobs' = Append([letterJobs EXCEPT ![j].at = "done"], Job(letterJobs[j].to, "again"))
  /\ UNCHANGED <<tellFlag, routes, tellInbox, letters, breaker, bells, marking, messagePlot, setbacks, unmarked>>

LetterAfterFailure(job) ==
  IF job.attempt = MailAttempts THEN [job EXCEPT !.at = "dead"] ELSE [job EXCEPT !.attempt = @ + 1]

LetterFails(j) ==
  /\ letterJobs[j].at = "waiting"
  /\ \/ letterJobs[j].says = "letter" /\ SendFails(letterJobs[j].to)
     \/ letterJobs[j].says = "again" /\ Setback /\ UNCHANGED <<breaker, letters>>
  /\ letterJobs' = [letterJobs EXCEPT ![j] = LetterAfterFailure(@)]
  /\ UNCHANGED <<tellFlag, routes, tellInbox, bells, marking, unmarked>>

\* The worker dies after the send: the stalled job is run again.
CrashLetter(j) ==
  /\ LetterWaits(j, "letter")
  /\ breaker # "open"
  /\ Setback
  /\ letters' = [letters EXCEPT ![letterJobs[j].to] = @ + 1]
  /\ UNCHANGED <<tellFlag, routes, tellInbox, letterJobs, breaker, bells, marking, unmarked>>
----------------------------------------------------------------------------
(* The user's side of the notifications.                                    *)
Change ==
  /\ messagePlot.changes > 0
  /\ messagePlot' = [messagePlot EXCEPT !.changes = @ - 1]

\* markAsRead: load ...
LoadBell(r, b) ==
  /\ marking[r] = 0
  /\ bells[b].row = "unread"
  /\ Change
  /\ marking' = [marking EXCEPT ![r] = b]
  /\ UNCHANGED <<tellFlag, routes, tellInbox, letters, letterJobs, breaker, bells, setbacks, unmarked>>

\* ... and save, which inserts the row again when it is gone.
SaveBell(r) ==
  /\ marking[r] # 0
  /\ bells' = [bells EXCEPT ![marking[r]].row = "read"]
  /\ marking' = [marking EXCEPT ![r] = 0]
  /\ UNCHANGED <<tellFlag, routes, tellInbox, letters, letterJobs, breaker, messagePlot, setbacks, unmarked>>

AllRead(bell) == IF bell.row = "unread" THEN [bell EXCEPT !.row = "read"] ELSE bell

MarkAllRead(p) ==
  /\ \E b \in DOMAIN bells : bells[b].to = p
  /\ Change
  /\ bells' = [b \in DOMAIN bells |-> IF bells[b].to = p THEN AllRead(bells[b]) ELSE bells[b]]
  /\ UNCHANGED <<tellFlag, routes, tellInbox, letters, letterJobs, breaker, marking, setbacks, unmarked>>

DeleteBell(b) ==
  /\ bells[b].row # "deleted"
  /\ Change
  /\ bells' = [bells EXCEPT ![b].row = "deleted"]
  /\ unmarked' = IF \A r \in Readers : marking[r] # b THEN unmarked \cup {b} ELSE unmarked
  /\ UNCHANGED <<tellFlag, routes, tellInbox, letters, letterJobs, breaker, marking, setbacks>>

MessageNext ==
  \/ FlipTellFlag \/ BreakerReset
  \/ \E path \in Paths :
       \/ StartRoute(path) \/ FinishRoute(path) \/ CrashRoute(path)
       \/ \E p \in People : \/ TellByMail(path, p) \/ MailNotSent(path, p) \/ TellByQueue(path, p)
                            \/ TellByBell(path, p) \/ NotTold(path, p)
  \/ \E j \in DOMAIN letterJobs : SendLetter(j) \/ QueueLetterAgain(j) \/ LetterFails(j) \/ CrashLetter(j)
  \/ \E r \in Readers : SaveBell(r) \/ \E b \in DOMAIN bells : LoadBell(r, b)
  \/ \E p \in People : MarkAllRead(p) \/ AttemptAgain(p)
  \/ \E b \in DOMAIN bells : DeleteBell(b)

MessageSpec == MessageInit /\ [][MessageNext]_messageVars
----------------------------------------------------------------------------
MessageTypeOK ==
  /\ {tellFlag, tellInbox} \subseteq BOOLEAN /\ breaker \in {"closed", "open", "half"}
  /\ \A path \in Paths : /\ routes[path].at \in {"absent", "due", "telling", "over", "dead"}
                         /\ routes[path].told \subseteq People /\ routes[path].attempt \in 1..OutboxAttempts
  /\ \A j \in DOMAIN letterJobs : letterJobs[j].to \in People /\ letterJobs[j].attempt \in 1..MailAttempts
  /\ \A b \in DOMAIN bells : bells[b].to \in People /\ bells[b].row \in {"unread", "read", "deleted"}
  /\ \A r \in Readers : marking[r] \in 0..Len(bells)

BellsOf(p) == {b \in DOMAIN bells : bells[b].to = p}
LettersFor(p) == {j \in DOMAIN letterJobs : letterJobs[j].to = p}
Told(p) == letters[p] > 0 \/ LettersFor(p) # {} \/ BellsOf(p) # {}

\* Without background jobs only the direct path is there, and only where the switch is off.
Reachable == messagePlot.queue \/ (~tellFlag /\ messagePlot.event.kind # "queued")

(* The event is in the inbox only when every recipient was told; a letter  *)
(* of the queue was sent, or failed as often as it may; and an             *)
(* event that met no setback and can reach anybody was told to everybody   *)
(* when the paths are over.                                                *)
EverybodyTold ==
  /\ tellInbox => \A p \in 1..messagePlot.event.to : Told(p)
  /\ \A j \in DOMAIN letterJobs :
       /\ letterJobs[j].at = "done" /\ letterJobs[j].says = "letter" => letters[letterJobs[j].to] > 0
       /\ letterJobs[j].at = "dead" => setbacks >= MailAttempts
  /\ Reachable /\ setbacks = 0 /\ (\A path \in Paths : routes[path].at \in {"over", "absent"}) =>
       \A p \in 1..messagePlot.event.to : Told(p)

\* Every copy but the ones owed has a failure, a crash or a flip of the switch behind it.
Owed(p) == Cardinality({j \in LettersFor(p) : letterJobs[j].says = "letter"})
             + (IF messagePlot.event.kind # "queued" /\ p <= messagePlot.event.to THEN 1 ELSE 0)
ToldAgainForAReason ==
  \A p \in People : letters[p] + Cardinality(BellsOf(p)) <= Owed(p) + setbacks

\* A notification deleted while nobody was marking it does not come back.
DeletedBellsStay == \A b \in unmarked : bells[b].row = "deleted"

MessagesArrive == EverybodyTold /\ ToldAgainForAReason /\ DeletedBellsStay

(* "should send booking cancellation email": a job of the e-mail queue that *)
(* is done has sent its e-mail.                                             *)
DoneJobsWereSent == \A j \in DOMAIN letterJobs : letterJobs[j].at = "done" => letters[letterJobs[j].to] > 0
==============================================================================
