--------------------------- MODULE WebhookDelivery ---------------------------
(***************************************************************************)
(* The webhooks of one tenant: an event goes out by the durable path, the  *)
(* consumer of the outbox, or by the in-process path, the CQRS handler,    *)
(* whichever a kill switch chooses when each of them looks at it.  Both    *)
(* emit one job per endpoint; a job makes a delivery row, sends the        *)
(* request and writes the outcome into the row.                            *)
(***************************************************************************)
EXTENDS Naturals, FiniteSets, Sequences

CONSTANTS Endpoints,        \* webhooks
          EmitAttempts,     \* attempts of the outbox queue at the durable path
          DeliveryAttempts, \* attempts of a webhook job; MAX_RETRIES inline
          HookPlots         \* [endpoints, queue, durable, flips, faults]

ASSUME HookAssumption ==
  /\ {EmitAttempts, DeliveryAttempts} \subseteq Nat \ {0}
  /\ HookPlots \subseteq [endpoints : SUBSET Endpoints, queue : BOOLEAN, durable : BOOLEAN, flips : Nat, faults : Nat]

VARIABLES durableFlag, \* the kill switch DURABLE_WEBHOOK_EVENTS_FLAG
          paths,       \* path -> how far it is and what it still has to emit
          hookInbox,   \* whether the consumer's inbox has the event
          hookJobs,    \* the webhook jobs, with the state of their delivery row
          received,    \* <<endpoint, message id>> of what the endpoints got
          hookPlot,    \* the plot, and the flips and faults left
          mishaps      \* history: the flips and faults so far

hookVars == <<durableFlag, paths, hookInbox, hookJobs, received, hookPlot, mishaps>>

Listening == hookPlot.endpoints \* the active webhooks that listen to the event
NotStarted == [at |-> "due", left |-> {}, failed |-> FALSE, attempt |-> 1]

\* The event is committed to the outbox and published in the process; without
\* background jobs there is neither an outbox processor nor a queue.
HookInit ==
  \E plot \in HookPlots :
    /\ hookPlot = plot
    /\ durableFlag = plot.durable
    /\ paths = [durable |-> IF plot.queue THEN NotStarted ELSE [NotStarted EXCEPT !.at = "absent"],
                direct  |-> NotStarted]
    /\ hookInbox = FALSE
    /\ hookJobs = <<>>
    /\ received = {}
    /\ mishaps = 0

Fails ==
  /\ hookPlot.faults > 0
  /\ hookPlot' = [hookPlot EXCEPT !.faults = @ - 1]
  /\ mishaps' = mishaps + 1
PathGoes(p, at) == paths' = [paths EXCEPT ![p].at = at]

FlipSwitch ==
  /\ hookPlot.flips > 0
  /\ durableFlag' = ~durableFlag
  /\ hookPlot' = [hookPlot EXCEPT !.flips = @ - 1]
  /\ mishaps' = mishaps + 1
  /\ UNCHANGED <<paths, hookInbox, hookJobs, received>>

\* Each path looks at the switch by itself, when its turn comes.
Chosen(p) == durableFlag = (p = "durable")

StartPath(p) ==
  /\ paths[p].at = "due"
  /\ paths' = [paths EXCEPT ![p].at = IF Chosen(p) /\ ~(p = "durable" /\ hookInbox) THEN "emitting" ELSE "over",
                            ![p].left = Listening, ![p].failed = FALSE]
  /\ UNCHANGED <<durableFlag, hookInbox, hookJobs, received, hookPlot, mishaps>>

NewJob(p, w) == [endpoint |-> w, path |-> p, at |-> "waiting", attempt |-> 1, row |-> "none", starts |-> 0]

\* emit adds a job for every endpoint, or starts to send inline; all are tried.
EmitTo(p, w) ==
  /\ paths[p].at = "emitting"
  /\ w \in paths[p].left
  /\ paths' = [paths EXCEPT ![p].left = @ \ {w}]
  /\ hookJobs' = Append(hookJobs, NewJob(p, w))
  /\ UNCHANGED <<durableFlag, hookInbox, received, hookPlot, mishaps>>

EmitFails(p, w) ==
  /\ paths[p].at = "emitting"
  /\ w \in paths[p].left
  /\ hookPlot.queue
  /\ Fails
  /\ paths' = [paths EXCEPT ![p].left = @ \ {w}, ![p].failed = TRUE]
  /\ UNCHANGED <<durableFlag, hookInbox, hookJobs, received>>

\* A failed attempt of the durable path: its transaction is taken back.
TriedAgain(path) ==
  IF path.attempt = EmitAttempts THEN [path EXCEPT !.at = "dead"]
                                 ELSE [NotStarted EXCEPT !.attempt = path.attempt + 1]

\* Mutation: the inbox is recorded although an endpoint was not reached.
GivesUpNever(p) == FALSE

\* The handler swallows what fails; the consumer throws.
GivesUp(p) == p = "durable" /\ paths[p].failed

FinishPath(p) ==
  /\ paths[p].at = "emitting"
  /\ paths[p].left = {}
  /\ ~hookPlot.queue => \A j \in DOMAIN hookJobs : hookJobs[j].at \in {"done", "dead"}
  /\ IF GivesUp(p)
       THEN /\ paths' = [paths EXCEPT ![p] = TriedAgain(@)]
            /\ UNCHANGED hookInbox
       ELSE /\ PathGoes(p, "over")
            /\ hookInbox' = (hookInbox \/ p = "durable")
  /\ UNCHANGED <<durableFlag, hookJobs, received, hookPlot, mishaps>>

(* The process dies, or the commit fails, before the inbox is recorded;    *)
(* what it was sending inline ends with it.                                *)
CrashEmitter(p) ==
  /\ paths[p].at = "emitting"
  /\ Fails
  /\ IF p = "durable" THEN paths' = [paths EXCEPT ![p] = TriedAgain(@)] ELSE PathGoes(p, "dead")
  /\ hookJobs' = IF hookPlot.queue THEN hookJobs
                  ELSE [j \in DOMAIN hookJobs |-> [hookJobs[j] EXCEPT !.at = IF @ = "done" THEN @ ELSE "dead"]]
  /\ UNCHANGED <<durableFlag, hookInbox, received>>
----------------------------------------------------------------------------
(* A job.  Its message id is the id of its delivery row.                    *)
JobGoes(j, at, row) == hookJobs' = [hookJobs EXCEPT ![j].at = at, ![j].row = row]

\* The queue makes a row whenever the job starts; inline, the attempts share one.
MessageId(j) == <<j, IF hookPlot.queue THEN hookJobs[j].starts ELSE 1>>

StartDelivery(j) ==
  /\ hookJobs[j].at = "waiting"
  /\ hookJobs' = [hookJobs EXCEPT ![j].at = "sending", ![j].row = "PENDING", ![j].starts = @ + 1]
  /\ UNCHANGED <<durableFlag, paths, hookInbox, received, hookPlot, mishaps>>

Retried(job, row) ==
  IF job.attempt = DeliveryAttempts
    THEN [job EXCEPT !.at = "dead", !.row = row]
    ELSE [job EXCEPT !.at = "waiting", !.row = row, !.attempt = @ + 1]

\* recordFailure: the queue's row has one attempt, the inline row has them all.
FailedRow(job) == IF hookPlot.queue \/ job.attempt = DeliveryAttempts THEN "FAILED" ELSE "RETRYING"

\* A failure before the request is sent writes nothing into the row.
BlockDelivery(j) ==
  /\ hookJobs[j].at = "sending"
  /\ Fails
  /\ hookJobs' = [hookJobs EXCEPT ![j] = Retried(@, "PENDING")]
  /\ UNCHANGED <<durableFlag, paths, hookInbox, received>>

SendRequest(j) ==
  /\ hookJobs[j].at = "sending"
  /\ received' = received \cup {<<hookJobs[j].endpoint, MessageId(j)>>}
  /\ JobGoes(j, "answered", "PENDING")
  /\ UNCHANGED <<durableFlag, paths, hookInbox, hookPlot, mishaps>>

\* No answer, or another than 2xx; the endpoint may have got the request.
RequestFails(j) ==
  /\ hookJobs[j].at = "sending"
  /\ Fails
  /\ received' \in {received, received \cup {<<hookJobs[j].endpoint, MessageId(j)>>}}
  /\ JobGoes(j, "refused", "PENDING")
  /\ UNCHANGED <<durableFlag, paths, hookInbox>>

Outcome2xx(job) == IF job.at = "answered" THEN "SUCCESS" ELSE FailedRow(job)

RecordOutcome(j) ==
  /\ hookJobs[j].at \in {"answered", "refused"}
  /\ IF Outcome2xx(hookJobs[j]) = "SUCCESS"
       THEN JobGoes(j, "done", "SUCCESS")
       ELSE hookJobs' = [hookJobs EXCEPT ![j] = Retried(@, FailedRow(@))]
  /\ UNCHANGED <<durableFlag, paths, hookInbox, received, hookPlot, mishaps>>

\* The save of the success fails: the catch block records a failure.
SaveOfSuccessFails(j) ==
  /\ hookJobs[j].at = "answered"
  /\ Fails
  /\ JobGoes(j, "refused", "PENDING")
  /\ UNCHANGED <<durableFlag, paths, hookInbox, received>>

\* The worker dies: the stalled job starts over, as the same attempt.
CrashDelivery(j) ==
  /\ hookJobs[j].at \in {"sending", "answered", "refused"}
  /\ hookPlot.queue
  /\ Fails
  /\ JobGoes(j, "waiting", hookJobs[j].row)
  /\ UNCHANGED <<durableFlag, paths, hookInbox, received>>

HookNext ==
  \/ FlipSwitch
  \/ \E p \in {"durable", "direct"} :
       \/ StartPath(p) \/ FinishPath(p) \/ CrashEmitter(p)
       \/ \E w \in Listening : EmitTo(p, w) \/ EmitFails(p, w)
  \/ \E j \in DOMAIN hookJobs :
       \/ StartDelivery(j) \/ BlockDelivery(j) \/ SendRequest(j) \/ RequestFails(j)
       \/ RecordOutcome(j) \/ SaveOfSuccessFails(j) \/ CrashDelivery(j)

HookSpec == HookInit /\ [][HookNext]_hookVars
----------------------------------------------------------------------------
HookTypeOK ==
  /\ durableFlag \in BOOLEAN /\ hookInbox \in BOOLEAN
  /\ \A p \in {"durable", "direct"} :
       /\ paths[p].at \in {"absent", "due", "emitting", "over", "dead"}
       /\ paths[p].left \subseteq Endpoints /\ paths[p].attempt \in 1..EmitAttempts
  /\ \A j \in DOMAIN hookJobs :
       /\ hookJobs[j].endpoint \in Endpoints /\ hookJobs[j].attempt \in 1..DeliveryAttempts
       /\ hookJobs[j].at \in {"waiting", "sending", "answered", "refused", "done", "dead"}
       /\ hookJobs[j].row \in {"none", "PENDING", "SUCCESS", "FAILED", "RETRYING"}

Ended == \A j \in DOMAIN hookJobs : hookJobs[j].at \in {"done", "dead"}
Got(w) == {r \in received : r[1] = w}

(* The event the consumer's inbox records has a job for every endpoint,    *)
(* and every one of them ends with the endpoint having got the event or    *)
(* with its attempts used up; a job that ended well had its request        *)
(* answered.                                                               *)
EveryEndpointReached ==
  /\ hookInbox /\ Ended => \A w \in Listening :
       \/ Got(w) # {}
       \/ \E j \in DOMAIN hookJobs : hookJobs[j].endpoint = w /\ hookJobs[j].at = "dead"
  /\ \A j \in DOMAIN hookJobs : hookJobs[j].at = "done" =>
       \E r \in received : r[1] = hookJobs[j].endpoint /\ r[2][1] = j

(* Without a fault and a flip of the switch each endpoint gets the event   *)
(* once, by one of the paths; every further copy has a fault, or a flip    *)
(* between the looks of the two paths, behind it.                          *)
CopiesHaveReasons == \A w \in Listening : Cardinality(Got(w)) <= 1 + mishaps

(* Every path that could take the event is over.  Without background jobs  *)
(* there is no durable path: while the switch chooses it all the same, the *)
(* event goes to nobody, and nothing is claimed.                           *)
PathsOver ==
  /\ paths.direct.at = "over"
  /\ paths.durable.at = "over" \/ (paths.durable.at = "absent" /\ ~durableFlag)

\* An event is not lost by both paths unless the switch was flipped between them.
SomePathTakesIt ==
  (PathsOver /\ Ended /\ mishaps = 0) => \A w \in Listening : Got(w) # {}

WebhooksDelivered == EveryEndpointReached /\ CopiesHaveReasons /\ SomePathTakesIt
==============================================================================
