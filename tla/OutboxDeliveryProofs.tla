------------------------ MODULE OutboxDeliveryProofs ------------------------
(***************************************************************************)
(* Theorems about OutboxDelivery, for every set of events, relays and      *)
(* workers, every batch size and retry limit, and every number of faults:  *)
(* nothing committed is lost, nothing is repeated without a fault of a     *)
(* worker or a consumer, and the relay, the queue, the processor and the   *)
(* inbox implement DurableDelivery.                                        *)
(***************************************************************************)
EXTENDS OutboxDelivery, FiniteSetTheorems, TLAPS

(* A route is a sequence of categories. *)
LEMMA RouteType == \A e \in Events : Route(e) \in Seq(Categories)
  <1> SUFFICES ASSUME NEW e \in Events PROVE Route(e) \in Seq(Categories)
    OBVIOUS
  <1> DEFINE part(types, category) == IF TypeOf[e] \in types THEN <<category>> ELSE << >>
  <1>1. \A types : \A c \in Categories : part(types, c) \in Seq(Categories)
    OBVIOUS
  <1>2. Route(e) = part(FinancialTypes, "financial") \o part(InvoiceTypes, "invoice")
                   \o part(NotificationTypes, "notification") \o part(MailTypes, "mail")
                   \o part(WebhookTypes, "webhook")
    BY Zenon DEF Route
  <1>3. {"financial", "invoice", "notification", "mail", "webhook"} = Categories
    BY DEF Categories
  <1> HIDE DEF part
  <1>4. /\ part(FinancialTypes, "financial") \in Seq(Categories)
        /\ part(InvoiceTypes, "invoice") \in Seq(Categories)
        /\ part(NotificationTypes, "notification") \in Seq(Categories)
        /\ part(MailTypes, "mail") \in Seq(Categories)
        /\ part(WebhookTypes, "webhook") \in Seq(Categories)
    BY <1>1, <1>3
  <1> QED BY <1>2, <1>4

----------------------------------------------------------------------------
(* Type correctness, the workers' part first.                               *)
WorkersOK ==
    /\ worker \in [Workers -> Run]
    /\ \A w \in Workers : Busy(w) => worker[w].at \in 1..(Len(Route(EventOf(w))) + 1)

(* A worker at a consumer is at a category of its event. *)
LEMMA ConsumerType ==
    ASSUME WorkersOK, NEW w \in Workers, NEW stage, AtConsumer(w, stage)
    PROVE  /\ EventOf(w) \in Events
           /\ worker[w].at \in 1..Len(Route(EventOf(w)))
           /\ ConsumerAt(w) \in Categories
           /\ ConsumerAt(w) \in CategoriesOf(EventOf(w))
  <1>1. EventOf(w) \in Events /\ worker[w].at \in Nat
    BY DEF WorkersOK, AtConsumer, Busy, EventOf, Run
  <1>2. worker[w].at \in 1..(Len(Route(EventOf(w))) + 1)
    BY DEF WorkersOK, AtConsumer
  <1>3. Route(EventOf(w)) \in Seq(Categories)
    BY <1>1, RouteType
  <1>4. worker[w].at \in 1..Len(Route(EventOf(w)))
    BY <1>2, <1>3 DEF AtConsumer
  <1>5. worker[w].at \in DOMAIN Route(EventOf(w)) /\ ConsumerAt(w) \in Categories
    BY <1>3, <1>4 DEF ConsumerAt
  <1> QED BY <1>1, <1>4, <1>5 DEF CategoriesOf, ConsumerAt

(* Putting one worker at a place of a route, or making it idle. *)
LEMMA PlaceType ==
    ASSUME WorkersOK, NEW w \in Workers, NEW e \in Events,
           NEW at \in 1..(Len(Route(e)) + 1), NEW stage \in {"next", "claimed", "applied"},
           worker' = [worker EXCEPT ![w] = Place(e, at, stage)]
    PROVE  WorkersOK'
  <1>1. Len(Route(e)) \in Nat /\ at \in Nat
    BY RouteType
  <1>2. worker' \in [Workers -> Run]
    BY <1>1 DEF WorkersOK, Run, Place
  <1>3. ASSUME NEW v \in Workers, Busy(v)'
        PROVE  (worker[v].at \in 1..(Len(Route(EventOf(v))) + 1))'
    <2>1. CASE v = w
      <3>1. worker'[w].at = at /\ worker'[w].event = e
        BY DEF WorkersOK, Place
      <3> QED BY <2>1, <3>1 DEF EventOf
    <2>2. CASE v # w
      <3>1. worker'[v] = worker[v]
        BY <2>2 DEF WorkersOK
      <3> QED BY <3>1, <1>3 DEF WorkersOK, EventOf, Busy
    <2> QED BY <2>1, <2>2
  <1> QED BY <1>2, <1>3 DEF WorkersOK

LEMMA IdleType ==
    ASSUME WorkersOK, NEW w \in Workers, worker' = [worker EXCEPT ![w] = Idle]
    PROVE  WorkersOK'
  <1>1. worker' \in [Workers -> Run]
    BY DEF WorkersOK, Run, Idle, Place
  <1>2. ASSUME NEW v \in Workers, Busy(v)'
        PROVE  (worker[v].at \in 1..(Len(Route(EventOf(v))) + 1))'
    <2>1. v # w /\ worker'[v] = worker[v]
      BY <1>2 DEF WorkersOK, Busy, EventOf, Idle, Place
    <2> QED BY <2>1, <1>2 DEF WorkersOK, EventOf, Busy
  <1> QED BY <1>1, <1>2 DEF WorkersOK

(* The worker moves on to its next place. *)
LEMMA MoveOnType ==
    ASSUME WorkersOK, NEW w \in Workers, NEW stage, AtConsumer(w, stage), MoveOn(w)
    PROVE  WorkersOK'
  <1>1. EventOf(w) \in Events /\ worker[w].at \in 1..Len(Route(EventOf(w)))
    BY ConsumerType
  <1>2. Len(Route(EventOf(w))) \in Nat
    BY <1>1, RouteType
  <1>3. worker[w].at + 1 \in 1..(Len(Route(EventOf(w))) + 1)
    BY <1>1, <1>2
  <1> QED BY <1>1, <1>3, PlaceType DEF MoveOn

(* It stays at its place and goes to the next stage. *)
LEMMA StageType ==
    ASSUME WorkersOK, NEW w \in Workers, NEW before, AtConsumer(w, before),
           NEW stage \in {"claimed", "applied"},
           worker' = [worker EXCEPT ![w] = Place(EventOf(w), worker[w].at, stage)]
    PROVE  WorkersOK'
  <1>1. EventOf(w) \in Events /\ worker[w].at \in 1..Len(Route(EventOf(w)))
    BY ConsumerType
  <1>2. Len(Route(EventOf(w))) \in Nat
    BY <1>1, RouteType
  <1>3. worker[w].at \in 1..(Len(Route(EventOf(w))) + 1)
    BY <1>1, <1>2
  <1> QED BY <1>1, <1>3, PlaceType

(* The rest of the type invariant. *)
RowsOK == row \in [Events -> Row] /\ mine \in [Relays -> [Events -> Copy]]
JobsOK == job \in [Events -> Job]
TallyOK == /\ enabled \subseteq Categories
           /\ inbox \in [Events -> SUBSET Categories]
           /\ applied \in [Events -> [Categories -> Nat]]
           /\ waived \in [Events -> SUBSET Categories]
           /\ finished \subseteq Events
           /\ faults \in [FaultKinds -> Nat]

LEMMA TypeParts == TypeOK <=> RowsOK /\ JobsOK /\ WorkersOK /\ TallyOK
  BY DEF TypeOK, RowsOK, JobsOK, WorkersOK, TallyOK

(* Jobs. *)
LEMMA JobSetType ==
    ASSUME JobsOK, NEW e \in Events, NEW state \in {"none", "queued", "active", "failed"},
           NEW attempts \in Nat, NEW stalled \in BOOLEAN,
           NEW owner \in Workers \cup {NoWorker},
           job' = [job EXCEPT ![e] = JobIn(state, attempts, stalled, owner)]
    PROVE  JobsOK'
  BY DEF JobsOK, Job, JobIn

LEMMA WithJobType ==
    ASSUME JobsOK, NEW e \in Events
    PROVE  WithJob(e) \in [Events -> Job]
  BY DEF JobsOK, Job, JobIn, WithJob

LEMMA AttemptFailedType ==
    ASSUME WorkersOK, JobsOK, NEW w \in Workers, NEW stage, AtConsumer(w, stage),
           AttemptFailed(w)
    PROVE  WorkersOK' /\ JobsOK'
  <1> DEFINE e == EventOf(w)
             attempts == job[e].attempts + 1
             next == IF attempts >= MaxAttempts THEN "failed" ELSE "queued"
  <1>1. WorkersOK'
    BY IdleType DEF AttemptFailed
  <1>2. e \in Events
    BY ConsumerType
  <1>3. CASE job[e].owner = w
    <2>1. job' = [job EXCEPT ![e] = JobIn(next, attempts, job[e].stalled, NoWorker)]
      BY <1>3, Zenon DEF AttemptFailed
    <2>2. attempts \in Nat /\ job[e].stalled \in BOOLEAN
      BY <1>2 DEF JobsOK, Job
    <2>3. next \in {"none", "queued", "active", "failed"}
      OBVIOUS
    <2> HIDE DEF attempts, next
    <2> QED BY <1>1, <1>2, <2>1, <2>2, <2>3, JobSetType
  <1>4. CASE job[e].owner # w
    BY <1>1, <1>4 DEF AttemptFailed, JobsOK
  <1> QED BY <1>1, <1>3, <1>4

LEMMA FaultType ==
    ASSUME faults \in [FaultKinds -> Nat], NEW k \in FaultKinds, Fault(k)
    PROVE  /\ faults' \in [FaultKinds -> Nat]
           /\ faults'[k] = faults[k] + 1
           /\ \A m \in FaultKinds : m # k => faults'[m] = faults[m]
  BY DEF Fault

LEMMA CopySetType ==
    ASSUME RowsOK, NEW r \in Relays, NEW e \in Events, NEW stage \in {"added", "refused"},
           mine' = [mine EXCEPT ![r][e] = CopyAt(stage, @.retries)]
    PROVE  mine' \in [Relays -> [Events -> Copy]]
  <1>1. CopyAt(stage, mine[r][e].retries) \in Copy
    BY DEF RowsOK, Copy, CopyAt
  <1> QED BY <1>1 DEF RowsOK

LEMMA SaveRowType ==
    ASSUME RowsOK, NEW r \in Relays, NEW e \in Events,
           NEW status \in RowStatuses, NEW retries \in Nat, NEW leased \in BOOLEAN,
           SaveRow(r, e, status, retries, leased)
    PROVE  RowsOK'
  BY DEF RowsOK, SaveRow, Row, Copy, NoCopy, CopyAt

THEOREM InitType == Init => TypeOK
  BY DEF Init, TypeOK, Row, Copy, NoCopy, CopyAt, RowStatuses, Job, NoJob, JobIn, Run, Idle, Place, Busy, EventOf

(* Every step keeps the types: one case per action. *)
LEMMA StepType == TypeOK /\ [Next]_vars => TypeOK'
  <1> SUFFICES ASSUME RowsOK, JobsOK, WorkersOK, TallyOK, [Next]_vars
               PROVE  RowsOK' /\ JobsOK' /\ WorkersOK' /\ TallyOK'
    BY TypeParts DEF RowsOK, JobsOK, WorkersOK, Busy, EventOf, TallyOK, TypeOK
  <1>1. CASE UNCHANGED vars
    BY <1>1 DEF vars, RowsOK, JobsOK, WorkersOK, Busy, EventOf, TallyOK
  <1>2. ASSUME NEW e \in Events, Commit(e) PROVE RowsOK' /\ JobsOK' /\ WorkersOK' /\ TallyOK'
    BY <1>2 DEF Commit, RowsOK, JobsOK, WorkersOK, Busy, EventOf, TallyOK, Row, RowStatuses
  <1>3. ASSUME NEW e \in Events, LeaseOver(e) PROVE RowsOK' /\ JobsOK' /\ WorkersOK' /\ TallyOK'
    BY <1>3 DEF LeaseOver, RowsOK, JobsOK, WorkersOK, Busy, EventOf, TallyOK, Row, RowStatuses
  <1>4. ASSUME NEW e \in Events, JobRecovered(e) PROVE RowsOK' /\ JobsOK' /\ WorkersOK' /\ TallyOK'
    <2>1. JobsOK'
      BY <1>4 DEF JobRecovered, BackToQueue, JobsOK, Job, JobIn
    <2> QED BY <1>4, <2>1 DEF JobRecovered, RowsOK, WorkersOK, Busy, EventOf, TallyOK
  <1>5. ASSUME NEW r \in Relays, Claim(r) PROVE RowsOK' /\ JobsOK' /\ WorkersOK' /\ TallyOK'
    <2>1. RowsOK'
      <3>1. PICK batch \in SUBSET Events :
               /\ row' = [e \in Events |-> IF e \in batch THEN [row[e] EXCEPT !.leased = TRUE]
                                           ELSE row[e]]
               /\ mine' = [mine EXCEPT ![r] = [e \in Events |->
                     IF e \in batch THEN CopyAt("claimed", row[e].retries) ELSE NoCopy]]
        BY <1>5 DEF Claim
      <3>2. row' \in [Events -> Row]
        BY <3>1 DEF RowsOK, Row
      <3>3. \A e \in Events :
               (IF e \in batch THEN CopyAt("claimed", row[e].retries) ELSE NoCopy) \in Copy
        BY DEF RowsOK, Row, Copy, CopyAt, NoCopy
      <3>4. mine' \in [Relays -> [Events -> Copy]]
        BY <3>1, <3>3 DEF RowsOK
      <3> QED BY <3>2, <3>4 DEF RowsOK
    <2> QED BY <1>5, <2>1 DEF Claim, JobsOK, WorkersOK, Busy, EventOf, TallyOK
  <1>6. ASSUME NEW r \in Relays, NEW e \in Events,
               SkipKilled(r, e) \/ SaveDispatched(r, e) \/ SaveRefused(r, e)
        PROVE  RowsOK' /\ JobsOK' /\ WorkersOK' /\ TallyOK'
    <2>1. mine[r][e].retries \in Nat
      BY DEF RowsOK, Copy
    <2>2. StatusAfterRefusal(mine[r][e].retries + 1) \in RowStatuses
      BY DEF StatusAfterRefusal, RowStatuses
    <2>3. {"FAILED", "DISPATCHED"} \subseteq RowStatuses /\ {TRUE, FALSE} = BOOLEAN
      BY DEF RowStatuses
    <2>4. mine[r][e].retries + 1 \in Nat
      BY <2>1
    <2>5. CASE SkipKilled(r, e)
      BY <2>5, <2>1, <2>3, SaveRowType DEF SkipKilled, JobsOK, WorkersOK, Busy, EventOf, TallyOK
    <2>6. CASE SaveDispatched(r, e)
      BY <2>6, <2>1, <2>3, SaveRowType DEF SaveDispatched, JobsOK, WorkersOK, Busy, EventOf, TallyOK
    <2>7. CASE SaveRefused(r, e)
      BY <2>7, <2>2, <2>3, <2>4, SaveRowType DEF SaveRefused, JobsOK, WorkersOK, Busy, EventOf, TallyOK
    <2> QED BY <1>6, <2>5, <2>6, <2>7
  <1>7. ASSUME NEW r \in Relays, NEW e \in Events, Enqueue(r, e)
        PROVE  RowsOK' /\ JobsOK' /\ WorkersOK' /\ TallyOK'
    BY <1>7, WithJobType, CopySetType DEF Enqueue, RowsOK, JobsOK, WorkersOK, Busy, EventOf, TallyOK
  <1>8. ASSUME NEW r \in Relays, NEW e \in Events, EnqueueFails(r, e)
        PROVE  RowsOK' /\ JobsOK' /\ WorkersOK' /\ TallyOK'
    <2>1. RowsOK' /\ JobsOK' /\ WorkersOK'
      BY <1>8, WithJobType, CopySetType DEF EnqueueFails, RowsOK, JobsOK, WorkersOK, Busy, EventOf
    <2> QED BY <1>8, <2>1, FaultType DEF EnqueueFails, TallyOK, FaultKinds
  <1>9. ASSUME NEW r \in Relays, RelayCrash(r) PROVE RowsOK' /\ JobsOK' /\ WorkersOK' /\ TallyOK'
    <2>1. RowsOK' /\ JobsOK' /\ WorkersOK'
      BY <1>9 DEF RelayCrash, RowsOK, Copy, NoCopy, CopyAt, JobsOK, WorkersOK, Busy, EventOf
    <2> QED BY <1>9, <2>1, FaultType DEF RelayCrash, TallyOK, FaultKinds
  <1>10. ASSUME NEW w \in Workers, NEW e \in Events, Take(w, e)
         PROVE  RowsOK' /\ JobsOK' /\ WorkersOK' /\ TallyOK'
    <2>1. Len(Route(e)) \in Nat
      BY RouteType
    <2>2. 1 \in 1..(Len(Route(e)) + 1)
      BY <2>1
    <2>3. WorkersOK'
      BY <1>10, <2>2, PlaceType DEF Take
    <2>4. JobsOK'
      BY <1>10 DEF Take, JobsOK, Job, JobIn
    <2> QED BY <1>10, <2>3, <2>4 DEF Take, RowsOK, TallyOK
  <1>11. ASSUME NEW w \in Workers, PassOver(w) PROVE RowsOK' /\ JobsOK' /\ WorkersOK' /\ TallyOK'
    <2>1. WorkersOK' /\ ConsumerAt(w) \in Categories
      BY <1>11, MoveOnType, ConsumerType DEF PassOver
    <2> QED BY <1>11, <2>1 DEF PassOver, RowsOK, JobsOK, TallyOK
  <1>12. ASSUME NEW w \in Workers, Duplicate(w) PROVE RowsOK' /\ JobsOK' /\ WorkersOK' /\ TallyOK'
    <2>1. WorkersOK'
      BY <1>12, MoveOnType DEF Duplicate
    <2> QED BY <1>12, <2>1 DEF Duplicate, RowsOK, JobsOK, TallyOK
  <1>13. ASSUME NEW w \in Workers, TryClaim(w) PROVE RowsOK' /\ JobsOK' /\ WorkersOK' /\ TallyOK'
    <2>1. WorkersOK'
      BY <1>13, StageType DEF TryClaim
    <2> QED BY <1>13, <2>1 DEF TryClaim, RowsOK, JobsOK, TallyOK
  <1>14. ASSUME NEW w \in Workers, Apply(w) PROVE RowsOK' /\ JobsOK' /\ WorkersOK' /\ TallyOK'
    <2>1. WorkersOK' /\ ConsumerAt(w) \in Categories
      BY <1>14, StageType, ConsumerType DEF Apply
    <2>2. applied' \in [Events -> [Categories -> Nat]]
      <3> DEFINE e == EventOf(w)
                 c == ConsumerAt(w)
                 times == IF c \in Idempotent THEN 1 ELSE applied[e][c] + 1
      <3>1. e \in Events
        BY <1>14, ConsumerType DEF Apply
      <3>2. times \in Nat
        BY <2>1, <3>1 DEF TallyOK
      <3>3. applied' = [applied EXCEPT ![e][c] = times]
        BY <1>14, Zenon DEF Apply
      <3> HIDE DEF times, e, c
      <3> QED BY <2>1, <3>1, <3>2, <3>3 DEF TallyOK
    <2> QED BY <1>14, <2>1, <2>2 DEF Apply, RowsOK, JobsOK, TallyOK
  <1>15. ASSUME NEW w \in Workers, Record(w) PROVE RowsOK' /\ JobsOK' /\ WorkersOK' /\ TallyOK'
    <2>1. ConsumerAt(w) \in Categories
      BY <1>15, ConsumerType DEF Record
    <2>2. WorkersOK' /\ JobsOK'
      BY <1>15, MoveOnType, AttemptFailedType DEF Record, JobsOK
    <2>3. inbox' \in [Events -> SUBSET Categories]
      BY <1>15, <2>1 DEF Record, TallyOK
    <2> QED BY <1>15, <2>2, <2>3 DEF Record, RowsOK, TallyOK
  <1>16. ASSUME NEW w \in Workers, ConsumerThrows(w)
         PROVE  RowsOK' /\ JobsOK' /\ WorkersOK' /\ TallyOK'
    <2>1. WorkersOK' /\ JobsOK'
      BY <1>16, AttemptFailedType DEF ConsumerThrows
    <2> QED BY <1>16, <2>1, FaultType DEF ConsumerThrows, RowsOK, TallyOK, FaultKinds
  <1>17. ASSUME NEW w \in Workers, Finish(w) PROVE RowsOK' /\ JobsOK' /\ WorkersOK' /\ TallyOK'
    <2>1. EventOf(w) \in Events
      BY <1>17 DEF Finish, WorkersOK, Run, Busy, EventOf
    <2>2. WorkersOK'
      BY <1>17, IdleType DEF Finish
    <2>3. JobsOK'
      <3>1. NoJob \in Job
        BY DEF NoJob, Job, JobIn
      <3>2. job' = job \/ job' = [job EXCEPT ![EventOf(w)] = NoJob]
        BY <1>17 DEF Finish
      <3> QED BY <2>1, <3>1, <3>2 DEF JobsOK
    <2> QED BY <1>17, <2>1, <2>2, <2>3 DEF Finish, RowsOK, TallyOK
  <1>18. ASSUME NEW w \in Workers, WorkerCrash(w) PROVE RowsOK' /\ JobsOK' /\ WorkersOK' /\ TallyOK'
    <2>1. WorkersOK'
      BY <1>18, IdleType DEF WorkerCrash
    <2> QED BY <1>18, <2>1, FaultType DEF WorkerCrash, RowsOK, JobsOK, TallyOK, FaultKinds
  <1>19. ASSUME NEW e \in Events, JobStalls(e) PROVE RowsOK' /\ JobsOK' /\ WorkersOK' /\ TallyOK'
    <2>1. JobsOK'
      BY <1>19 DEF JobStalls, BackToQueue, JobsOK, Job, JobIn
    <2> QED BY <1>19, <2>1, FaultType DEF JobStalls, RowsOK, WorkersOK, Busy, EventOf, TallyOK, FaultKinds
  <1>20. ASSUME NEW e \in Events, Replay(e) PROVE RowsOK' /\ JobsOK' /\ WorkersOK' /\ TallyOK'
    <2>1. RowsOK'
      BY <1>20 DEF Replay, RowsOK, Row, RowStatuses
    <2> QED BY <1>20, <2>1, FaultType DEF Replay, JobsOK, WorkersOK, Busy, EventOf, TallyOK, FaultKinds
  <1>21. ASSUME NEW c \in Switches, Flip(c) PROVE RowsOK' /\ JobsOK' /\ WorkersOK' /\ TallyOK'
    <2>1. c \in Categories
      BY SwitchesAssumption DEF Categories
    <2> QED BY <1>21, <2>1, FaultType DEF Flip, RowsOK, JobsOK, WorkersOK, Busy, EventOf, TallyOK, FaultKinds
  <1> QED
    BY <1>1, <1>2, <1>3, <1>4, <1>5, <1>6, <1>7, <1>8, <1>9, <1>10, <1>11, <1>12, <1>13,
       <1>14, <1>15, <1>16, <1>17, <1>18, <1>19, <1>20, <1>21
       DEF Next, RelayStep, WorkerStep, FaultStep

(* Every variable always holds a value of its kind. *)
THEOREM DeliveryTypeCorrect == Spec => []TypeOK
  BY InitType, StepType, PTL DEF Spec

----------------------------------------------------------------------------
(* A row marked DISPATCHED has its job or has been through its consumers.   *)
(* The invariant is not inductive alone: the relay saves the row a step     *)
(* after the queue took the job, so what holds of the row must hold of the  *)
(* copy the relay is about to save.                                         *)
InHand(e) == job[e].state # "none" \/ e \in finished

HandInv ==
    /\ DispatchedIsInHand
    /\ \A r \in Relays, e \in Events : mine[r][e].stage = "added" => InHand(e)

(* A job in hand stays in hand: it goes only as its event is finished. *)
LEMMA StaysInHand ==
    ASSUME TypeOK, [Next]_vars, NEW e \in Events, InHand(e)
    PROVE  InHand(e)'
  <1> USE DEF InHand
  <1>1. CASE UNCHANGED <<job, finished>>
    BY <1>1
  <1>2. ASSUME NEW f \in Events, job' = WithJob(f), UNCHANGED finished PROVE InHand(e)'
    BY <1>2 DEF WithJob, JobIn, TypeOK
  <1>3. ASSUME NEW f \in Events, BackToQueue(f), UNCHANGED finished PROVE InHand(e)'
    BY <1>3 DEF BackToQueue, JobIn, TypeOK
  <1>4. ASSUME NEW w \in Workers, NEW f \in Events, Take(w, f) PROVE InHand(e)'
    BY <1>4 DEF Take, JobIn, TypeOK
  <1>5. ASSUME NEW w \in Workers, AttemptFailed(w), UNCHANGED finished PROVE InHand(e)'
    <2> DEFINE f == EventOf(w)
               next == IF job[f].attempts + 1 >= MaxAttempts THEN "failed" ELSE "queued"
               attempts == job[f].attempts + 1
    <2>1. \/ job' = [job EXCEPT ![f] = JobIn(next, attempts, job[f].stalled, NoWorker)]
          \/ job' = job
      BY <1>5, Zenon DEF AttemptFailed
    <2>2. next # "none"
      OBVIOUS
    <2>3. JobIn(next, attempts, job[f].stalled, NoWorker).state # "none"
      BY <2>2 DEF JobIn
    <2> DEFINE lapsed == JobIn(next, attempts, job[f].stalled, NoWorker)
    <2>4. lapsed.state # "none"
      BY <2>3
    <2>5. job' = [job EXCEPT ![f] = lapsed] \/ job' = job
      BY <2>1
    <2> HIDE DEF lapsed, f
    <2> QED BY <1>5, <2>4, <2>5 DEF TypeOK
  <1>6. ASSUME NEW w \in Workers, Finish(w) PROVE InHand(e)'
    <2>1. CASE e = EventOf(w) /\ job[EventOf(w)].owner = w
      BY <1>6, <2>1 DEF Finish
    <2>2. CASE e # EventOf(w) /\ job[EventOf(w)].owner = w
      BY <1>6, <2>2 DEF Finish, TypeOK
    <2>3. CASE job[EventOf(w)].owner # w
      BY <1>6, <2>3 DEF Finish
    <2> QED BY <2>1, <2>2, <2>3
  <1>7. ASSUME NEW f \in Events, Commit(f) \/ LeaseOver(f) \/ JobRecovered(f) PROVE InHand(e)'
    BY <1>1, <1>3, <1>7 DEF Commit, LeaseOver, JobRecovered
  <1>8. ASSUME NEW r \in Relays, RelayStep(r) PROVE InHand(e)'
    BY <1>1, <1>2, <1>8 DEF RelayStep, Claim, SkipKilled, Enqueue, SaveDispatched, SaveRefused
  <1>9. ASSUME NEW w \in Workers, WorkerStep(w) PROVE InHand(e)'
    BY <1>1, <1>4, <1>5, <1>6, <1>9 DEF WorkerStep, PassOver, Duplicate, TryClaim, Apply, Record
  <1>10. CASE FaultStep
    BY <1>1, <1>2, <1>3, <1>5, <1>10
       DEF FaultStep, RelayCrash, EnqueueFails, ConsumerThrows, WorkerCrash, JobStalls, Replay, Flip
  <1> QED BY <1>1, <1>7, <1>8, <1>9, <1>10 DEF Next, vars

(* What a step does to the copies and rows of one event. *)
LEMMA HandStep == TypeOK /\ HandInv /\ [Next]_vars => HandInv'
  <1> SUFFICES ASSUME TypeOK, HandInv, [Next]_vars PROVE HandInv'
    OBVIOUS
  <1>1. ASSUME NEW e \in Events
        PROVE  /\ row'[e].status = "DISPATCHED" =>
                     \/ row[e].status = "DISPATCHED"
                     \/ \E r \in Relays : mine[r][e].stage = "added"
               /\ \A r \in Relays : mine'[r][e].stage = "added" =>
                     mine[r][e].stage = "added" \/ (job'[e].state # "none")
    <2> DEFINE Rows == row'[e].status = "DISPATCHED" =>
                          \/ row[e].status = "DISPATCHED"
                          \/ \E r \in Relays : mine[r][e].stage = "added"
               Copies == \A r \in Relays : mine'[r][e].stage = "added" =>
                            mine[r][e].stage = "added" \/ (job'[e].state # "none")
    <2>1. UNCHANGED row => Rows
      OBVIOUS
    <2>2. UNCHANGED mine => Copies
      OBVIOUS
    <2>3. ASSUME NEW f \in Events, Commit(f) \/ LeaseOver(f) \/ Replay(f) PROVE Rows /\ Copies
      <3>1. row'[e].status = "DISPATCHED" => row[e].status = "DISPATCHED"
        <4>1. CASE Commit(f)
          BY <4>1 DEF Commit, TypeOK, Row
        <4>2. CASE LeaseOver(f)
          BY <4>2 DEF LeaseOver, TypeOK, Row
        <4>3. CASE Replay(f)
          BY <4>3 DEF Replay, TypeOK, Row
        <4> QED BY <2>3, <4>1, <4>2, <4>3
      <3>2. UNCHANGED mine
        BY <2>3 DEF Commit, LeaseOver, Replay
      <3> HIDE DEF Rows, Copies
      <3> QED BY <2>2, <3>1, <3>2 DEF Rows
    <2>4. ASSUME NEW r \in Relays, Claim(r) PROVE Rows /\ Copies
      <3>1. PICK batch \in SUBSET Events :
               /\ row' = [g \in Events |-> IF g \in batch THEN [row[g] EXCEPT !.leased = TRUE]
                                           ELSE row[g]]
               /\ mine' = [mine EXCEPT ![r] = [g \in Events |->
                     IF g \in batch THEN CopyAt("claimed", row[g].retries) ELSE NoCopy]]
        BY <2>4 DEF Claim
      <3>2. row'[e].status = row[e].status
        BY <3>1 DEF TypeOK, Row
      <3>3. \A q \in Relays : mine'[q][e].stage = "added" => mine[q][e].stage = "added"
        BY <3>1 DEF TypeOK, CopyAt, NoCopy
      <3> QED BY <3>2, <3>3
    <2>5. ASSUME NEW r \in Relays, NEW f \in Events, NEW status, NEW retries, NEW leased,
                 SaveRow(r, f, status, retries, leased),
                 status = "DISPATCHED" => mine[r][f].stage = "added"
          PROVE  Rows /\ Copies
      <3>1. row'[e].status = "DISPATCHED" =>
               row[e].status = "DISPATCHED" \/ (e = f /\ status = "DISPATCHED")
        BY <2>5 DEF SaveRow, TypeOK
      <3>2. \A q \in Relays : mine'[q][e].stage = "added" => mine[q][e].stage = "added"
        BY <2>5 DEF SaveRow, TypeOK, CopyAt, NoCopy
      <3> QED BY <2>5, <3>1, <3>2
    <2>6. ASSUME NEW r \in Relays, NEW f \in Events, SkipKilled(r, f) PROVE Rows /\ Copies
      <3> HIDE DEF Rows, Copies
      <3> QED BY <2>5, <2>6 DEF SkipKilled
    <2>7. ASSUME NEW r \in Relays, NEW f \in Events, SaveDispatched(r, f) PROVE Rows /\ Copies
      <3> HIDE DEF Rows, Copies
      <3> QED BY <2>5, <2>7 DEF SaveDispatched
    <2>8. ASSUME NEW r \in Relays, NEW f \in Events, SaveRefused(r, f) PROVE Rows /\ Copies
      <3> HIDE DEF Rows, Copies
      <3>1. StatusAfterRefusal(mine[r][f].retries + 1) # "DISPATCHED"
        BY DEF StatusAfterRefusal
      <3> QED BY <2>5, <2>8, <3>1 DEF SaveRefused
    <2>9. ASSUME NEW r \in Relays, NEW f \in Events, Enqueue(r, f) PROVE Rows /\ Copies
      <3>1. \A q \in Relays : mine'[q][e].stage = "added" =>
               mine[q][e].stage = "added" \/ (q = r /\ e = f)
        BY <2>9 DEF Enqueue, TypeOK, CopyAt
      <3>2. job'[f].state # "none"
        BY <2>9 DEF Enqueue, WithJob, JobIn, TypeOK
      <3> QED BY <2>9, <3>1, <3>2 DEF Enqueue
    <2>10. ASSUME NEW r \in Relays, NEW f \in Events, EnqueueFails(r, f) PROVE Rows /\ Copies
      <3>1. \A q \in Relays : mine'[q][e].stage = "added" => mine[q][e].stage = "added"
        BY <2>10 DEF EnqueueFails, TypeOK, CopyAt
      <3> QED BY <2>10, <3>1 DEF EnqueueFails
    <2>11. ASSUME NEW r \in Relays, RelayCrash(r) PROVE Rows /\ Copies
      <3>1. \A q \in Relays : mine'[q][e].stage = "added" => mine[q][e].stage = "added"
        BY <2>11 DEF RelayCrash, TypeOK, CopyAt, NoCopy
      <3> QED BY <2>11, <3>1 DEF RelayCrash
    <2>12. ASSUME UNCHANGED <<row, mine>> PROVE Rows /\ Copies
      BY <2>1, <2>2, <2>12
    <2> HIDE DEF Rows, Copies
    <2>13. ASSUME NEW r \in Relays, RelayStep(r) PROVE Rows /\ Copies
      BY <2>4, <2>6, <2>7, <2>8, <2>9, <2>13 DEF RelayStep
    <2>14. ASSUME NEW w \in Workers, WorkerStep(w) PROVE UNCHANGED <<row, mine>>
      BY <2>14 DEF WorkerStep, Take, PassOver, Duplicate, TryClaim, Apply, Record, Finish
    <2>15. ASSUME FaultStep PROVE Rows /\ Copies
      BY <2>3, <2>10, <2>11, <2>12, <2>15
         DEF FaultStep, ConsumerThrows, WorkerCrash, JobStalls, Flip
    <2>16. \A f \in Events : JobRecovered(f) => UNCHANGED <<row, mine>>
      BY DEF JobRecovered
    <2>17. Rows /\ Copies
      BY <2>3, <2>12, <2>13, <2>14, <2>15, <2>16 DEF Next, vars
    <2> QED BY <2>17 DEF Rows, Copies
  <1>2. ASSUME NEW e \in Events, row'[e].status = "DISPATCHED" PROVE InHand(e)'
    <2>1. InHand(e)
      BY <1>1, <1>2 DEF HandInv, DispatchedIsInHand, InHand
    <2> QED BY <2>1, StaysInHand
  <1>3. ASSUME NEW r \in Relays, NEW e \in Events, mine'[r][e].stage = "added" PROVE InHand(e)'
    <2>1. mine[r][e].stage = "added" => InHand(e)
      BY DEF HandInv
    <2>2. InHand(e) => InHand(e)'
      BY StaysInHand
    <2> QED BY <1>1, <1>3, <2>1, <2>2 DEF InHand
  <1> QED BY <1>2, <1>3 DEF HandInv, DispatchedIsInHand, InHand

(* A dispatched row has its job, or its event is finished. *)
THEOREM DispatchedAlwaysInHand == Spec => []DispatchedIsInHand
  <1>1. Init => HandInv
    BY DEF Init, HandInv, DispatchedIsInHand, NoCopy, CopyAt
  <1>2. HandInv => DispatchedIsInHand
    BY DEF HandInv
  <1> QED BY <1>1, <1>2, HandStep, DeliveryTypeCorrect, PTL DEF Spec

----------------------------------------------------------------------------
(* At-least-once.  A worker may complete a job because it has been through  *)
(* the route, and each consumer behind it has its receipt or was switched   *)
(* off; a receipt is written only after the side effect.                    *)
Served(e, c) == c \in inbox[e] \/ c \in waived[e]

Progress(w) ==
    Busy(w) =>
        /\ \A i \in 1..(worker[w].at - 1) : Served(EventOf(w), Route(EventOf(w))[i])
        /\ worker[w].stage = "applied" =>
              /\ worker[w].at <= Len(Route(EventOf(w)))
              /\ applied[EventOf(w)][ConsumerAt(w)] >= 1

ReceiptsAreReal == \A e \in Events : \A c \in inbox[e] : applied[e][c] >= 1

FinishedServed == \A e \in finished : \A c \in CategoriesOf(e) : Served(e, c)

ServedInv == /\ \A w \in Workers : Progress(w)
             /\ ReceiptsAreReal
             /\ FinishedServed

(* What is done is not undone. *)
Monotone ==
    \A e \in Events : /\ inbox[e] \subseteq inbox'[e]
                      /\ waived[e] \subseteq waived'[e]
                      /\ \A c \in Categories : applied[e][c] >= 1 => applied'[e][c] >= 1

LEMMA NothingUndone == TypeOK /\ [Next]_vars => Monotone
  <1> SUFFICES ASSUME TypeOK, [Next]_vars PROVE Monotone
    OBVIOUS
  <1>1. ASSUME UNCHANGED <<inbox, waived, applied>> PROVE Monotone
    BY <1>1 DEF Monotone
  <1>2. ASSUME NEW w \in Workers, PassOver(w) PROVE Monotone
    BY <1>2 DEF PassOver, Monotone, TypeOK
  <1>3. ASSUME NEW w \in Workers, Record(w) PROVE Monotone
    BY <1>3 DEF Record, Monotone, TypeOK
  <1>4. ASSUME NEW w \in Workers, Apply(w) PROVE Monotone
    <2> DEFINE f == EventOf(w)
               d == ConsumerAt(w)
               times == IF d \in Idempotent THEN 1 ELSE applied[f][d] + 1
    <2>1. f \in Events /\ d \in Categories
      BY <1>4, ConsumerType, TypeParts DEF Apply
    <2>2. applied' = [applied EXCEPT ![f][d] = times]
      BY <1>4, Zenon DEF Apply
    <2>3. applied[f][d] \in Nat
      BY <2>1 DEF TypeOK
    <2>4. times >= 1
      BY <2>3
    <2> HIDE DEF times, f, d
    <2>5. \A e \in Events, c \in Categories : applied[e][c] >= 1 => applied'[e][c] >= 1
      BY <2>1, <2>2, <2>4 DEF TypeOK
    <2> QED BY <1>4, <2>5 DEF Apply, Monotone
  <1> QED
    BY <1>1, <1>2, <1>3, <1>4
       DEF Next, RelayStep, WorkerStep, FaultStep, vars, Commit, LeaseOver, JobRecovered, Claim,
           SkipKilled, Enqueue, SaveDispatched, SaveRefused, Take, Duplicate, TryClaim, Finish,
           RelayCrash, EnqueueFails, ConsumerThrows, WorkerCrash, JobStalls, Replay, Flip

(* Served once the step is made. *)
ServedNext(e, c) == c \in inbox'[e] \/ c \in waived'[e]

LEMMA StaysServed ==
    ASSUME Monotone, NEW e \in Events, NEW c, Served(e, c)
    PROVE  ServedNext(e, c)
  BY DEF Monotone, Served, ServedNext

(* A worker the step does not move keeps its progress. *)
LEMMA ProgressKept ==
    ASSUME TypeOK, Monotone, NEW w \in Workers, Progress(w), worker'[w] = worker[w]
    PROVE  Progress(w)'
  <1> SUFFICES ASSUME Busy(w) PROVE Progress(w)'
    BY DEF Progress, Busy, EventOf
  <1>1. EventOf(w) \in Events /\ EventOf(w)' = EventOf(w) /\ ConsumerAt(w)' = ConsumerAt(w)
    BY DEF TypeOK, Run, Busy, EventOf, ConsumerAt
  <1>2. \A i \in 1..(worker[w].at - 1) : ServedNext(EventOf(w), Route(EventOf(w))[i])
    BY <1>1, StaysServed DEF Progress
  <1>3. worker[w].stage = "applied" => ConsumerAt(w) \in Categories
    BY ConsumerType, TypeParts DEF Progress, AtConsumer
  <1>4. worker[w].stage = "applied" => applied'[EventOf(w)][ConsumerAt(w)] >= 1
    BY <1>1, <1>3 DEF Monotone, Progress
  <1> QED BY <1>1, <1>2, <1>4 DEF Progress, Served, ServedNext

(* A worker moves on from a consumer that is served. *)
LEMMA ProgressMoves ==
    ASSUME TypeOK, Monotone, NEW w \in Workers, Progress(w), NEW stage, AtConsumer(w, stage),
           MoveOn(w), ServedNext(EventOf(w), ConsumerAt(w))
    PROVE  Progress(w)'
  <1> DEFINE e == EventOf(w)
             at == worker[w].at
  <1>1. e \in Events /\ at \in 1..Len(Route(e)) /\ Len(Route(e)) \in Nat
    BY ConsumerType, TypeParts, RouteType
  <1>2. /\ worker'[w].event = e
        /\ worker'[w].at = at + 1
        /\ worker'[w].stage = "next"
    BY DEF MoveOn, Place, TypeOK
  <1>3. ServedNext(e, Route(e)[at])
    BY DEF ConsumerAt
  <1>4. \A i \in 1..(at - 1) : ServedNext(e, Route(e)[i])
    BY <1>1, StaysServed DEF Progress, AtConsumer
  <1>5. EventOf(w)' = e
    BY <1>2 DEF EventOf
  <1> HIDE DEF e, at
  <1>6. \A i \in 1..(at + 1 - 1) : ServedNext(e, Route(e)[i])
    BY <1>1, <1>3, <1>4
  <1> QED BY <1>1, <1>2, <1>5, <1>6 DEF Progress, Served, ServedNext

LEMMA ServedStep == TypeOK /\ ServedInv /\ [Next]_vars => ServedInv'
  <1> SUFFICES ASSUME TypeOK, ServedInv, [Next]_vars PROVE ServedInv'
    OBVIOUS
  <1>1. Monotone
    BY NothingUndone
  <1> DEFINE Others(w) == \A v \in Workers : v # w => worker'[v] = worker[v]
             Rest == ReceiptsAreReal' /\ FinishedServed'
  <1>2. UNCHANGED inbox => ReceiptsAreReal'
    BY <1>1 DEF ServedInv, ReceiptsAreReal, Monotone, TypeOK
  <1>3. \A e \in Events : \A c \in CategoriesOf(e) : Served(e, c) => Served(e, c)'
    BY <1>1 DEF Monotone, Served
  <1>4. UNCHANGED finished => FinishedServed'
    BY <1>3 DEF ServedInv, FinishedServed, TypeOK, CategoriesOf, Route
  <1>5. ASSUME UNCHANGED <<worker, inbox, finished>> PROVE ServedInv'
    BY <1>1, <1>2, <1>4, <1>5, ProgressKept DEF ServedInv
  <1>6. ASSUME NEW w \in Workers, Others(w), Progress(w)', Rest PROVE ServedInv'
    BY <1>1, <1>6, ProgressKept DEF ServedInv
  <1>7. ASSUME NEW w \in Workers, worker' = [worker EXCEPT ![w] = Idle]
        PROVE  Others(w) /\ Progress(w)'
    BY <1>7 DEF TypeOK, Progress, Busy, EventOf, Idle, Place
  <1>8. ASSUME NEW w \in Workers, MoveOn(w) PROVE Others(w)
    BY <1>8 DEF TypeOK, MoveOn
  <1>9. ASSUME NEW w \in Workers, NEW e \in Events, Take(w, e) PROVE ServedInv'
    <2>1. worker'[w] = Place(e, 1, "next") /\ Others(w)
      BY <1>9 DEF Take, TypeOK
    <2>2. Progress(w)'
      BY <2>1 DEF Progress, Place
    <2> QED BY <1>2, <1>4, <1>6, <1>9, <2>1, <2>2 DEF Take
  <1>10. ASSUME NEW w \in Workers, NEW stage, AtConsumer(w, stage), MoveOn(w),
                ServedNext(EventOf(w), ConsumerAt(w))
         PROVE  Others(w) /\ Progress(w)'
    BY <1>1, <1>8, <1>10, ProgressMoves DEF ServedInv
  <1> HIDE DEF Others
  <1>11. ASSUME NEW w \in Workers, PassOver(w) PROVE ServedInv'
    <2>1. AtConsumer(w, "next") /\ MoveOn(w) /\ EventOf(w) \in Events
      BY <1>11, ConsumerType, TypeParts DEF PassOver
    <2>2. ServedNext(EventOf(w), ConsumerAt(w))
      BY <1>11, <2>1 DEF PassOver, TypeOK, ServedNext
    <2> QED BY <1>2, <1>4, <1>6, <1>10, <1>11, <2>1, <2>2 DEF PassOver
  <1>12. ASSUME NEW w \in Workers, Duplicate(w) PROVE ServedInv'
    <2>1. AtConsumer(w, "next") /\ MoveOn(w)
      BY <1>12 DEF Duplicate
    <2>2. ServedNext(EventOf(w), ConsumerAt(w))
      BY <1>12 DEF Duplicate, Received, ServedNext
    <2> QED BY <1>2, <1>4, <1>6, <1>10, <1>12, <2>1, <2>2 DEF Duplicate
  <1>13. ASSUME NEW w \in Workers, NEW before, AtConsumer(w, before), NEW stage,
                worker' = [worker EXCEPT ![w] = Place(EventOf(w), worker[w].at, stage)],
                stage = "applied" => applied'[EventOf(w)][ConsumerAt(w)] >= 1
         PROVE  Others(w) /\ Progress(w)'
    <2>1. /\ worker'[w].event = EventOf(w)
          /\ worker'[w].at = worker[w].at
          /\ worker'[w].stage = stage
          /\ Others(w)
      BY <1>13 DEF TypeOK, Place, Others
    <2>2. EventOf(w)' = EventOf(w) /\ ConsumerAt(w)' = ConsumerAt(w)
      BY <2>1 DEF EventOf, ConsumerAt
    <2>3. EventOf(w) \in Events /\ worker[w].at \in 1..Len(Route(EventOf(w)))
      BY <1>13, ConsumerType, TypeParts
    <2>4. Len(Route(EventOf(w))) \in Nat
      BY <2>3, RouteType
    <2>5. \A i \in 1..(worker[w].at - 1) : ServedNext(EventOf(w), Route(EventOf(w))[i])
      BY <1>1, <1>13, <2>3, StaysServed DEF ServedInv, Progress, AtConsumer
    <2> QED BY <1>13, <2>1, <2>2, <2>3, <2>4, <2>5 DEF Progress, Served, ServedNext
  <1>14. ASSUME NEW w \in Workers, TryClaim(w) PROVE ServedInv'
    <2>1. Others(w) /\ Progress(w)'
      BY <1>13, <1>14 DEF TryClaim
    <2> QED BY <1>2, <1>4, <1>6, <1>14, <2>1 DEF TryClaim
  <1>15. ASSUME NEW w \in Workers, Apply(w) PROVE ServedInv'
    <2> DEFINE e == EventOf(w)
               c == ConsumerAt(w)
               times == IF c \in Idempotent THEN 1 ELSE applied[e][c] + 1
    <2>1. e \in Events /\ c \in Categories
      BY <1>15, ConsumerType, TypeParts DEF Apply
    <2>2. applied' = [applied EXCEPT ![e][c] = times]
      BY <1>15, Zenon DEF Apply
    <2>3. times >= 1
      BY <2>1 DEF TypeOK
    <2>4. applied'[e][c] >= 1
      <3> HIDE DEF times, e, c
      <3> QED BY <2>1, <2>2, <2>3 DEF TypeOK
    <2>5. Others(w) /\ Progress(w)'
      BY <1>13, <1>15, <2>4 DEF Apply
    <2> QED BY <1>2, <1>4, <1>6, <1>15, <2>5 DEF Apply
  <1>16. ASSUME NEW w \in Workers, Record(w) PROVE ServedInv'
    <2> DEFINE e == EventOf(w)
               c == ConsumerAt(w)
    <2>1. AtConsumer(w, "applied") /\ e \in Events /\ c \in Categories
      BY <1>16, ConsumerType, TypeParts DEF Record
    <2>2. CASE c \in inbox[e]
      <3>1. worker' = [worker EXCEPT ![w] = Idle] /\ UNCHANGED <<inbox, finished>>
        BY <1>16, <2>2 DEF Record, AttemptFailed
      <3> QED BY <1>2, <1>4, <1>6, <1>7, <3>1 DEF Others
    <2>3. CASE c \notin inbox[e]
      <3>1. inbox' = [inbox EXCEPT ![e] = @ \cup {c}] /\ MoveOn(w) /\ UNCHANGED <<applied, finished>>
        BY <1>16, <2>3 DEF Record
      <3>2. ServedNext(e, c)
        BY <2>1, <3>1 DEF TypeOK, ServedNext
      <3>3. applied[e][c] >= 1
        BY <2>1 DEF ServedInv, Progress, AtConsumer
      <3>4. ReceiptsAreReal'
        <4> HIDE DEF e, c
        <4> QED BY <2>1, <3>1, <3>3 DEF ServedInv, ReceiptsAreReal, TypeOK
      <3> QED BY <1>4, <1>6, <1>10, <2>1, <3>1, <3>2, <3>4
    <2> QED BY <2>2, <2>3
  <1>17. ASSUME NEW w \in Workers, ConsumerThrows(w) \/ WorkerCrash(w) PROVE ServedInv'
    <2>1. worker' = [worker EXCEPT ![w] = Idle] /\ UNCHANGED <<inbox, finished>>
      BY <1>17 DEF ConsumerThrows, AttemptFailed, WorkerCrash
    <2> QED BY <1>2, <1>4, <1>6, <1>7, <2>1 DEF Others
  <1>18. ASSUME NEW w \in Workers, Finish(w) PROVE ServedInv'
    <2> DEFINE e == EventOf(w)
    <2>1. worker' = [worker EXCEPT ![w] = Idle] /\ UNCHANGED inbox
      BY <1>18 DEF Finish
    <2>2. finished' \subseteq finished \cup {e}
      BY <1>18 DEF Finish
    <2>3. Busy(w) /\ worker[w].at > Len(Route(e)) /\ e \in Events
      BY <1>18 DEF Finish, RouteDone, TypeOK, Busy, EventOf, Run
    <2>4. worker[w].at \in Nat /\ Route(e) \in Seq(Categories)
      BY <2>3, RouteType DEF TypeOK, Run
    <2>5. \A c \in CategoriesOf(e) : ServedNext(e, c)
      <3> SUFFICES ASSUME NEW i \in DOMAIN Route(e) PROVE ServedNext(e, Route(e)[i])
        BY DEF CategoriesOf
      <3>1. i \in 1..(worker[w].at - 1)
        BY <2>3, <2>4
      <3>2. Served(e, Route(e)[i])
        BY <2>3, <3>1 DEF ServedInv, Progress
      <3> QED BY <1>1, <2>3, <3>2, StaysServed
    <2>6. FinishedServed'
      <3> SUFFICES ASSUME NEW f \in finished', NEW c \in CategoriesOf(f) PROVE ServedNext(f, c)
        BY DEF FinishedServed, Served, ServedNext, CategoriesOf, Route
      <3>1. CASE f = e
        BY <2>5, <3>1
      <3>2. CASE f \in finished
        BY <1>1, <3>2, StaysServed DEF ServedInv, FinishedServed, TypeOK
      <3> QED BY <2>2, <3>1, <3>2
    <2> HIDE DEF e
    <2> QED BY <1>2, <1>6, <1>7, <2>1, <2>6 DEF Others
  <1> HIDE DEF Rest
  <1>19. ASSUME NEW r \in Relays, RelayStep(r) PROVE ServedInv'
    BY <1>5, <1>19 DEF RelayStep, Claim, SkipKilled, Enqueue, SaveDispatched, SaveRefused
  <1>20. ASSUME NEW w \in Workers, WorkerStep(w) PROVE ServedInv'
    BY <1>9, <1>11, <1>12, <1>14, <1>15, <1>16, <1>18, <1>20 DEF WorkerStep
  <1>21. ASSUME FaultStep PROVE ServedInv'
    BY <1>5, <1>17, <1>21 DEF FaultStep, RelayCrash, EnqueueFails, JobStalls, Replay, Flip
  <1>22. ASSUME NEW e \in Events, Commit(e) \/ LeaseOver(e) \/ JobRecovered(e) PROVE ServedInv'
    BY <1>5, <1>22 DEF Commit, LeaseOver, JobRecovered
  <1>23. CASE UNCHANGED vars
    BY <1>5, <1>23 DEF vars
  <1> QED BY <1>19, <1>20, <1>21, <1>22, <1>23 DEF Next

(* Whatever crashes, stalls and is retried, a finished event has had the    *)
(* side effect of each of its consumers that was switched on.               *)
THEOREM DeliveredAtLeastOnce == Spec => []AtLeastOnce
  <1>1. Init => ServedInv
    BY DEF Init, ServedInv, Progress, Busy, EventOf, Idle, Place, ReceiptsAreReal, FinishedServed
  <1>2. TypeOK /\ ServedInv => AtLeastOnce
    <2> SUFFICES ASSUME TypeOK, ServedInv, NEW e \in finished, NEW c \in CategoriesOf(e)
                 PROVE  c \in waived[e] \/ applied[e][c] >= 1
      BY DEF AtLeastOnce
    <2>1. Served(e, c)
      BY DEF ServedInv, FinishedServed
    <2> QED BY <2>1 DEF TypeOK, ServedInv, ReceiptsAreReal, Served
  <1> QED BY <1>1, <1>2, ServedStep, DeliveryTypeCorrect, PTL DEF Spec

----------------------------------------------------------------------------
(* One worker per event.  As long as no job is taken from a worker that     *)
(* still runs it, a busy worker owns the active job of its event, so that   *)
(* what it asked of the inbox stays true until it has recorded its receipt. *)
Owns(w) ==
    Busy(w) =>
        /\ job[EventOf(w)].state = "active"
        /\ job[EventOf(w)].owner = w
        /\ worker[w].stage # "next" => ConsumerAt(w) \notin inbox[EventOf(w)]

Exclusive == faults["stall"] = 0 => \A w \in Workers : Owns(w)

LEMMA ExclusiveStep == TypeOK /\ Exclusive /\ [Next]_vars => Exclusive'
  <1> SUFFICES ASSUME TypeOK, Exclusive, [Next]_vars, faults'["stall"] = 0
               PROVE  \A w \in Workers : Owns(w)'
    BY DEF Exclusive
  <1> DEFINE Goal == \A w \in Workers : Owns(w)'
  <1>1. faults["stall"] = 0 \/ Goal
    <2>1. \A k \in FaultKinds : Fault(k) => faults'["stall"] >= faults["stall"]
      BY DEF Fault, TypeOK, FaultKinds
    <2>2. faults["stall"] \in Nat
      BY DEF TypeOK, FaultKinds
    <2>3. UNCHANGED faults \/ \E k \in FaultKinds : Fault(k)
      BY DEF Next, RelayStep, WorkerStep, FaultStep, vars, Commit, LeaseOver, JobRecovered, Claim,
             SkipKilled, Enqueue, SaveDispatched, SaveRefused, Take, PassOver, Duplicate, TryClaim,
             Apply, Record, Finish, RelayCrash, EnqueueFails, ConsumerThrows, WorkerCrash, JobStalls,
             Replay, Flip, FaultKinds
    <2> QED BY <2>1, <2>2, <2>3
  <1>2. SUFFICES ASSUME \A w \in Workers : Owns(w) PROVE Goal
    BY <1>1 DEF Exclusive
  <1>3. ASSUME UNCHANGED <<worker, inbox>>,
               \A e \in Events : job[e].state = "active" => job'[e] = job[e]
        PROVE  Goal
    BY <1>2, <1>3 DEF Owns, Busy, EventOf, ConsumerAt, TypeOK, Run
  (* A step of one worker: the others are on other events. *)
  <1>4. ASSUME NEW v \in Workers, Busy(v), NEW new, worker' = [worker EXCEPT ![v] = new],
               \A e \in Events : e # EventOf(v) => job'[e] = job[e] /\ inbox'[e] = inbox[e],
               Owns(v)'
        PROVE  Goal
    <2> SUFFICES ASSUME NEW w \in Workers, w # v, Busy(w)' PROVE Owns(w)'
      BY <1>4 DEF Owns
    <2>1. worker'[w] = worker[w] /\ Busy(w)
      BY <1>4 DEF TypeOK, Busy, EventOf
    <2>2. EventOf(w) \in Events
      BY <2>1 DEF TypeOK, Run, Busy, EventOf
    <2>3. EventOf(w) # EventOf(v)
      BY <1>2, <1>4, <2>1 DEF Owns
    <2> QED BY <1>2, <1>4, <2>1, <2>2, <2>3 DEF Owns, EventOf, ConsumerAt
  <1>5. ASSUME NEW w \in Workers, NEW e \in Events, Take(w, e) PROVE Goal
    <2>1. \A v \in Workers : Busy(v) => EventOf(v) # e
      BY <1>2, <1>5 DEF Take, Owns
    <2>2. worker'[w] = Place(e, 1, "next") /\ \A v \in Workers : v # w => worker'[v] = worker[v]
      BY <1>5 DEF Take, TypeOK
    <2>3. job'[e] = JobIn("active", job[e].attempts, job[e].stalled, w)
      BY <1>5 DEF Take, TypeOK
    <2>4. \A f \in Events : f # e => job'[f] = job[f]
      BY <1>5 DEF Take, TypeOK
    <2>5. Owns(w)'
      BY <2>2, <2>3 DEF Owns, EventOf, Place, JobIn
    <2>6. ASSUME NEW v \in Workers, v # w PROVE Owns(v)'
      <3>1. worker'[v] = worker[v] /\ UNCHANGED inbox
        BY <1>5, <2>2, <2>6 DEF Take
      <3>2. Busy(v) => EventOf(v) \in Events /\ EventOf(v) # e
        BY <2>1 DEF TypeOK, Run, Busy, EventOf
      <3> QED BY <1>2, <2>4, <3>1, <3>2 DEF Owns, Busy, EventOf, ConsumerAt
    <2> QED BY <2>5, <2>6
  <1>6. ASSUME NEW w \in Workers, Busy(w), worker' = [worker EXCEPT ![w] = Idle],
               UNCHANGED inbox,
               \A e \in Events : e # EventOf(w) => job'[e] = job[e]
        PROVE  Goal
    <2>1. Owns(w)'
      BY <1>6 DEF TypeOK, Owns, Busy, EventOf, Idle, Place
    <2> HIDE DEF Goal
    <2> QED BY <1>4, <1>6, <2>1
  <1>7. ASSUME NEW w \in Workers, AttemptFailed(w), Busy(w), UNCHANGED inbox PROVE Goal
    <2>1. worker' = [worker EXCEPT ![w] = Idle]
      BY <1>7 DEF AttemptFailed
    <2>2. \E new : job' = [job EXCEPT ![EventOf(w)] = new]
      BY <1>7 DEF AttemptFailed, TypeOK
    <2>3. \A e \in Events : e # EventOf(w) => job'[e] = job[e]
      BY <2>2 DEF TypeOK
    <2> HIDE DEF Goal
    <2> QED BY <1>6, <1>7, <2>1, <2>3
  <1>8. ASSUME NEW w \in Workers, Finish(w) \/ WorkerCrash(w) PROVE Goal
    <2>1. worker' = [worker EXCEPT ![w] = Idle] /\ Busy(w) /\ UNCHANGED inbox
      BY <1>8 DEF Finish, WorkerCrash
    <2>2. \A e \in Events : e # EventOf(w) => job'[e] = job[e]
      BY <1>8 DEF Finish, WorkerCrash, TypeOK
    <2> HIDE DEF Goal
    <2> QED BY <1>6, <2>1, <2>2
  (* A worker that goes on with its event. *)
  <1>9. ASSUME NEW w \in Workers, Busy(w), NEW at, NEW stage,
               worker' = [worker EXCEPT ![w] = Place(EventOf(w), at, stage)],
               UNCHANGED job,
               \A e \in Events : e # EventOf(w) => inbox'[e] = inbox[e],
               stage # "next" => /\ at = worker[w].at
                                 /\ ConsumerAt(w) \notin inbox'[EventOf(w)]
        PROVE  Goal
    <2>1. worker'[w] = Place(EventOf(w), at, stage)
      BY <1>9 DEF TypeOK
    <2>2. Owns(w)'
      BY <1>2, <1>9, <2>1 DEF Owns, EventOf, ConsumerAt, Place
    <2> HIDE DEF Goal
    <2> QED BY <1>4, <1>9, <2>2
  <1>10. ASSUME NEW w \in Workers, WorkerStep(w) PROVE Goal
    <2>1. ASSUME PassOver(w) \/ Duplicate(w) PROVE Goal
      <3>1. /\ worker' = [worker EXCEPT ![w] = Place(EventOf(w), worker[w].at + 1, "next")]
            /\ Busy(w) /\ UNCHANGED <<job, inbox>>
        BY <2>1 DEF PassOver, Duplicate, MoveOn, AtConsumer
      <3> HIDE DEF Goal
      <3> QED BY <1>9, <3>1
    <2>2. ASSUME TryClaim(w) PROVE Goal
      <3>1. /\ worker' = [worker EXCEPT ![w] = Place(EventOf(w), worker[w].at, "claimed")]
            /\ Busy(w) /\ UNCHANGED <<job, inbox>>
            /\ ConsumerAt(w) \notin inbox[EventOf(w)]
        BY <2>2 DEF TryClaim, AtConsumer, Received
      <3> HIDE DEF Goal
      <3> QED BY <1>9, <3>1
    <2>3. ASSUME Apply(w) PROVE Goal
      <3>1. /\ worker' = [worker EXCEPT ![w] = Place(EventOf(w), worker[w].at, "applied")]
            /\ Busy(w) /\ UNCHANGED <<job, inbox>>
            /\ ConsumerAt(w) \notin inbox[EventOf(w)]
        BY <1>2, <2>3 DEF Apply, AtConsumer, Owns
      <3> HIDE DEF Goal
      <3> QED BY <1>9, <3>1
    <2>4. ASSUME Record(w) PROVE Goal
      <3>1. Busy(w) /\ ConsumerAt(w) \notin inbox[EventOf(w)]
        BY <1>2, <2>4 DEF Record, AtConsumer, Owns
      <3>2. /\ worker' = [worker EXCEPT ![w] = Place(EventOf(w), worker[w].at + 1, "next")]
            /\ UNCHANGED job
            /\ inbox' = [inbox EXCEPT ![EventOf(w)] = @ \cup {ConsumerAt(w)}]
        BY <2>4, <3>1 DEF Record, MoveOn
      <3>3. \A e \in Events : e # EventOf(w) => inbox'[e] = inbox[e]
        BY <3>2 DEF TypeOK
      <3> HIDE DEF Goal
      <3> QED BY <1>9, <3>1, <3>2, <3>3
    <2> HIDE DEF Goal
    <2> QED BY <1>5, <1>8, <1>10, <2>1, <2>2, <2>3, <2>4 DEF WorkerStep
  <1>11. ASSUME NEW e \in Events, JobRecovered(e) PROVE Goal
    <2>1. \A w \in Workers : Busy(w) => EventOf(w) # e
      BY <1>2, <1>11 DEF JobRecovered, Running, Owns
    <2>2. \A f \in Events : f # e => job'[f] = job[f]
      BY <1>11 DEF JobRecovered, BackToQueue, TypeOK
    <2>3. UNCHANGED <<worker, inbox>>
      BY <1>11 DEF JobRecovered
    <2> QED BY <1>2, <2>1, <2>2, <2>3 DEF Owns, Busy, EventOf, ConsumerAt, TypeOK, Run
  <1>12. ASSUME NEW e \in Events, WithJob(e) = job', UNCHANGED <<worker, inbox>> PROVE Goal
    <2>1. \A f \in Events : job[f].state = "active" => job'[f] = job[f]
      BY <1>12 DEF WithJob, TypeOK
    <2> HIDE DEF Goal
    <2> QED BY <1>3, <1>12, <2>1
  <1>13. ASSUME UNCHANGED <<job, worker, inbox>> PROVE Goal
    <2> HIDE DEF Goal
    <2> QED BY <1>3, <1>13
  <1>14. ASSUME NEW e \in Events PROVE ~ JobStalls(e)
    BY <1>2, <1>14 DEF JobStalls, Fault, TypeOK, FaultKinds
  <1> HIDE DEF Goal
  <1>15. ASSUME NEW r \in Relays, RelayStep(r) PROVE Goal
    BY <1>12, <1>13, <1>15 DEF RelayStep, Claim, SkipKilled, Enqueue, SaveDispatched, SaveRefused
  <1>16. ASSUME NEW w \in Workers, ConsumerThrows(w) PROVE Goal
    BY <1>7, <1>16 DEF ConsumerThrows, AtConsumer
  <1>17. ASSUME FaultStep PROVE Goal
    BY <1>8, <1>12, <1>13, <1>14, <1>16, <1>17
       DEF FaultStep, RelayCrash, EnqueueFails, Replay, Flip
  <1>18. Goal
    BY <1>10, <1>11, <1>13, <1>15, <1>17 DEF Next, vars, Commit, LeaseOver
  <1> QED BY <1>18 DEF Goal

(* A consumer with its receipt for an event never acts on it again, however *)
(* often relays, workers and consumers fail, unless a running job stalls.   *)
THEOREM NothingAfterReceipt == Spec => NoEffectAfterReceipt
  <1>1. Init => Exclusive
    BY DEF Init, Exclusive, Owns, Busy, EventOf, Idle, Place
  <1>2. ASSUME TypeOK, Exclusive, [Next]_vars, faults["stall"] = 0,
               NEW e \in Events, NEW c \in inbox[e]
        PROVE  applied'[e][c] = applied[e][c]
    <2>1. ASSUME NEW w \in Workers, Apply(w) PROVE applied'[e][c] = applied[e][c]
      <3>1. EventOf(w) # e \/ ConsumerAt(w) # c
        BY <1>2, <2>1 DEF Apply, AtConsumer, Exclusive, Owns
      <3>2. \E new : applied' = [applied EXCEPT ![EventOf(w)][ConsumerAt(w)] = new]
        BY <2>1 DEF Apply
      <3>3. c \in Categories
        BY <1>2 DEF TypeOK
      <3> QED BY <1>2, <3>1, <3>2, <3>3 DEF TypeOK
    <2>2. UNCHANGED applied \/ \E w \in Workers : Apply(w)
      BY <1>2
         DEF Next, RelayStep, WorkerStep, FaultStep, vars, Commit, LeaseOver, JobRecovered, Claim,
             SkipKilled, Enqueue, SaveDispatched, SaveRefused, Take, PassOver, Duplicate, TryClaim,
             Record, Finish, RelayCrash, EnqueueFails, ConsumerThrows, WorkerCrash, JobStalls,
             Replay, Flip
    <2> QED BY <2>1, <2>2
  <1>3. TypeOK /\ Exclusive /\ [Next]_vars =>
           [faults["stall"] = 0 =>
               \A e \in Events : \A c \in inbox[e] : applied'[e][c] = applied[e][c]]_vars
    BY <1>2
  <1> QED BY <1>1, <1>3, ExclusiveStep, DeliveryTypeCorrect, PTL DEF Spec, NoEffectAfterReceipt
----------------------------------------------------------------------------
(* Each repetition of a side effect is paid for by a fault of a worker or a *)
(* consumer.  First the routes: no consumer is on one twice.                *)
Distinct(seq) == \A i, j \in DOMAIN seq : seq[i] = seq[j] => i = j

LEMMA ConcatDistinct ==
    ASSUME NEW S, NEW T, NEW s \in Seq(S), NEW t \in Seq(T), S \cap T = {},
           Distinct(s), Distinct(t)
    PROVE  Distinct(s \o t) /\ s \o t \in Seq(S \cup T)
  <1> DEFINE m == Len(s)
             n == Len(t)
             both == s \o t
  <1>1. /\ m \in Nat /\ n \in Nat /\ DOMAIN s = 1..m /\ DOMAIN t = 1..n
        /\ both \in Seq(S \cup T) /\ DOMAIN both = 1..(m + n)
        /\ \A i \in 1..(m + n) : both[i] = IF i <= m THEN s[i] ELSE t[i - m]
    <2>1. s \in Seq(S \cup T) /\ t \in Seq(S \cup T)
      OBVIOUS
    <2> QED BY <2>1
  <1>2. /\ \A i \in 1..m : s[i] \in S
        /\ \A i \in 1..n : t[i] \in T
    OBVIOUS
  <1> HIDE DEF m, n, both
  <1>3. ASSUME NEW i \in 1..(m + n), NEW j \in 1..(m + n), both[i] = both[j] PROVE i = j
    <2>1. CASE i <= m /\ j <= m
      BY <1>1, <1>3, <2>1 DEF Distinct
    <2>2. CASE ~ (i <= m) /\ ~ (j <= m)
      <3>1. i - m \in 1..n /\ j - m \in 1..n /\ t[i - m] = t[j - m]
        BY <1>1, <1>3, <2>2
      <3>2. i - m = j - m
        BY <1>1, <3>1 DEF Distinct
      <3> QED BY <1>1, <3>2
    <2>3. CASE i <= m /\ ~ (j <= m)
      <3>1. i \in 1..m /\ j - m \in 1..n
        BY <1>1, <2>3
      <3> QED BY <1>1, <1>2, <1>3, <2>3, <3>1
    <2>4. CASE ~ (i <= m) /\ j <= m
      <3>1. j \in 1..m /\ i - m \in 1..n
        BY <1>1, <2>4
      <3> QED BY <1>1, <1>2, <1>3, <2>4, <3>1
    <2> QED BY <2>1, <2>2, <2>3, <2>4
  <1> QED BY <1>1, <1>3 DEF Distinct, both

LEMMA OneOrNone ==
    ASSUME NEW c, NEW p, p = << >> \/ p = <<c>> PROVE p \in Seq({c}) /\ Distinct(p)
  <1>1. << >> \in Seq({c}) /\ <<c>> \in Seq({c})
    OBVIOUS
  <1>2. DOMAIN << >> = {} /\ DOMAIN <<c>> = {1}
    OBVIOUS
  <1>3. DOMAIN p = {} \/ DOMAIN p = {1}
    BY <1>2
  <1>4. Distinct(p)
    BY ONLY <1>3 DEF Distinct
  <1> QED BY <1>1, <1>4

LEMMA RouteOnce == \A e \in Events : Distinct(Route(e))
  <1> SUFFICES ASSUME NEW e \in Events PROVE Distinct(Route(e))
    OBVIOUS
  <1> DEFINE part(types, category) == IF TypeOf[e] \in types THEN <<category>> ELSE << >>
             p1 == part(FinancialTypes, "financial")
             p2 == part(InvoiceTypes, "invoice")
             p3 == part(NotificationTypes, "notification")
             p4 == part(MailTypes, "mail")
             p5 == part(WebhookTypes, "webhook")
  <1>1. /\ p1 = << >> \/ p1 = <<"financial">>
        /\ p2 = << >> \/ p2 = <<"invoice">>
        /\ p3 = << >> \/ p3 = <<"notification">>
        /\ p4 = << >> \/ p4 = <<"mail">>
        /\ p5 = << >> \/ p5 = <<"webhook">>
    OBVIOUS
  <1>2. Route(e) = p1 \o p2 \o p3 \o p4 \o p5
    BY Zenon DEF Route
  <1> HIDE DEF p1, p2, p3, p4, p5
  <1>3. /\ p1 \in Seq({"financial"}) /\ Distinct(p1)
        /\ p2 \in Seq({"invoice"}) /\ Distinct(p2)
        /\ p3 \in Seq({"notification"}) /\ Distinct(p3)
        /\ p4 \in Seq({"mail"}) /\ Distinct(p4)
        /\ p5 \in Seq({"webhook"}) /\ Distinct(p5)
    BY <1>1, OneOrNone
  <1>4. p1 \o p2 \in Seq({"financial", "invoice"}) /\ Distinct(p1 \o p2)
    <2>1. /\ {"financial"} \cap {"invoice"} = {}
          /\ {"financial"} \cup {"invoice"} = {"financial", "invoice"}
      OBVIOUS
    <2> QED BY <1>3, <2>1, ConcatDistinct
  <1>5. PICK q2 : q2 = p1 \o p2
    OBVIOUS
  <1>6. /\ q2 \o p3 \in Seq({"financial", "invoice", "notification"}) /\ Distinct(q2 \o p3)
    <2>1. /\ {"financial", "invoice"} \cap {"notification"} = {}
          /\ {"financial", "invoice"} \cup {"notification"}
                = {"financial", "invoice", "notification"}
      OBVIOUS
    <2> QED BY <1>3, <1>4, <1>5, <2>1, ConcatDistinct
  <1>7. PICK q3 : q3 = q2 \o p3
    OBVIOUS
  <1>8. /\ q3 \o p4 \in Seq({"financial", "invoice", "notification", "mail"})
        /\ Distinct(q3 \o p4)
    <2>1. /\ {"financial", "invoice", "notification"} \cap {"mail"} = {}
          /\ {"financial", "invoice", "notification"} \cup {"mail"}
                = {"financial", "invoice", "notification", "mail"}
      OBVIOUS
    <2> QED BY <1>3, <1>6, <1>7, <2>1, ConcatDistinct
  <1>9. PICK q4 : q4 = q3 \o p4
    OBVIOUS
  <1>10. Distinct(q4 \o p5)
    <2>1. {"financial", "invoice", "notification", "mail"} \cap {"webhook"} = {}
      OBVIOUS
    <2> QED BY <1>3, <1>8, <1>9, <2>1, ConcatDistinct
  <1> QED BY <1>2, <1>5, <1>7, <1>9, <1>10

(* A place of a route with the consumer there, or with it still to come.    *)
Here(e, c, at) == at \in DOMAIN Route(e) /\ Route(e)[at] = c
Ahead(e, c, at, stage) ==
    \E i \in DOMAIN Route(e) : Route(e)[i] = c /\ (at < i \/ (at = i /\ stage # "applied"))

LEMMA AheadFacts ==
    ASSUME NEW e \in Events, NEW c, NEW at \in Nat
    PROVE  /\ \A stage : Ahead(e, c, at + 1, "next") => Ahead(e, c, at, stage)
           /\ Ahead(e, c, at, "claimed") <=> Ahead(e, c, at, "next")
           /\ Ahead(e, c, at, "applied") => Ahead(e, c, at, "claimed")
           /\ Here(e, c, at) => /\ ~ Ahead(e, c, at, "applied")
                                /\ Ahead(e, c, at, "claimed")
  <1>1. \A i \in DOMAIN Route(e) : i \in Nat
    BY RouteType
  <1>2. \A i, j \in DOMAIN Route(e) : Route(e)[i] = Route(e)[j] => i = j
    BY RouteOnce DEF Distinct
  <1>3. \A i \in Nat : at + 1 <= i => at < i
    OBVIOUS
  <1>4. \A stage : Ahead(e, c, at + 1, "next") => Ahead(e, c, at, stage)
    BY <1>1, <1>3 DEF Ahead
  <1>5. /\ Ahead(e, c, at, "claimed") <=> Ahead(e, c, at, "next")
        /\ Ahead(e, c, at, "applied") => Ahead(e, c, at, "claimed")
    BY DEF Ahead
  <1>6. Here(e, c, at) => ~ Ahead(e, c, at, "applied") /\ Ahead(e, c, at, "claimed")
    BY <1>1, <1>2 DEF Here, Ahead
  <1> QED BY <1>4, <1>5, <1>6
----------------------------------------------------------------------------
(* What an event may still be acted on for consumer c: once by whoever next *)
(* takes it through, unless its running worker has acted already, and once  *)
(* by each worker that lost its job and has the consumer ahead of it; with  *)
(* the receipt there, only by the workers that had claimed before.          *)
At(w) == worker[w].at
Stage(w) == worker[w].stage
Runs(w, e) == job[e].state = "active" /\ job[e].owner = w /\ EventOf(w) = e
Waiting(w, e, c) == EventOf(w) = e /\ Ahead(e, c, At(w), Stage(w))
Spent(w, e, c) == EventOf(w) = e /\ Here(e, c, At(w)) /\ Stage(w) = "applied"
Claims(w, e, c) == EventOf(w) = e /\ Here(e, c, At(w)) /\ Stage(w) = "claimed"

On(e) == {w \in Workers : EventOf(w) = e}
Strays(e, c) == {w \in Workers : Waiting(w, e, c) /\ ~ Runs(w, e)}
Claimed(e, c) == {w \in Workers : Claims(w, e, c)}
Turn(e, c) == IF \E w \in Workers : Runs(w, e) /\ Spent(w, e, c) THEN 0 ELSE 1

Allowed == 1 + faults["worker"] + faults["consumer"] + faults["stall"]

Counted(e, c) ==
    IF c \in inbox[e] THEN applied[e][c] + Cardinality(Claimed(e, c)) <= Allowed
    ELSE applied[e][c] + Turn(e, c) + Cardinality(Strays(e, c)) <= Allowed

CountInv == /\ \A e \in Events : IsFiniteSet(On(e))
            /\ \A e \in Events, c \in Categories : Counted(e, c)

(* The sizes of two sets that differ in w at most. *)
LEMMA SetStep ==
    ASSUME NEW S, NEW T, NEW w, IsFiniteSet(S), \A v : v # w => (v \in S <=> v \in T)
    PROVE  /\ IsFiniteSet(T) /\ Cardinality(S) \in Nat /\ Cardinality(T) \in Nat
           /\ (w \in S <=> w \in T) => Cardinality(T) = Cardinality(S)
           /\ (w \notin S /\ w \in T) => Cardinality(T) = Cardinality(S) + 1
           /\ (w \in S /\ w \notin T) => Cardinality(T) = Cardinality(S) - 1
  <1>1. CASE w \in S <=> w \in T
    <2>1. S = T
      BY <1>1
    <2> QED BY <1>1, <2>1, FS_CardinalityType
  <1>2. CASE w \notin S /\ w \in T
    <2>1. T = S \cup {w}
      BY <1>2
    <2> QED BY <1>2, <2>1, FS_AddElement, FS_CardinalityType
  <1>3. CASE w \in S /\ w \notin T
    <2>1. T = S \ {w}
      BY <1>3
    <2> QED BY <1>3, <2>1, FS_RemoveElement, FS_CardinalityType
  <1> QED BY <1>1, <1>2, <1>3

LEMMA CountedSets ==
    ASSUME NEW e, IsFiniteSet(On(e)), NEW c
    PROVE  /\ IsFiniteSet(Strays(e, c)) /\ IsFiniteSet(Claimed(e, c))
           /\ Cardinality(Strays(e, c)) \in Nat /\ Cardinality(Claimed(e, c)) \in Nat
           /\ Turn(e, c) \in {0, 1}
  <1>1. Strays(e, c) \subseteq On(e) /\ Claimed(e, c) \subseteq On(e)
    BY DEF Strays, Claimed, On, Waiting, Claims
  <1> QED BY <1>1, FS_Subset, FS_CardinalityType DEF Turn

(* Who has claimed is a stray or runs the job. *)
LEMMA ClaimedFew ==
    ASSUME TypeOK, NEW e \in Events, NEW c, IsFiniteSet(On(e))
    PROVE  Cardinality(Claimed(e, c)) <= Turn(e, c) + Cardinality(Strays(e, c))
  <1>1. \A w \in Workers : Claims(w, e, c) => Waiting(w, e, c) /\ ~ Spent(w, e, c)
    <2> SUFFICES ASSUME NEW w \in Workers, Claims(w, e, c)
                 PROVE  Waiting(w, e, c) /\ ~ Spent(w, e, c)
      OBVIOUS
    <2>1. At(w) \in Nat
      BY DEF TypeOK, Run, At
    <2> QED BY <2>1, AheadFacts DEF Claims, Waiting, Spent
  <1>2. /\ IsFiniteSet(Strays(e, c)) /\ IsFiniteSet(Claimed(e, c))
        /\ Cardinality(Strays(e, c)) \in Nat /\ Cardinality(Claimed(e, c)) \in Nat
    BY CountedSets
  <1>3. CASE \E w \in Workers : Runs(w, e) /\ Claims(w, e, c)
    <2>1. PICK w \in Workers : Runs(w, e) /\ Claims(w, e, c)
      BY <1>3
    <2>2. Turn(e, c) = 1
      BY <1>1, <2>1 DEF Turn, Runs
    <2>3. Claimed(e, c) \ {w} \subseteq Strays(e, c) /\ w \in Claimed(e, c)
      BY <1>1, <2>1 DEF Claimed, Strays, Runs
    <2>4. /\ Cardinality(Claimed(e, c) \ {w}) = Cardinality(Claimed(e, c)) - 1
          /\ Cardinality(Claimed(e, c) \ {w}) <= Cardinality(Strays(e, c))
      BY <1>2, <2>3, FS_RemoveElement, FS_Subset
    <2> QED BY <1>2, <2>2, <2>4
  <1>4. CASE ~ \E w \in Workers : Runs(w, e) /\ Claims(w, e, c)
    <2>1. Claimed(e, c) \subseteq Strays(e, c)
      BY <1>1, <1>4 DEF Claimed, Strays
    <2>2. Cardinality(Claimed(e, c)) <= Cardinality(Strays(e, c))
      BY <1>2, <2>1, FS_Subset
    <2>3. Turn(e, c) \in {0, 1}
      BY DEF Turn
    <2> QED BY <1>2, <2>2, <2>3
  <1> QED BY <1>3, <1>4

(* A step that changes the work of one worker at most, on event e. *)
Share(w, e, c) == IF Runs(w, e) THEN (IF Spent(w, e, c) THEN - 1 ELSE 0)
                  ELSE IF Waiting(w, e, c) THEN 1 ELSE 0
Hold(w, e, c) == IF Claims(w, e, c) THEN 1 ELSE 0

OthersSame(w, e) ==
    \A v \in Workers : v # w => worker'[v] = worker[v] /\ (Runs(v, e)' <=> Runs(v, e))

LEMMA SharesMove ==
    ASSUME NEW e \in Events, NEW c, NEW w \in Workers, IsFiniteSet(On(e)), OthersSame(w, e)
    PROVE  /\ IsFiniteSet(On(e)')
           /\ Turn(e, c)' + Cardinality(Strays(e, c)') + Share(w, e, c)
                 = Turn(e, c) + Cardinality(Strays(e, c)) + Share(w, e, c)'
           /\ Cardinality(Claimed(e, c)') + Hold(w, e, c)
                 = Cardinality(Claimed(e, c)) + Hold(w, e, c)'
  <1>1. \A v \in Workers : v # w =>
           /\ EventOf(v)' = EventOf(v) /\ (Waiting(v, e, c)' <=> Waiting(v, e, c))
           /\ (Spent(v, e, c)' <=> Spent(v, e, c)) /\ (Claims(v, e, c)' <=> Claims(v, e, c))
    BY DEF OthersSame, EventOf, Waiting, Spent, Claims, At, Stage
  <1>2. IsFiniteSet(Strays(e, c)) /\ IsFiniteSet(Claimed(e, c))
    BY CountedSets
  <1>3. /\ \A v : v # w => (v \in On(e) <=> v \in On(e)')
        /\ \A v : v # w => (v \in Strays(e, c) <=> v \in Strays(e, c)')
        /\ \A v : v # w => (v \in Claimed(e, c) <=> v \in Claimed(e, c)')
    BY <1>1 DEF OthersSame, On, Strays, Claimed
  <1>4. PICK s, t, k, l : /\ s = Strays(e, c) /\ t = Strays(e, c)'
                          /\ k = Claimed(e, c) /\ l = Claimed(e, c)'
    OBVIOUS
  <1>5. IsFiniteSet(On(e)')
    BY <1>3, SetStep
  <1>6. /\ w \in s <=> (Waiting(w, e, c) /\ ~ Runs(w, e))
        /\ w \in t <=> (Waiting(w, e, c)' /\ ~ Runs(w, e)')
        /\ w \in k <=> Claims(w, e, c)
        /\ w \in l <=> Claims(w, e, c)'
    BY <1>4 DEF Strays, Claimed
  <1>7. /\ Cardinality(s) \in Nat /\ Cardinality(t) \in Nat
        /\ (w \in s <=> w \in t) => Cardinality(t) = Cardinality(s)
        /\ (w \notin s /\ w \in t) => Cardinality(t) = Cardinality(s) + 1
        /\ (w \in s /\ w \notin t) => Cardinality(t) = Cardinality(s) - 1
    BY <1>2, <1>3, <1>4, SetStep
  <1>8. /\ Cardinality(k) \in Nat /\ Cardinality(l) \in Nat
        /\ (w \in k <=> w \in l) => Cardinality(l) = Cardinality(k)
        /\ (w \notin k /\ w \in l) => Cardinality(l) = Cardinality(k) + 1
        /\ (w \in k /\ w \notin l) => Cardinality(l) = Cardinality(k) - 1
    BY <1>2, <1>3, <1>4, SetStep
  <1>9. Cardinality(l) + Hold(w, e, c) = Cardinality(k) + Hold(w, e, c)'
    BY <1>6, <1>8 DEF Hold
  <1>10. Turn(e, c)' + Cardinality(t) + Share(w, e, c) = Turn(e, c) + Cardinality(s) + Share(w, e, c)'
    <2>1. ASSUME NEW v \in Workers, v # w, Runs(v, e)
          PROVE  Turn(e, c)' = Turn(e, c) /\ ~ Runs(w, e) /\ ~ Runs(w, e)'
      <3>1. Runs(v, e)'
        BY <2>1 DEF OthersSame
      <3>2. \A u \in Workers : (Runs(u, e) => u = v) /\ (Runs(u, e)' => u = v)
        BY <2>1, <3>1 DEF Runs
      <3>3. Spent(v, e, c)' <=> Spent(v, e, c)
        BY <1>1, <2>1
      <3> QED BY <2>1, <3>1, <3>2, <3>3 DEF Turn
    <2>2. ASSUME \A v \in Workers : v # w => ~ Runs(v, e)
          PROVE  /\ Turn(e, c) = IF Runs(w, e) /\ Spent(w, e, c) THEN 0 ELSE 1
                 /\ Turn(e, c)' = IF Runs(w, e)' /\ Spent(w, e, c)' THEN 0 ELSE 1
      BY <2>2 DEF Turn, OthersSame
    <2>3. CASE \E v \in Workers : v # w /\ Runs(v, e)
      <3>1. Turn(e, c)' = Turn(e, c) /\ ~ Runs(w, e) /\ ~ Runs(w, e)' /\ Turn(e, c) \in {0, 1}
        BY <2>1, <2>3 DEF Turn
      <3> QED BY <1>6, <1>7, <3>1 DEF Share
    <2>4. CASE ~ \E v \in Workers : v # w /\ Runs(v, e)
      <3>1. /\ Turn(e, c) = IF Runs(w, e) /\ Spent(w, e, c) THEN 0 ELSE 1
            /\ Turn(e, c)' = IF Runs(w, e)' /\ Spent(w, e, c)' THEN 0 ELSE 1
        BY <2>2, <2>4
      <3> QED BY <1>6, <1>7, <3>1 DEF Share
    <2> QED BY <2>3, <2>4
  <1> QED BY <1>4, <1>5, <1>9, <1>10

(* What such a step may do to the count of e and c. *)
Fair(w, e, c) ==
    /\ c \in inbox[e] =>
          /\ c \in inbox'[e]
          /\ applied'[e][c] + Hold(w, e, c)' + Allowed <= applied[e][c] + Hold(w, e, c) + Allowed'
    /\ c \notin inbox'[e] =>
          applied'[e][c] + Share(w, e, c)' + Allowed <= applied[e][c] + Share(w, e, c) + Allowed'
    /\ c \notin inbox[e] /\ c \in inbox'[e] =>
          /\ applied'[e][c] = applied[e][c] /\ Hold(w, e, c)' = Hold(w, e, c)
          /\ Allowed <= Allowed'

LEMMA AllowedType == /\ TypeOK => Allowed \in Nat
                     /\ TypeOK' => Allowed' \in Nat
  <1>1. "worker" \in FaultKinds /\ "consumer" \in FaultKinds /\ "stall" \in FaultKinds
    BY DEF FaultKinds
  <1>2. TypeOK => faults \in [FaultKinds -> Nat]
    BY DEF TypeOK
  <1>3. TypeOK' => faults' \in [FaultKinds -> Nat]
    BY DEF TypeOK
  <1> QED BY <1>1, <1>2, <1>3 DEF Allowed

LEMMA CountedStep ==
    ASSUME TypeOK, TypeOK', NEW e \in Events, NEW c \in Categories, NEW w \in Workers,
           Counted(e, c), IsFiniteSet(On(e)), OthersSame(w, e), Fair(w, e, c)
    PROVE  Counted(e, c)' /\ IsFiniteSet(On(e)')
  <1>1. PICK a \in Nat, b \in Nat, m \in Nat, n \in Nat :
           a = applied[e][c] /\ b = applied'[e][c] /\ m = Allowed /\ n = Allowed'
    <2>1. applied[e][c] \in Nat /\ applied'[e][c] \in Nat
      BY DEF TypeOK
    <2>2. Allowed \in Nat /\ Allowed' \in Nat
      BY AllowedType
    <2> QED BY <2>1, <2>2
  <1>2. /\ IsFiniteSet(On(e)')
        /\ Turn(e, c)' + Cardinality(Strays(e, c)') + Share(w, e, c)
              = Turn(e, c) + Cardinality(Strays(e, c)) + Share(w, e, c)'
        /\ Cardinality(Claimed(e, c)') + Hold(w, e, c)
              = Cardinality(Claimed(e, c)) + Hold(w, e, c)'
    BY SharesMove
  <1>3. /\ Cardinality(Strays(e, c)) \in Nat /\ Cardinality(Claimed(e, c)) \in Nat
        /\ Turn(e, c) \in {0, 1}
    BY CountedSets
  <1>4. Cardinality(Strays(e, c)') \in Nat /\ Cardinality(Claimed(e, c)') \in Nat
    <2>1. Strays(e, c)' \subseteq On(e)' /\ Claimed(e, c)' \subseteq On(e)'
      BY DEF Strays, Claimed, On, Waiting, Claims
    <2> QED BY <1>2, <2>1, FS_Subset, FS_CardinalityType
  <1>5. Turn(e, c)' \in {0, 1}
    BY DEF Turn
  <1>6. PICK s \in Nat, t \in Nat, k \in Nat, l \in Nat :
           /\ s = Turn(e, c) + Cardinality(Strays(e, c))
           /\ t = Turn(e, c)' + Cardinality(Strays(e, c)')
           /\ k = Cardinality(Claimed(e, c)) /\ l = Cardinality(Claimed(e, c)')
    BY <1>3, <1>4, <1>5
  <1>7. PICK h \in {0, 1}, i \in {0, 1}, x \in {-1, 0, 1}, y \in {-1, 0, 1} :
           /\ h = Hold(w, e, c) /\ i = Hold(w, e, c)'
           /\ x = Share(w, e, c) /\ y = Share(w, e, c)'
    BY DEF Hold, Share
  <1>8. t + x = s + y /\ l + h = k + i
    BY <1>2, <1>3, <1>4, <1>5, <1>6, <1>7
  <1>9. IF c \in inbox[e] THEN a + k <= m ELSE a + s <= m
    BY <1>1, <1>3, <1>6 DEF Counted
  <1>10. Counted(e, c)' <=> IF c \in inbox'[e] THEN b + l <= n ELSE b + t <= n
    BY <1>1, <1>4, <1>5, <1>6 DEF Counted
  <1>11. CASE c \in inbox[e]
    <2>1. c \in inbox'[e] /\ b + i + m <= a + h + n
      BY <1>1, <1>7, <1>11 DEF Fair
    <2>2. b + l <= n
      BY <1>8, <1>9, <1>11, <2>1
    <2> QED BY <1>2, <1>10, <2>1, <2>2
  <1>12. CASE c \notin inbox'[e] /\ c \notin inbox[e]
    <2>1. b + y + m <= a + x + n
      BY <1>1, <1>7, <1>12 DEF Fair
    <2>2. b + t <= n
      BY <1>8, <1>9, <1>12, <2>1
    <2> QED BY <1>2, <1>10, <1>12, <2>2
  <1>13. CASE c \notin inbox[e] /\ c \in inbox'[e]
    <2>1. b = a /\ i = h /\ m <= n
      BY <1>1, <1>7, <1>13 DEF Fair
    <2>2. k <= s
      BY <1>6, ClaimedFew
    <2>3. b + l <= n
      BY <1>8, <1>9, <1>13, <2>1, <2>2
    <2> QED BY <1>2, <1>10, <1>13, <2>3
  <1> QED BY <1>11, <1>12, <1>13

(* The step keeps the count of every event and consumer. *)
Settles(w) == \A e \in Events : /\ OthersSame(w, e)
                                /\ \A c \in Categories : Fair(w, e, c)

LEMMA CountWhenSettled ==
    ASSUME TypeOK, TypeOK', CountInv, NEW w \in Workers, Settles(w) PROVE CountInv'
  <1> SUFFICES ASSUME NEW e \in Events
               PROVE  IsFiniteSet(On(e)') /\ \A c \in Categories : Counted(e, c)'
    BY DEF CountInv
  <1>1. \A c \in Categories : Counted(e, c)' /\ IsFiniteSet(On(e)')
    BY CountedStep DEF CountInv, Settles
  <1>2. "mail" \in Categories
    BY DEF Categories
  <1> QED BY <1>1, <1>2

(* A step that leaves workers, receipts and effects alone. *)
LEMMA CountUnmoved ==
    ASSUME TypeOK, TypeOK', CountInv, UNCHANGED <<worker, inbox, applied>>, Allowed <= Allowed',
           \A e \in Events, v \in Workers : Runs(v, e)' <=> Runs(v, e)
    PROVE  CountInv'
  <1> SUFFICES ASSUME NEW e \in Events
               PROVE  IsFiniteSet(On(e)') /\ \A c \in Categories : Counted(e, c)'
    BY DEF CountInv
  <1>1. On(e)' = On(e)
    BY DEF On, EventOf
  <1>2. ASSUME NEW c \in Categories PROVE Counted(e, c)'
    <2>1. \A v \in Workers : /\ Waiting(v, e, c)' <=> Waiting(v, e, c)
                             /\ Spent(v, e, c)' <=> Spent(v, e, c)
                             /\ Claims(v, e, c)' <=> Claims(v, e, c)
      BY DEF EventOf, Waiting, Spent, Claims, At, Stage
    <2>2. Strays(e, c)' = Strays(e, c) /\ Claimed(e, c)' = Claimed(e, c)
      BY <2>1 DEF Strays, Claimed
    <2>3. Turn(e, c)' = Turn(e, c)
      BY <2>1 DEF Turn
    <2>4. Counted(e, c) /\ IsFiniteSet(On(e))
      BY DEF CountInv
    <2>5. /\ Cardinality(Strays(e, c)) \in Nat /\ Cardinality(Claimed(e, c)) \in Nat
          /\ Turn(e, c) \in {0, 1}
      BY <2>4, CountedSets
    <2>6. applied[e][c] \in Nat /\ Allowed \in Nat /\ Allowed' \in Nat
      BY AllowedType DEF TypeOK
    <2>7. PICK a \in Nat, t \in Nat, s \in Nat, k \in Nat, m \in Nat, n \in Nat :
             /\ a = applied[e][c] /\ t = Turn(e, c) /\ s = Cardinality(Strays(e, c))
             /\ k = Cardinality(Claimed(e, c)) /\ m = Allowed /\ n = Allowed'
      BY <2>5, <2>6
    <2>8. IF c \in inbox[e] THEN a + k <= m ELSE a + t + s <= m
      BY <2>4, <2>7 DEF Counted
    <2>9. IF c \in inbox[e] THEN a + k <= n ELSE a + t + s <= n
      BY <2>7, <2>8
    <2>10. Counted(e, c)' <=> IF c \in inbox[e] THEN a + k <= n ELSE a + t + s <= n
      BY <2>2, <2>3, <2>7 DEF Counted
    <2> QED BY <2>9, <2>10
  <1> QED BY <1>1, <1>2 DEF CountInv

(* One worker moves on its event: nothing changes at other events. *)
LEMMA OnOneEvent ==
    ASSUME TypeOK, TypeOK', NEW w \in Workers, NEW d,
           EventOf(w) \in {d, NoEvent}, EventOf(w)' \in {d, NoEvent},
           \A v \in Workers : v # w => worker'[v] = worker[v],
           \A e \in Events : e # d => /\ job'[e] = job[e] /\ inbox'[e] = inbox[e]
                                      /\ applied'[e] = applied[e],
           \A v \in Workers : v # w => (Runs(v, d)' <=> Runs(v, d)),
           Allowed <= Allowed',
           d \in Events => \A c \in Categories : Fair(w, d, c)
    PROVE  Settles(w)
  <1>2. \A e \in Events : OthersSame(w, e)
    <2> SUFFICES ASSUME NEW e \in Events, NEW v \in Workers, v # w
                 PROVE  worker'[v] = worker[v] /\ (Runs(v, e)' <=> Runs(v, e))
      BY DEF OthersSame, Runs, EventOf
    <2> QED BY DEF Runs, EventOf
  <1>3. ASSUME NEW e \in Events, e # d, NEW c \in Categories PROVE Fair(w, e, c)
    <2>1. EventOf(w) # e /\ EventOf(w)' # e
      BY <1>3, NamesAssumption
    <2>2. /\ Share(w, e, c) = 0 /\ Share(w, e, c)' = 0
          /\ Hold(w, e, c) = 0 /\ Hold(w, e, c)' = 0
      BY <2>1 DEF Share, Hold, Runs, Waiting, Claims
    <2>3. applied'[e][c] = applied[e][c] /\ inbox'[e] = inbox[e]
      BY <1>3
    <2>4. applied[e][c] \in Nat /\ Allowed \in Nat /\ Allowed' \in Nat
      BY AllowedType DEF TypeOK
    <2> QED BY <2>2, <2>3, <2>4 DEF Fair
  <1> QED BY <1>2, <1>3 DEF Settles

(* A worker that gives its event up: what it still had to do is left to     *)
(* others; a fault pays for what it has done without recording it.          *)
LEMMA GivesUp ==
    ASSUME TypeOK, TypeOK', NEW w \in Workers, NEW e \in Events, e = EventOf(w),
           worker' = [worker EXCEPT ![w] = Idle],
           UNCHANGED <<inbox, applied>>, Allowed <= Allowed',
           \A f \in Events : f # e => job'[f] = job[f],
           \A v \in Workers : v # w => (Runs(v, e)' <=> Runs(v, e)),
           \A c \in Categories : Spent(w, e, c) => c \in inbox[e] \/ Allowed + 1 <= Allowed'
    PROVE  Settles(w)
  <1>1. EventOf(w)' = NoEvent /\ \A v \in Workers : v # w => worker'[v] = worker[v]
    BY DEF TypeOK, EventOf, Idle, Place
  <1>2. ASSUME NEW c \in Categories PROVE Fair(w, e, c)
    <2>1. Share(w, e, c)' = 0 /\ Hold(w, e, c)' = 0
      BY <1>1, NamesAssumption DEF Share, Hold, Runs, Waiting, Claims
    <2>2. Hold(w, e, c) \in {0, 1} /\ Share(w, e, c) \in {-1, 0, 1}
      BY DEF Hold, Share
    <2>3. Share(w, e, c) = -1 => Spent(w, e, c)
      BY DEF Share
    <2>4. applied[e][c] \in Nat /\ Allowed \in Nat /\ Allowed' \in Nat
      BY AllowedType DEF TypeOK
    <2>5. c \notin inbox[e] => Allowed <= Share(w, e, c) + Allowed'
      BY <2>2, <2>3, <2>4
    <2> QED BY <2>1, <2>2, <2>4, <2>5 DEF Fair
  <1> QED BY <1>1, <1>2, OnOneEvent

(* A worker that goes on with its event. *)
LEMMA GoesOn ==
    ASSUME TypeOK, TypeOK', NEW w \in Workers, NEW e \in Events, e = EventOf(w),
           NEW at \in Nat, NEW stage,
           worker' = [worker EXCEPT ![w] = Place(e, at, stage)],
           UNCHANGED <<job, faults>>,
           \A f \in Events : f # e => inbox'[f] = inbox[f] /\ applied'[f] = applied[f],
           \A c \in Categories : Fair(w, e, c)
    PROVE  Settles(w)
  <1>1. \A v \in Workers : v # w => worker'[v] = worker[v]
    BY DEF TypeOK
  <1>2. Allowed' = Allowed /\ Allowed \in Nat /\ Allowed <= Allowed'
    BY AllowedType DEF Allowed
  <1>3. EventOf(w)' = e
    BY DEF TypeOK, EventOf, Place
  <1>4. \A v \in Workers : v # w => (Runs(v, e)' <=> Runs(v, e))
    BY <1>1 DEF Runs, EventOf
  <1> QED BY <1>1, <1>2, <1>3, <1>4, OnOneEvent

(* What a worker that goes on was to its event, and what it is now. *)
LEMMA PlaceFacts ==
    ASSUME TypeOK, NEW w \in Workers, NEW e, e = EventOf(w), NEW at \in Nat, NEW stage,
           worker' = [worker EXCEPT ![w] = Place(e, at, stage)], UNCHANGED job, NEW c
    PROVE  /\ Runs(w, e)' <=> Runs(w, e)
           /\ Waiting(w, e, c)' <=> Ahead(e, c, at, stage)
           /\ Spent(w, e, c)' <=> (Here(e, c, at) /\ stage = "applied")
           /\ Claims(w, e, c)' <=> (Here(e, c, at) /\ stage = "claimed")
           /\ Waiting(w, e, c) <=> Ahead(e, c, At(w), Stage(w))
           /\ Spent(w, e, c) <=> (Here(e, c, At(w)) /\ Stage(w) = "applied")
           /\ Claims(w, e, c) <=> (Here(e, c, At(w)) /\ Stage(w) = "claimed")
  <1>1. worker'[w] = Place(e, at, stage)
    BY DEF TypeOK
  <1>2. EventOf(w)' = e /\ At(w)' = at /\ Stage(w)' = stage
    BY <1>1 DEF EventOf, At, Stage, Place
  <1>3. Runs(w, e)' <=> Runs(w, e)
    BY <1>2 DEF Runs
  <1>4. /\ Waiting(w, e, c) <=> Ahead(e, c, At(w), Stage(w))
        /\ Spent(w, e, c) <=> (Here(e, c, At(w)) /\ Stage(w) = "applied")
        /\ Claims(w, e, c) <=> (Here(e, c, At(w)) /\ Stage(w) = "claimed")
    BY DEF Waiting, Spent, Claims
  <1>5. /\ Waiting(w, e, c)' <=> Ahead(e, c, At(w)', Stage(w)')
        /\ Spent(w, e, c)' <=> (Here(e, c, At(w)') /\ Stage(w)' = "applied")
        /\ Claims(w, e, c)' <=> (Here(e, c, At(w)') /\ Stage(w)' = "claimed")
    BY <1>2, Zenon DEF Waiting, Spent, Claims
  <1> QED BY <1>2, <1>3, <1>4, <1>5

(* A worker at a consumer: it is here, and no other consumer is. *)
LEMMA AtItsPlace ==
    ASSUME TypeOK, NEW w \in Workers, NEW stage, AtConsumer(w, stage)
    PROVE  /\ EventOf(w) \in Events /\ ConsumerAt(w) \in Categories
           /\ At(w) \in Nat /\ Stage(w) = stage
           /\ \A c : Here(EventOf(w), c, At(w)) <=> c = ConsumerAt(w)
  <1>1. /\ EventOf(w) \in Events /\ ConsumerAt(w) \in Categories
        /\ worker[w].at \in 1..Len(Route(EventOf(w)))
    BY ConsumerType, TypeParts
  <1>2. worker[w].at \in DOMAIN Route(EventOf(w))
    BY <1>1, RouteType
  <1>3. worker[w].at \in Nat /\ worker[w].stage = stage
    BY <1>1 DEF AtConsumer, TypeOK, Run
  <1> QED BY <1>1, <1>2, <1>3 DEF Here, ConsumerAt, At, Stage

LEMMA PassOverSettles ==
    ASSUME TypeOK, TypeOK', NEW w \in Workers, PassOver(w) \/ Duplicate(w) PROVE Settles(w)
  <1>1. AtConsumer(w, "next") /\ MoveOn(w) /\ UNCHANGED <<job, inbox, applied, faults>>
    BY DEF PassOver, Duplicate
  <1>2. PICK e \in Events, at \in Nat : e = EventOf(w) /\ at = At(w) /\ Stage(w) = "next"
    BY <1>1, AtItsPlace
  <1>3. worker' = [worker EXCEPT ![w] = Place(e, at + 1, "next")] /\ at + 1 \in Nat
    BY <1>1, <1>2 DEF MoveOn, At
  <1>4. ASSUME NEW c \in Categories PROVE Fair(w, e, c)
    <2>1. /\ Runs(w, e)' <=> Runs(w, e)
          /\ Waiting(w, e, c)' => Waiting(w, e, c)
          /\ ~ Spent(w, e, c)' /\ ~ Spent(w, e, c) /\ ~ Claims(w, e, c)' /\ ~ Claims(w, e, c)
      BY <1>1, <1>2, <1>3, PlaceFacts, AheadFacts
    <2>2. /\ Hold(w, e, c)' = 0 /\ Hold(w, e, c) = 0
          /\ Share(w, e, c)' \in {0, 1} /\ Share(w, e, c) \in {0, 1}
          /\ Share(w, e, c)' <= Share(w, e, c)
      BY <2>1 DEF Hold, Share
    <2>3. /\ applied'[e][c] = applied[e][c] /\ inbox'[e] = inbox[e] /\ Allowed' = Allowed
          /\ applied[e][c] \in Nat /\ Allowed \in Nat
      BY <1>1, AllowedType DEF TypeOK, Allowed
    <2> QED BY <2>2, <2>3 DEF Fair
  <1> QED BY <1>1, <1>2, <1>3, <1>4, GoesOn

LEMMA TryClaimSettles ==
    ASSUME TypeOK, TypeOK', NEW w \in Workers, TryClaim(w) PROVE Settles(w)
  <1>1. /\ AtConsumer(w, "next") /\ UNCHANGED <<job, inbox, applied, faults>>
        /\ ConsumerAt(w) \notin inbox[EventOf(w)]
    BY DEF TryClaim, Received
  <1>2. PICK e \in Events, at \in Nat : e = EventOf(w) /\ at = At(w) /\ Stage(w) = "next"
    BY <1>1, AtItsPlace
  <1>3. worker' = [worker EXCEPT ![w] = Place(e, at, "claimed")]
    BY <1>2 DEF TryClaim, At
  <1>4. ASSUME NEW c \in Categories PROVE Fair(w, e, c)
    <2>1. /\ Runs(w, e)' <=> Runs(w, e)
          /\ Waiting(w, e, c)' <=> Ahead(e, c, at, "claimed")
          /\ Spent(w, e, c)' <=> (Here(e, c, at) /\ "claimed" = "applied")
          /\ Claims(w, e, c)' <=> (Here(e, c, at) /\ "claimed" = "claimed")
          /\ Waiting(w, e, c) <=> Ahead(e, c, At(w), Stage(w))
          /\ Spent(w, e, c) <=> (Here(e, c, At(w)) /\ Stage(w) = "applied")
          /\ Claims(w, e, c) <=> (Here(e, c, At(w)) /\ Stage(w) = "claimed")
      BY <1>1, <1>2, <1>3, PlaceFacts
    <2>2. /\ Ahead(e, c, at, "claimed") <=> Ahead(e, c, at, "next")
          /\ Ahead(e, c, at, "applied") => Ahead(e, c, at, "claimed")
          /\ Here(e, c, at) => ~ Ahead(e, c, at, "applied") /\ Ahead(e, c, at, "claimed")
      BY AheadFacts
    <2>3. /\ Runs(w, e)' <=> Runs(w, e)
          /\ Waiting(w, e, c)' <=> Waiting(w, e, c)
          /\ ~ Spent(w, e, c)' /\ ~ Spent(w, e, c)
          /\ Claims(w, e, c)' => Here(e, c, at)
      BY <1>2, <2>1, <2>2
    <2>4. c \in inbox[e] => ~ Claims(w, e, c)'
      BY <1>1, <1>2, <2>3, AtItsPlace
    <2>5. /\ c \in inbox[e] => Hold(w, e, c)' <= Hold(w, e, c)
          /\ Hold(w, e, c)' \in {0, 1} /\ Hold(w, e, c) \in {0, 1}
          /\ Share(w, e, c)' \in {0, 1} /\ Share(w, e, c)' = Share(w, e, c)
      BY <2>3, <2>4 DEF Hold, Share
    <2>6. /\ applied'[e][c] = applied[e][c] /\ inbox'[e] = inbox[e] /\ Allowed' = Allowed
          /\ applied[e][c] \in Nat /\ Allowed \in Nat
      BY <1>1, AllowedType DEF TypeOK, Allowed
    <2> QED BY <2>5, <2>6 DEF Fair
  <1> QED BY <1>1, <1>2, <1>3, <1>4, GoesOn

LEMMA ApplySettles ==
    ASSUME TypeOK, TypeOK', NEW w \in Workers, Apply(w) PROVE Settles(w)
  <1>1. AtConsumer(w, "claimed") /\ UNCHANGED <<job, inbox, faults>>
    BY DEF Apply
  <1>2. PICK e \in Events, d \in Categories, at \in Nat :
           /\ e = EventOf(w) /\ d = ConsumerAt(w) /\ at = At(w) /\ Stage(w) = "claimed"
           /\ \A c : Here(e, c, at) <=> c = d
    <2>3. PICK e, d, at : e = EventOf(w) /\ d = ConsumerAt(w) /\ at = At(w)
      OBVIOUS
    <2> QED BY <1>1, <2>3, AtItsPlace
  <1>3. worker' = [worker EXCEPT ![w] = Place(e, at, "applied")]
    BY <1>2 DEF Apply, At
  <1>4. applied' = [applied EXCEPT ![e][d] = IF d \in Idempotent THEN 1 ELSE applied[e][d] + 1]
    BY <1>2, Zenon DEF Apply
  <1>5. /\ \A f \in Events : f # e => applied'[f] = applied[f]
        /\ \A c \in Categories : c # d => applied'[e][c] = applied[e][c]
        /\ applied'[e][d] = IF d \in Idempotent THEN 1 ELSE applied[e][d] + 1
    BY <1>4 DEF TypeOK
  <1>6. ASSUME NEW c \in Categories PROVE Fair(w, e, c)
    <2>1. /\ Runs(w, e)' <=> Runs(w, e)
          /\ Waiting(w, e, c)' <=> Ahead(e, c, at, "applied")
          /\ Spent(w, e, c)' <=> (Here(e, c, at) /\ "applied" = "applied")
          /\ Claims(w, e, c)' <=> (Here(e, c, at) /\ "applied" = "claimed")
          /\ Waiting(w, e, c) <=> Ahead(e, c, At(w), Stage(w))
          /\ Spent(w, e, c) <=> (Here(e, c, At(w)) /\ Stage(w) = "applied")
          /\ Claims(w, e, c) <=> (Here(e, c, At(w)) /\ Stage(w) = "claimed")
      BY <1>1, <1>2, <1>3, PlaceFacts
    <2>2. /\ Ahead(e, c, at, "claimed") <=> Ahead(e, c, at, "next")
          /\ Ahead(e, c, at, "applied") => Ahead(e, c, at, "claimed")
          /\ Here(e, c, at) => ~ Ahead(e, c, at, "applied") /\ Ahead(e, c, at, "claimed")
      BY AheadFacts
    <2>3. /\ Runs(w, e)' <=> Runs(w, e)
          /\ Waiting(w, e, c)' => Waiting(w, e, c)
          /\ ~ Spent(w, e, c) /\ ~ Claims(w, e, c)'
          /\ Spent(w, e, c)' => c = d
          /\ c = d => /\ Spent(w, e, c)' /\ Claims(w, e, c)
                      /\ Waiting(w, e, c) /\ ~ Waiting(w, e, c)'
      BY <1>2, <2>1, <2>2
    <2>4. /\ inbox'[e] = inbox[e] /\ Allowed' = Allowed
          /\ applied[e][c] \in Nat /\ applied'[e][c] \in Nat /\ Allowed \in Nat
      BY <1>1, AllowedType DEF TypeOK, Allowed
    <2>5. CASE c = d
      <3>1. applied'[e][c] <= applied[e][c] + 1
        BY <1>5, <2>4, <2>5
      <3>2. Hold(w, e, c)' = 0 /\ Hold(w, e, c) = 1 /\ Share(w, e, c)' + 1 = Share(w, e, c)
        BY <2>3, <2>5 DEF Hold, Share
      <3>3. Share(w, e, c) \in {-1, 0, 1} /\ Share(w, e, c)' \in {-1, 0, 1}
        BY DEF Share
      <3> QED BY <2>4, <3>1, <3>2, <3>3 DEF Fair
    <2>6. CASE c # d
      <3>1. applied'[e][c] = applied[e][c]
        BY <1>5, <2>6
      <3>2. /\ Hold(w, e, c)' = 0 /\ Hold(w, e, c) \in {0, 1}
            /\ Share(w, e, c)' \in {0, 1} /\ Share(w, e, c) \in {0, 1}
            /\ Share(w, e, c)' <= Share(w, e, c)
        BY <2>3, <2>6 DEF Hold, Share
      <3> QED BY <2>4, <3>1, <3>2 DEF Fair
    <2> QED BY <2>5, <2>6
  <1> QED BY <1>1, <1>2, <1>3, <1>5, <1>6, GoesOn

LEMMA RecordSettles ==
    ASSUME TypeOK, TypeOK', NEW w \in Workers, Record(w), ConsumerAt(w) \notin inbox[EventOf(w)]
    PROVE  Settles(w)
  <1>1. AtConsumer(w, "applied") /\ MoveOn(w) /\ UNCHANGED <<job, applied, faults>>
    BY DEF Record
  <1>2. PICK e \in Events, d \in Categories, at \in Nat :
           /\ e = EventOf(w) /\ d = ConsumerAt(w) /\ at = At(w) /\ Stage(w) = "applied"
           /\ \A c : Here(e, c, at) <=> c = d
    <2>1. PICK e, d, at : e = EventOf(w) /\ d = ConsumerAt(w) /\ at = At(w)
      OBVIOUS
    <2> QED BY <1>1, <2>1, AtItsPlace
  <1>3. worker' = [worker EXCEPT ![w] = Place(e, at + 1, "next")] /\ at + 1 \in Nat
    BY <1>1, <1>2 DEF MoveOn, At
  <1>4. inbox' = [inbox EXCEPT ![e] = @ \cup {d}] /\ d \notin inbox[e]
    BY <1>2 DEF Record
  <1>5. inbox'[e] = inbox[e] \cup {d} /\ \A f \in Events : f # e => inbox'[f] = inbox[f]
    BY <1>4 DEF TypeOK
  <1>6. ASSUME NEW c \in Categories PROVE Fair(w, e, c)
    <2>1. /\ Runs(w, e)' <=> Runs(w, e)
          /\ Waiting(w, e, c)' => Waiting(w, e, c)
          /\ ~ Spent(w, e, c)' /\ ~ Claims(w, e, c) /\ ~ Claims(w, e, c)'
          /\ Spent(w, e, c) => c = d
      BY <1>1, <1>2, <1>3, PlaceFacts, AheadFacts
    <2>2. /\ applied'[e][c] = applied[e][c] /\ Allowed' = Allowed
          /\ applied[e][c] \in Nat /\ Allowed \in Nat
      BY <1>1, AllowedType DEF TypeOK, Allowed
    <2>3. /\ Hold(w, e, c)' = 0 /\ Hold(w, e, c) = 0
          /\ Share(w, e, c)' \in {0, 1} /\ Share(w, e, c) \in {-1, 0, 1}
          /\ c # d => Share(w, e, c)' <= Share(w, e, c)
      BY <2>1 DEF Hold, Share
    <2> QED BY <1>5, <2>2, <2>3 DEF Fair
  <1> QED BY <1>1, <1>2, <1>3, <1>5, <1>6, GoesOn

(* The attempt fails, with nothing left unrecorded or with a fault. *)
LEMMA AttemptSettles ==
    ASSUME TypeOK, TypeOK', NEW w \in Workers, NEW stage, AtConsumer(w, stage), AttemptFailed(w),
           UNCHANGED <<inbox, applied>>,
           \/ Allowed' = Allowed + 1
           \/ Allowed' = Allowed /\ (stage = "applied" => ConsumerAt(w) \in inbox[EventOf(w)])
    PROVE  Settles(w)
  <1>1. PICK e \in Events, d \in Categories : /\ e = EventOf(w) /\ d = ConsumerAt(w)
                                              /\ Stage(w) = stage
                                              /\ \A c : Here(e, c, At(w)) <=> c = d
    <2>1. PICK e, d : e = EventOf(w) /\ d = ConsumerAt(w)
      OBVIOUS
    <2> QED BY <2>1, AtItsPlace
  <1>2. worker' = [worker EXCEPT ![w] = Idle] /\ \A v \in Workers : v # w => worker'[v] = worker[v]
    BY DEF AttemptFailed, TypeOK
  <1>3. \/ job' = job
        \/ job[e].owner = w /\ \E state \in {"failed", "queued"} : \E attempts, stalled :
              job' = [job EXCEPT ![e] = JobIn(state, attempts, stalled, NoWorker)]
    BY <1>1 DEF AttemptFailed
  <1>4. \A f \in Events : f # e => job'[f] = job[f]
    BY <1>3 DEF TypeOK
  <1>5. ASSUME NEW v \in Workers, v # w PROVE Runs(v, e)' <=> Runs(v, e)
    <2>1. CASE job' = job
      BY <1>2, <1>5, <2>1 DEF Runs, EventOf
    <2>2. CASE job[e].owner = w /\ job'[e].state \in {"failed", "queued"}
      BY <1>5, <2>2 DEF Runs
    <2> QED BY <1>3, <2>1, <2>2 DEF TypeOK, JobIn
  <1>6. Allowed \in Nat
    BY AllowedType
  <1>7. ASSUME NEW c \in Categories, Spent(w, e, c)
        PROVE  c \in inbox[e] \/ Allowed + 1 <= Allowed'
    <2>1. c = d /\ stage = "applied"
      BY <1>1, <1>7 DEF Spent
    <2> QED BY <1>1, <1>6, <2>1
  <1>8. Allowed <= Allowed'
    BY <1>6
  <1> QED BY <1>1, <1>2, <1>4, <1>5, <1>7, <1>8, GivesUp

LEMMA FaultCounts ==
    ASSUME TypeOK, NEW k \in {"worker", "consumer", "stall"}, Fault(k)
    PROVE  Allowed' = Allowed + 1
  <1>1. k \in FaultKinds /\ {"worker", "consumer", "stall"} \subseteq FaultKinds
    BY DEF FaultKinds
  <1>2. /\ faults'[k] = faults[k] + 1
        /\ \A m \in FaultKinds : m # k => faults'[m] = faults[m]
        /\ \A m \in FaultKinds : faults[m] \in Nat
    BY <1>1, FaultType DEF TypeOK
  <1> QED BY <1>1, <1>2 DEF Allowed

LEMMA CrashSettles ==
    ASSUME TypeOK, TypeOK', NEW w \in Workers, WorkerCrash(w) PROVE Settles(w)
  <1>1. PICK e \in Events : e = EventOf(w)
    BY DEF WorkerCrash, Busy, TypeOK, Run, EventOf
  <1>2. /\ worker' = [worker EXCEPT ![w] = Idle] /\ UNCHANGED <<job, inbox, applied>>
        /\ \A v \in Workers : v # w => worker'[v] = worker[v]
    BY DEF WorkerCrash, TypeOK
  <1>3. Allowed' = Allowed + 1 /\ Allowed \in Nat
    BY FaultCounts, AllowedType DEF WorkerCrash
  <1>4. \A v \in Workers : v # w => (Runs(v, e)' <=> Runs(v, e))
    BY <1>2 DEF Runs, EventOf
  <1>5. Allowed <= Allowed' /\ Allowed + 1 <= Allowed'
    BY <1>3
  <1> QED BY <1>1, <1>2, <1>4, <1>5, GivesUp

LEMMA FinishSettles ==
    ASSUME TypeOK, TypeOK', NEW w \in Workers, Finish(w) PROVE Settles(w)
  <1>1. PICK e \in Events : e = EventOf(w)
    BY DEF Finish, Busy, TypeOK, Run, EventOf
  <1>2. /\ worker' = [worker EXCEPT ![w] = Idle] /\ UNCHANGED <<inbox, applied, faults>>
        /\ \A v \in Workers : v # w => worker'[v] = worker[v]
        /\ Stage(w) = "next"
    BY DEF Finish, TypeOK, RouteDone, Stage
  <1>3. job' = job \/ (job[e].owner = w /\ job' = [job EXCEPT ![e] = NoJob])
    BY <1>1 DEF Finish
  <1>4. \A f \in Events : f # e => job'[f] = job[f]
    BY <1>3 DEF TypeOK
  <1>5. ASSUME NEW v \in Workers, v # w PROVE Runs(v, e)' <=> Runs(v, e)
    <2>1. CASE job' = job
      BY <1>2, <1>5, <2>1 DEF Runs, EventOf
    <2>2. CASE job[e].owner = w /\ job' = [job EXCEPT ![e] = NoJob]
      BY <1>5, <2>2 DEF Runs, TypeOK, NoJob, JobIn
    <2> QED BY <1>3, <2>1, <2>2
  <1>6. Allowed' = Allowed /\ Allowed \in Nat
    BY <1>2, AllowedType DEF Allowed
  <1>7. Allowed <= Allowed' /\ \A c \in Categories : ~ Spent(w, e, c)
    BY <1>2, <1>6 DEF Spent
  <1> QED BY <1>1, <1>2, <1>4, <1>5, <1>7, GivesUp

LEMMA TakeSettles ==
    ASSUME TypeOK, TypeOK', NEW w \in Workers, NEW e \in Events, Take(w, e) PROVE Settles(w)
  <1>1. /\ EventOf(w) = NoEvent /\ job[e].state = "queued"
        /\ UNCHANGED <<inbox, applied, faults>>
        /\ worker'[w] = Place(e, 1, "next")
        /\ \A v \in Workers : v # w => worker'[v] = worker[v]
        /\ job'[e].owner = w
        /\ \A f \in Events : f # e => job'[f] = job[f]
    BY DEF Take, Busy, TypeOK, JobIn
  <1>2. EventOf(w)' = e /\ Stage(w)' = "next"
    BY <1>1 DEF EventOf, Place, Stage
  <1>3. Allowed' = Allowed /\ Allowed \in Nat /\ Allowed <= Allowed'
    BY <1>1, AllowedType DEF Allowed
  <1>4. \A v \in Workers : v # w => ~ Runs(v, e)' /\ ~ Runs(v, e)
    BY <1>1 DEF Runs
  <1>5. Runs(w, e)'
    BY <1>2 DEF Runs, Take, TypeOK, JobIn
  <1>6. ASSUME NEW c \in Categories PROVE Fair(w, e, c)
    <2>1. /\ Hold(w, e, c) = 0 /\ Share(w, e, c) = 0
          /\ Hold(w, e, c)' = 0 /\ Share(w, e, c)' = 0
      BY <1>1, <1>2, <1>5, NamesAssumption DEF Hold, Share, Runs, Waiting, Claims, Spent
    <2>2. applied'[e][c] = applied[e][c] /\ inbox'[e] = inbox[e] /\ applied[e][c] \in Nat
      BY <1>1 DEF TypeOK
    <2> QED BY <1>3, <2>1, <2>2 DEF Fair
  <1> QED BY <1>1, <1>2, <1>3, <1>4, <1>6, OnOneEvent

(* A job taken from a worker that runs it: the worker is a stray now.       *)
LEMMA StallSettles ==
    ASSUME TypeOK, TypeOK', NEW e \in Events, JobStalls(e), job[e].owner \in Workers
    PROVE  Settles(job[e].owner)
  <1>1. PICK w \in Workers : w = job[e].owner /\ EventOf(w) = e
    BY DEF JobStalls, Running
  <1>2. UNCHANGED <<worker, inbox, applied>> /\ job'[e].state # "active"
    BY DEF JobStalls, BackToQueue, TypeOK, JobIn
  <1>3. \A f \in Events : f # e => job'[f] = job[f]
    BY DEF JobStalls, BackToQueue, TypeOK
  <1>4. Allowed' = Allowed + 1 /\ Allowed \in Nat /\ Allowed <= Allowed'
    BY FaultCounts, AllowedType DEF JobStalls
  <1>5. \A v \in Workers : v # w => ~ Runs(v, e)' /\ ~ Runs(v, e)
    BY <1>1, <1>2 DEF Runs
  <1>6. EventOf(w)' = e /\ At(w)' = At(w) /\ Stage(w)' = Stage(w) /\ At(w) \in Nat
    BY <1>1, <1>2 DEF EventOf, At, Stage, TypeOK, Run
  <1>7. ASSUME NEW c \in Categories PROVE Fair(w, e, c)
    <2>1. /\ Waiting(w, e, c)' <=> Waiting(w, e, c)
          /\ Claims(w, e, c)' <=> Claims(w, e, c)
          /\ ~ Runs(w, e)'
      BY <1>1, <1>2, <1>6 DEF Waiting, Claims, Runs
    <2>2. Spent(w, e, c) => ~ Waiting(w, e, c)
      BY <1>6, AheadFacts DEF Spent, Waiting
    <2>3. /\ Hold(w, e, c)' = Hold(w, e, c) /\ Hold(w, e, c) \in {0, 1}
          /\ Share(w, e, c) \in {-1, 0, 1} /\ Share(w, e, c)' \in {0, 1}
          /\ Share(w, e, c)' <= Share(w, e, c) + 1
      BY <2>1, <2>2 DEF Hold, Share
    <2>4. applied'[e][c] = applied[e][c] /\ inbox'[e] = inbox[e] /\ applied[e][c] \in Nat
      BY <1>2 DEF TypeOK
    <2> QED BY <1>4, <2>3, <2>4 DEF Fair
  <1>8. /\ EventOf(w) \in {e, NoEvent} /\ EventOf(w)' \in {e, NoEvent}
        /\ \A v \in Workers : v # w => worker'[v] = worker[v]
        /\ \A f \in Events : f # e => /\ job'[f] = job[f] /\ inbox'[f] = inbox[f]
                                      /\ applied'[f] = applied[f]
        /\ \A v \in Workers : v # w => (Runs(v, e)' <=> Runs(v, e))
    BY <1>1, <1>2, <1>3, <1>5, <1>6
  <1>9. Settles(w)
    BY <1>4, <1>7, <1>8, OnOneEvent
  <1> QED BY <1>1, <1>9

LEMMA CountInvStep == TypeOK /\ CountInv /\ [Next]_vars => CountInv'
  <1> SUFFICES ASSUME TypeOK, CountInv, [Next]_vars PROVE CountInv'
    OBVIOUS
  <1>1. TypeOK'
    BY StepType
  <1>2. ASSUME NEW w \in Workers, Settles(w) PROVE CountInv'
    BY <1>1, <1>2, CountWhenSettled
  <1>3. ASSUME UNCHANGED <<worker, inbox, applied>>, Allowed <= Allowed',
               \A e \in Events, v \in Workers : Runs(v, e)' <=> Runs(v, e)
        PROVE  CountInv'
    BY <1>1, <1>3, CountUnmoved
  <1>4. Allowed \in Nat
    BY AllowedType
  <1>5. ASSUME UNCHANGED <<worker, inbox, applied, job>>, Allowed <= Allowed' PROVE CountInv'
    BY <1>3, <1>5 DEF Runs, EventOf
  <1>6. ASSUME NEW k \in FaultKinds, Fault(k) PROVE Allowed <= Allowed'
    <2>1. /\ {"worker", "consumer", "stall"} \subseteq FaultKinds
          /\ \A m \in FaultKinds : faults'[m] >= faults[m] /\ faults[m] \in Nat /\ faults'[m] \in Nat
      BY <1>1, <1>6 DEF Fault, TypeOK, FaultKinds
    <2> QED BY <2>1 DEF Allowed
  <1>7. UNCHANGED faults => Allowed <= Allowed'
    BY <1>4 DEF Allowed
  <1>8. ASSUME NEW e \in Events, job' = WithJob(e), UNCHANGED <<worker, inbox, applied>>,
               Allowed <= Allowed'
        PROVE  CountInv'
    <2>1. \A f \in Events : job'[f] = job[f] \/ (job[f].state = "none" /\ job'[f].state = "queued")
      BY <1>8 DEF WithJob, TypeOK, JobIn
    <2>2. \A f \in Events, v \in Workers : Runs(v, f)' <=> Runs(v, f)
      BY <1>8, <2>1 DEF Runs, EventOf
    <2> QED BY <1>3, <1>8, <2>2
  <1>9. ASSUME NEW e \in Events, BackToQueue(e), UNCHANGED <<worker, inbox, applied>>,
               \A v \in Workers : ~ Runs(v, e), Allowed <= Allowed'
        PROVE  CountInv'
    <2>1. /\ job'[e].state # "active"
          /\ \A f \in Events : f # e => job'[f] = job[f]
      BY <1>9 DEF BackToQueue, TypeOK, JobIn
    <2>2. \A f \in Events, v \in Workers : Runs(v, f)' <=> Runs(v, f)
      BY <1>9, <2>1 DEF Runs, EventOf
    <2> QED BY <1>3, <1>9, <2>2
  <1>10. ASSUME NEW r \in Relays, RelayStep(r) PROVE CountInv'
    <2>1. UNCHANGED <<worker, inbox, applied, faults>>
      BY <1>10 DEF RelayStep, Claim, SkipKilled, Enqueue, SaveDispatched, SaveRefused
    <2>2. UNCHANGED job \/ \E e \in Events : job' = WithJob(e)
      BY <1>10 DEF RelayStep, Claim, SkipKilled, Enqueue, SaveDispatched, SaveRefused
    <2> QED BY <1>5, <1>7, <1>8, <2>1, <2>2
  <1>11. ASSUME NEW w \in Workers, WorkerStep(w) PROVE CountInv'
    <2>1. ASSUME Record(w) PROVE Settles(w)
      <3>1. CASE ConsumerAt(w) \in inbox[EventOf(w)]
        <4>1. /\ AtConsumer(w, "applied") /\ AttemptFailed(w)
              /\ UNCHANGED <<inbox, applied>> /\ Allowed' = Allowed
          BY <2>1, <3>1 DEF Record, Allowed
        <4> QED BY <1>1, <3>1, <4>1, AttemptSettles
      <3> QED BY <1>1, <2>1, <3>1, RecordSettles
    <2>2. Settles(w)
      BY <1>1, <1>11, <2>1, TakeSettles, PassOverSettles, TryClaimSettles, ApplySettles,
         FinishSettles DEF WorkerStep
    <2> QED BY <1>2, <2>2
  <1>12. ASSUME NEW w \in Workers, ConsumerThrows(w) PROVE CountInv'
    <2>1. /\ AttemptFailed(w) /\ UNCHANGED <<inbox, applied>> /\ Fault("consumer")
          /\ AtConsumer(w, "claimed") \/ AtConsumer(w, "applied")
      BY <1>12 DEF ConsumerThrows
    <2>2. Allowed' = Allowed + 1
      BY <2>1, FaultCounts
    <2> QED BY <1>1, <1>2, <2>1, <2>2, AttemptSettles
  <1>13. ASSUME NEW w \in Workers, WorkerCrash(w) PROVE CountInv'
    BY <1>1, <1>2, <1>13, CrashSettles
  <1>14. ASSUME NEW e \in Events, JobStalls(e) PROVE CountInv'
    <2>1. CASE job[e].owner \in Workers
      BY <1>1, <1>2, <1>14, <2>1, StallSettles
    <2>2. CASE job[e].owner \notin Workers
      <3>1. \A v \in Workers : ~ Runs(v, e)
        BY <2>2 DEF Runs
      <3>2. Allowed <= Allowed'
        BY <1>6, <1>14 DEF JobStalls, FaultKinds
      <3>3. BackToQueue(e) /\ UNCHANGED <<worker, inbox, applied>>
        BY <1>14 DEF JobStalls
      <3> QED BY <1>9, <3>1, <3>2, <3>3
    <2> QED BY <2>1, <2>2
  <1>15. ASSUME NEW e \in Events, JobRecovered(e) PROVE CountInv'
    <2>1. \A v \in Workers : ~ Runs(v, e)
      BY <1>15 DEF JobRecovered, Running, Runs
    <2>2. BackToQueue(e) /\ UNCHANGED <<worker, inbox, applied, faults>>
      BY <1>15 DEF JobRecovered
    <2> QED BY <1>7, <1>9, <2>1, <2>2
  <1>16. ASSUME NEW r \in Relays, NEW e \in Events, EnqueueFails(r, e) PROVE CountInv'
    <2>1. /\ UNCHANGED <<worker, inbox, applied>>
          /\ job' = job \/ job' = WithJob(e)
          /\ Fault("add") /\ "add" \in FaultKinds
      BY <1>16 DEF EnqueueFails, FaultKinds
    <2>2. Allowed <= Allowed'
      BY <1>6, <2>1
    <2> QED BY <1>5, <1>8, <2>1, <2>2
  <1>17. ASSUME \/ \E r \in Relays : RelayCrash(r)
                \/ \E e \in Events : Replay(e)
                \/ \E c \in Switches : Flip(c)
         PROVE  CountInv'
    <2>1. /\ UNCHANGED <<worker, inbox, applied, job>>
          /\ \E k \in {"relay", "replay", "flip"} : Fault(k)
      BY <1>17 DEF RelayCrash, Replay, Flip
    <2>2. Allowed <= Allowed'
      BY <1>6, <2>1 DEF FaultKinds
    <2> QED BY <1>5, <2>1, <2>2
  <1>18. ASSUME FaultStep PROVE CountInv'
    BY <1>12, <1>13, <1>14, <1>16, <1>17, <1>18 DEF FaultStep
  <1>19. ASSUME NEW e \in Events, Commit(e) \/ LeaseOver(e) PROVE CountInv'
    BY <1>5, <1>7, <1>19 DEF Commit, LeaseOver
  <1>20. CASE UNCHANGED vars
    BY <1>5, <1>7, <1>20 DEF vars
  <1> QED BY <1>10, <1>11, <1>15, <1>18, <1>19, <1>20 DEF Next

(* However crashes, stalls, lost acknowledgements, expired leases and       *)
(* replays interleave, a side effect happens once, and once more for each   *)
(* fault of a worker or a consumer at most: faults of relays never repeat it. *)
THEOREM DuplicatesPaidFor == Spec => []DuplicatesNeedWorkerFaults
  <1>1. Init => CountInv
    <2> SUFFICES ASSUME Init PROVE CountInv
      OBVIOUS
    <2>1. ASSUME NEW e \in Events
          PROVE  IsFiniteSet(On(e)) /\ \A c \in Categories : Counted(e, c)
      <3>1. \A w \in Workers : EventOf(w) # e
        BY NamesAssumption DEF Init, EventOf, Idle, Place
      <3>2. /\ On(e) = {}
            /\ \A c : Strays(e, c) = {} /\ Claimed(e, c) = {} /\ Turn(e, c) \in {0, 1}
        BY <3>1 DEF On, Strays, Claimed, Waiting, Claims, Turn
      <3>3. Allowed = 1 /\ \A c \in Categories : applied[e][c] = 0
        BY DEF Init, Allowed, FaultKinds
      <3>4. IsFiniteSet({}) /\ Cardinality({}) = 0
        BY FS_EmptySet
      <3>5. \A c \in Categories : Counted(e, c)
        BY <3>2, <3>3, <3>4 DEF Counted
      <3> QED BY <3>2, <3>4, <3>5
    <2> QED BY <2>1 DEF CountInv
  <1>2. TypeOK /\ CountInv => DuplicatesNeedWorkerFaults
    <2> SUFFICES ASSUME TypeOK, CountInv, NEW e \in Events, NEW c \in Categories
                 PROVE  applied[e][c] <= Allowed
      BY DEF DuplicatesNeedWorkerFaults, Allowed
    <2>1. IsFiniteSet(On(e)) /\ Counted(e, c)
      BY DEF CountInv
    <2>2. /\ Cardinality(Strays(e, c)) \in Nat /\ Cardinality(Claimed(e, c)) \in Nat
          /\ Turn(e, c) \in {0, 1}
      BY <2>1, CountedSets
    <2>3. applied[e][c] \in Nat /\ Allowed \in Nat
      BY AllowedType DEF TypeOK
    <2> QED BY <2>1, <2>2, <2>3 DEF Counted
  <1> QED BY <1>1, <1>2, CountInvStep, DeliveryTypeCorrect, PTL DEF Spec
----------------------------------------------------------------------------
(* The durable path implements DurableDelivery: each step is one of its     *)
(* steps, or none of them.                                                  *)

(* An event the path works on has been committed. *)
Known(e) == row[e].status # "NONE"

Committed ==
    \A e \in Events :
        /\ job[e].state # "none" => Known(e)
        /\ \A r \in Relays : mine[r][e].stage # "none" => Known(e)
        /\ \A w \in Workers : EventOf(w) = e => Known(e)

(* Only Commit makes an event known, and none is forgotten. *)
KnownKept == \A e \in Events : Known(e)' <=> Known(e)

LEMMA OnlyCommits ==
    ASSUME TypeOK, Committed, [Next]_vars
    PROVE  KnownKept \/ \E e \in Events : Commit(e)
  <1>1. ASSUME UNCHANGED row PROVE KnownKept
    BY <1>1 DEF KnownKept, Known
  <1>2. ASSUME NEW e \in Events, LeaseOver(e) \/ Replay(e) PROVE KnownKept
    <2>1. CASE LeaseOver(e)
      BY <2>1 DEF LeaseOver, KnownKept, Known, TypeOK, Row
    <2>2. CASE Replay(e)
      BY <2>2 DEF Replay, KnownKept, Known, TypeOK, Row
    <2> QED BY <1>2, <2>1, <2>2
  <1>3. ASSUME NEW r \in Relays, Claim(r) PROVE KnownKept
    <2>1. PICK batch \in SUBSET Events :
             row' = [e \in Events |-> IF e \in batch THEN [row[e] EXCEPT !.leased = TRUE]
                                      ELSE row[e]]
      BY <1>3 DEF Claim
    <2>2. \A e \in Events : row'[e].status = row[e].status
      BY <2>1 DEF TypeOK, Row
    <2> QED BY <2>2 DEF KnownKept, Known
  <1>4. ASSUME NEW r \in Relays, NEW e \in Events, NEW status, NEW retries, NEW leased,
               mine[r][e].stage # "none", status # "NONE",
               SaveRow(r, e, status, retries, leased)
        PROVE  KnownKept
    <2>1. Known(e)
      BY <1>4 DEF Committed
    <2> QED BY <1>4, <2>1 DEF SaveRow, KnownKept, Known, TypeOK
  <1>5. ASSUME NEW r \in Relays, NEW e \in Events, SkipKilled(r, e) PROVE KnownKept
    <2>1. SaveRow(r, e, "FAILED", mine[r][e].retries, FALSE) /\ mine[r][e].stage # "none"
      BY <1>5 DEF SkipKilled, Relaying
    <2> QED BY <1>4, <2>1
  <1>6. ASSUME NEW r \in Relays, NEW e \in Events, SaveDispatched(r, e) PROVE KnownKept
    <2>1. SaveRow(r, e, "DISPATCHED", mine[r][e].retries, TRUE) /\ mine[r][e].stage # "none"
      BY <1>6 DEF SaveDispatched
    <2> QED BY <1>4, <2>1
  <1>7. ASSUME NEW r \in Relays, NEW e \in Events, SaveRefused(r, e) PROVE KnownKept
    <2>1. StatusAfterRefusal(mine[r][e].retries + 1) # "NONE"
      BY DEF StatusAfterRefusal
    <2>2. mine[r][e].stage # "none"
      BY <1>7 DEF SaveRefused
    <2>3. SaveRow(r, e, StatusAfterRefusal(mine[r][e].retries + 1), mine[r][e].retries + 1, TRUE)
      BY <1>7 DEF SaveRefused
    <2> QED BY <1>4, <2>1, <2>2, <2>3
  <1>8. ASSUME NEW r \in Relays, RelayStep(r) PROVE KnownKept
    BY <1>1, <1>3, <1>5, <1>6, <1>7, <1>8 DEF RelayStep, Enqueue
  <1>9. ASSUME NEW w \in Workers, WorkerStep(w) PROVE KnownKept
    BY <1>1, <1>9 DEF WorkerStep, Take, PassOver, Duplicate, TryClaim, Apply, Record, Finish
  <1>10. ASSUME FaultStep PROVE KnownKept
    BY <1>1, <1>2, <1>10
       DEF FaultStep, RelayCrash, EnqueueFails, ConsumerThrows, WorkerCrash, JobStalls, Flip
  <1> QED BY <1>1, <1>2, <1>8, <1>9, <1>10 DEF Next, vars, JobRecovered

LEMMA KnownStays ==
    ASSUME TypeOK, Committed, [Next]_vars, NEW e \in Events, Known(e)
    PROVE  Known(e)'
  <1>1. CASE \E f \in Events : Commit(f)
    BY <1>1 DEF Commit, Known, TypeOK, Row
  <1>2. CASE KnownKept
    BY <1>2 DEF KnownKept
  <1> QED BY <1>1, <1>2, OnlyCommits

(* Whoever comes to work on an event found it known. *)
LEMMA WorksOnKnown ==
    ASSUME TypeOK, Committed, [Next]_vars, NEW e \in Events
    PROVE  /\ job'[e].state # "none" => Known(e)
           /\ \A r \in Relays : mine'[r][e].stage # "none" => Known(e)
           /\ \A w \in Workers : worker'[w].event = e => Known(e)
  <1> DEFINE Jobs == job'[e].state # "none" => Known(e)
             Copies == \A r \in Relays : mine'[r][e].stage # "none" => Known(e)
             Places == \A w \in Workers : worker'[w].event = e => Known(e)
  <1>1. /\ UNCHANGED job => Jobs
        /\ UNCHANGED mine => Copies
        /\ UNCHANGED worker => Places
    BY DEF Committed, EventOf
  <1>2. ASSUME NEW f \in Events, Known(f), NEW new, job' = [job EXCEPT ![f] = new] PROVE Jobs
    BY <1>2 DEF Committed, TypeOK
  <1>3. ASSUME NEW w \in Workers, NEW f, NEW at, NEW stage, f \in Events => Known(f),
               worker' = [worker EXCEPT ![w] = Place(f, at, stage)]
        PROVE  Places
    BY <1>3 DEF Committed, TypeOK, EventOf, Place
  <1>4. ASSUME NEW r \in Relays, NEW f \in Events, Known(f), NEW new,
               mine' = [mine EXCEPT ![r][f] = new]
        PROVE  Copies
    BY <1>4 DEF Committed, TypeOK
  <1>5. ASSUME NEW r \in Relays, Claim(r) PROVE Copies
    <2>1. PICK batch \in SUBSET {f \in Events : Due(f)} :
             mine' = [mine EXCEPT ![r] = [f \in Events |->
                         IF f \in batch THEN CopyAt("claimed", row[f].retries) ELSE NoCopy]]
      BY <1>5 DEF Claim
    <2>2. e \in batch => Known(e)
      BY DEF Due, Known
    <2> QED BY <2>1, <2>2 DEF Committed, TypeOK, CopyAt, NoCopy
  <1>6. ASSUME NEW r \in Relays, RelayCrash(r) PROVE Copies
    BY <1>6 DEF RelayCrash, Committed, TypeOK, CopyAt, NoCopy
  <1>7. ASSUME NEW r \in Relays, NEW f \in Events,
               SkipKilled(r, f) \/ SaveDispatched(r, f) \/ SaveRefused(r, f)
        PROVE  Jobs /\ Copies /\ Places
    <2>1. mine' = [mine EXCEPT ![r][f] = NoCopy] /\ UNCHANGED <<job, worker>>
      BY <1>7 DEF SkipKilled, SaveDispatched, SaveRefused, SaveRow
    <2>2. Known(f)
      BY <1>7 DEF SkipKilled, SaveDispatched, SaveRefused, Relaying, Committed
    <2> HIDE DEF Jobs, Copies, Places
    <2> QED BY <1>1, <1>4, <2>1, <2>2
  <1>8. ASSUME NEW r \in Relays, NEW f \in Events, Enqueue(r, f) \/ EnqueueFails(r, f)
        PROVE  Jobs /\ Copies /\ Places
    <2>1. Known(f)
      BY <1>8 DEF Enqueue, EnqueueFails, Relaying, Committed
    <2>2. UNCHANGED job \/ job' = [job EXCEPT ![f] = JobIn("queued", 0, FALSE, NoWorker)]
      BY <1>8 DEF Enqueue, EnqueueFails, WithJob
    <2>3. PICK stage \in {"added", "refused"} :
             mine' = [mine EXCEPT ![r][f] = CopyAt(stage, @.retries)]
      BY <1>8 DEF Enqueue, EnqueueFails
    <2>4. UNCHANGED worker
      BY <1>8 DEF Enqueue, EnqueueFails
    <2> HIDE DEF Jobs, Copies, Places
    <2> QED BY <1>1, <1>2, <1>4, <2>1, <2>2, <2>3, <2>4
  <1>9. ASSUME NEW f \in Events, JobRecovered(f) \/ JobStalls(f) PROVE Jobs /\ Copies /\ Places
    <2>1. Known(f) /\ UNCHANGED <<mine, worker>>
      BY <1>9 DEF JobRecovered, JobStalls, Running, Committed
    <2>2. \E new : job' = [job EXCEPT ![f] = new]
      BY <1>9 DEF JobRecovered, JobStalls, BackToQueue
    <2> HIDE DEF Jobs, Copies, Places
    <2> QED BY <1>1, <1>2, <2>1, <2>2
  <1>10. ASSUME NEW w \in Workers, NEW f \in Events, Take(w, f) PROVE Jobs /\ Copies /\ Places
    <2>1. Known(f) /\ UNCHANGED mine
      BY <1>10 DEF Take, Committed
    <2>2. /\ worker' = [worker EXCEPT ![w] = Place(f, 1, "next")]
          /\ \E new : job' = [job EXCEPT ![f] = new]
      BY <1>10 DEF Take
    <2> HIDE DEF Jobs, Copies, Places
    <2> QED BY <1>1, <1>2, <1>3, <2>1, <2>2
  <1>11. ASSUME NEW w \in Workers, PassOver(w) \/ Duplicate(w) \/ TryClaim(w) \/ Apply(w)
         PROVE  Jobs /\ Copies /\ Places
    <2>1. EventOf(w) \in Events => Known(EventOf(w))
      BY DEF Committed
    <2>2. UNCHANGED <<job, mine>>
      BY <1>11 DEF PassOver, Duplicate, TryClaim, Apply
    <2>3. PICK at, stage : worker' = [worker EXCEPT ![w] = Place(EventOf(w), at, stage)]
      BY <1>11 DEF PassOver, Duplicate, TryClaim, Apply, MoveOn
    <2> HIDE DEF Jobs, Copies, Places
    <2> QED BY <1>1, <1>3, <2>1, <2>2, <2>3
  <1>12. ASSUME NEW w \in Workers, AttemptFailed(w) \/ Finish(w) \/ WorkerCrash(w) \/ Record(w)
         PROVE  Jobs /\ Places
    <2>1. EventOf(w) \in Events => Known(EventOf(w))
      BY DEF Committed
    <2>2. \/ UNCHANGED job
          \/ \E new : job' = [job EXCEPT ![EventOf(w)] = new]
      BY <1>12 DEF AttemptFailed, Finish, WorkerCrash, Record
    <2>3. Jobs
      BY <2>1, <2>2 DEF Committed, TypeOK
    <2>4. PICK f, at, stage : /\ worker' = [worker EXCEPT ![w] = Place(f, at, stage)]
                              /\ f \in {NoEvent, EventOf(w)}
      BY <1>12 DEF AttemptFailed, Finish, WorkerCrash, Record, MoveOn, Idle
    <2>5. f \in Events => Known(f)
      BY <2>1, <2>4, NamesAssumption
    <2> HIDE DEF Jobs, Places
    <2> QED BY <1>3, <2>3, <2>4, <2>5
  <1> HIDE DEF Jobs, Copies, Places
  <1>13. ASSUME NEW r \in Relays, RelayStep(r) PROVE Jobs /\ Copies /\ Places
    BY <1>1, <1>5, <1>7, <1>8, <1>13 DEF RelayStep, Claim
  <1>14. ASSUME NEW w \in Workers, WorkerStep(w) PROVE Jobs /\ Copies /\ Places
    BY <1>1, <1>10, <1>11, <1>12, <1>14 DEF WorkerStep, Record, Finish
  <1>15. ASSUME FaultStep PROVE Jobs /\ Copies /\ Places
    BY <1>1, <1>6, <1>8, <1>9, <1>12, <1>15
       DEF FaultStep, RelayCrash, ConsumerThrows, WorkerCrash, Replay, Flip
  <1>16. ASSUME NEW f \in Events, Commit(f) \/ LeaseOver(f) \/ JobRecovered(f)
         PROVE  Jobs /\ Copies /\ Places
    BY <1>1, <1>9, <1>16 DEF Commit, LeaseOver
  <1>17. Jobs /\ Copies /\ Places
    BY <1>1, <1>13, <1>14, <1>15, <1>16 DEF Next, vars
  <1> QED BY <1>17 DEF Jobs, Copies, Places

LEMMA CommittedStep == TypeOK /\ Committed /\ [Next]_vars => Committed'
  BY WorksOnKnown, KnownStays DEF Committed, EventOf, Known

----------------------------------------------------------------------------
(* Each step of the durable path is a step of DurableDelivery, or none that *)
(* it can see.                                                              *)
LEMMA InitRefines == Init => Delivery!Init
  BY DEF Init, Delivery!Init

LEMMA StepRefines ==
    ASSUME TypeOK, TypeOK', ServedInv, Committed, [Next]_vars
    PROVE  [Delivery!Next]_(Delivery!vars)
  <1> DEFINE Goal == [Delivery!Next]_(Delivery!vars)
  <1>1. ASSUME KnownKept, UNCHANGED <<applied, inbox, waived, finished>> PROVE Goal
    <2>1. UNCHANGED Delivery!vars
      BY <1>1 DEF Delivery!vars, KnownKept, Known
    <2> QED BY <2>1
  <1>2. ASSUME NEW e \in Events, Commit(e) PROVE Goal
    <2>1. /\ {f \in Events : row'[f].status # "NONE"} = {f \in Events : row[f].status # "NONE"} \cup {e}
          /\ row[e].status = "NONE"
      BY <1>2 DEF Commit, TypeOK, Row
    <2>2. Delivery!Accept(e)
      BY <1>2, <2>1 DEF Commit, Delivery!Accept
    <2> QED BY <2>2 DEF Delivery!Next
  <1>3. ASSUME NEW w \in Workers, PassOver(w) PROVE Goal
    <2>1. /\ EventOf(w) \in Events /\ ConsumerAt(w) \in CategoriesOf(EventOf(w))
          /\ Known(EventOf(w))
      BY <1>3, ConsumerType, TypeParts DEF PassOver, Committed
    <2>2. Delivery!Waive(EventOf(w), ConsumerAt(w))
      BY <1>3, <2>1 DEF PassOver, Known, Delivery!Waive
    <2> QED BY <2>1, <2>2 DEF Delivery!Next
  <1>4. ASSUME NEW w \in Workers, Apply(w) PROVE Goal
    <2>1. PICK e \in Events, c \in Categories :
             e = EventOf(w) /\ c = ConsumerAt(w) /\ c \in CategoriesOf(e) /\ Known(e)
      BY <1>4, ConsumerType, TypeParts DEF Apply, Committed
    <2> DEFINE times == IF c \in Idempotent THEN 1 ELSE applied[e][c] + 1
    <2>2. applied' = [applied EXCEPT ![e][c] = times]
      BY <1>4, <2>1, Zenon DEF Apply
    <2>3. times > 0
      BY <2>1 DEF TypeOK
    <2>4. UNCHANGED <<row, inbox, waived, finished>>
      BY <1>4 DEF Apply
    <2>5. [f \in Events |-> {d \in Categories : applied'[f][d] > 0}] =
             [[f \in Events |-> {d \in Categories : applied[f][d] > 0}] EXCEPT ![e] = @ \cup {c}]
      <3> HIDE DEF times
      <3>1. ASSUME NEW f \in Events
            PROVE  {d \in Categories : applied'[f][d] > 0} =
                      {d \in Categories : applied[f][d] > 0} \cup (IF f = e THEN {c} ELSE {})
        BY <2>1, <2>2, <2>3 DEF TypeOK
      <3> QED BY <2>1, <3>1
    <2>6. Delivery!Reach(e, c)
      BY <2>1, <2>4, <2>5 DEF Known, Delivery!Reach
    <2>7. c \in [f \in Events |-> CategoriesOf(f)][e]
      BY <2>1
    <2>8. Delivery!Next
      BY <2>6, <2>7, ZenonT(30) DEF Delivery!Next
    <2> QED BY <2>8
  <1>5. ASSUME NEW w \in Workers, Record(w) PROVE Goal
    <2> DEFINE e == EventOf(w)
               c == ConsumerAt(w)
    <2>1. /\ e \in Events /\ c \in CategoriesOf(e) /\ c \in Categories
          /\ Busy(w) /\ worker[w].stage = "applied"
      BY <1>5, ConsumerType, TypeParts DEF Record, AtConsumer
    <2>2. UNCHANGED <<row, applied, waived, finished>>
      BY <1>5 DEF Record
    <2>3. CASE c \in inbox[e]
      BY <1>1, <1>5, <2>2, <2>3 DEF Record, KnownKept, Known
    <2>4. CASE c \notin inbox[e]
      <3>1. inbox' = [inbox EXCEPT ![e] = @ \cup {c}]
        BY <1>5, <2>4 DEF Record
      <3>2. applied[e][c] > 0
        BY <2>1 DEF ServedInv, Progress, TypeOK
      <3>3. Delivery!Receipt(e, c)
        BY <2>1, <2>2, <3>1, <3>2 DEF Delivery!Receipt
      <3> QED BY <2>1, <3>3 DEF Delivery!Next
    <2> QED BY <2>3, <2>4
  <1>6. ASSUME NEW w \in Workers, Finish(w) PROVE Goal
    <2> DEFINE e == EventOf(w)
    <2>1. e \in Events /\ Known(e)
      BY <1>6 DEF Finish, Busy, EventOf, TypeOK, Run, Committed
    <2>2. UNCHANGED <<row, applied, inbox, waived>>
      BY <1>6 DEF Finish
    <2>3. CASE UNCHANGED finished
      BY <1>1, <2>2, <2>3 DEF KnownKept, Known
    <2>4. CASE finished' = finished \cup {e}
      <3>1. CategoriesOf(e) \subseteq inbox[e] \cup waived[e]
        <4>1. ServedInv'
          BY ServedStep
        <4>2. ASSUME NEW c \in CategoriesOf(e) PROVE c \in inbox'[e] \cup waived'[e]
          BY <4>1, <4>2, <2>4 DEF ServedInv, FinishedServed, Served, CategoriesOf, Route
        <4> QED BY <2>2, <4>2
      <3>2. Delivery!Close(e)
        BY <2>1, <2>2, <2>4, <3>1 DEF Known, Delivery!Close
      <3> QED BY <2>1, <3>2 DEF Delivery!Next
    <2> QED BY <1>6, <2>3, <2>4 DEF Finish
  <1> HIDE DEF Goal
  <1>7. ASSUME KnownKept PROVE Goal
    <2>1. ASSUME NEW w \in Workers, WorkerStep(w) PROVE Goal
      BY <1>1, <1>3, <1>4, <1>5, <1>6, <1>7, <2>1 DEF WorkerStep, Take, Duplicate, TryClaim
    <2>2. ASSUME NEW r \in Relays, RelayStep(r) PROVE Goal
      BY <1>1, <1>7, <2>2 DEF RelayStep, Claim, SkipKilled, Enqueue, SaveDispatched, SaveRefused
    <2>3. ASSUME FaultStep PROVE Goal
      BY <1>1, <1>7, <2>3
         DEF FaultStep, RelayCrash, EnqueueFails, ConsumerThrows, WorkerCrash, JobStalls, Replay, Flip
    <2>4. ASSUME NEW e \in Events, LeaseOver(e) \/ JobRecovered(e) PROVE Goal
      BY <1>1, <1>7, <2>4 DEF LeaseOver, JobRecovered
    <2> QED BY <1>1, <1>2, <1>7, <2>1, <2>2, <2>3, <2>4 DEF Next, vars
  <1>8. Goal
    BY <1>2, <1>7, OnlyCommits
  <1> QED BY <1>8 DEF Goal

(* The relay, the queue, the processor and the inbox together keep every    *)
(* promise of the abstract delivery, through crashes, retries and replays.  *)
THEOREM DeliveryImplemented == Spec => DeliveryPromises
  <1>1. Init => ServedInv /\ Committed
    <2>1. Init => ServedInv
      BY DEF Init, ServedInv, Progress, Busy, EventOf, Idle, Place, ReceiptsAreReal, FinishedServed
    <2>2. Init => Committed
      BY NamesAssumption DEF Init, Committed, NoJob, JobIn, NoCopy, CopyAt, EventOf, Idle, Place
    <2> QED BY <2>1, <2>2
  <1>2. TypeOK /\ ServedInv /\ Committed /\ [Next]_vars => ServedInv' /\ Committed'
    BY ServedStep, CommittedStep
  <1>3. TypeOK /\ TypeOK' /\ ServedInv /\ Committed /\ [Next]_vars => [Delivery!Next]_(Delivery!vars)
    BY StepRefines
  <1> QED BY <1>1, <1>2, <1>3, InitRefines, DeliveryTypeCorrect, PTL
          DEF Spec, DeliveryPromises, Delivery!Spec
=============================================================================
