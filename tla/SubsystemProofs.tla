--------------------------- MODULE SubsystemProofs ---------------------------
(***************************************************************************)
(* Theorems about seven components of the back office that share no state, *)
(* each for every value of its constants: the two paths of an event to the *)
(* webhooks (WebhookDelivery), those to mails and notifications            *)
(* (MessageDelivery), the schedule of the staff (StaffSchedule), the audit *)
(* chain and trail (AuditChain), requests with a key (IdempotentRequests), *)
(* staff records (StaffRecords) and timers (TimeTracking).                 *)
(***************************************************************************)
EXTENDS WebhookDelivery, MessageDelivery, StaffSchedule, AuditChain, IdempotentRequests, StaffRecords,
        TimeTracking, FiniteSetTheorems, TLAPS
------------------------------------------------------------------------------
(* Webhooks: the copies an endpoint got and may still get are one and one  *)
(* more for every mishap; a path that emitted without a failure has made a *)
(* job for every endpoint that listens.                                    *)
HookPaths == {"durable", "direct"}
PathRows == [at : {"absent", "due", "emitting", "over", "dead"}, left : SUBSET Endpoints, failed : BOOLEAN,
             attempt : 1..EmitAttempts]
HookJobRows == [endpoint : Endpoints, path : HookPaths,
                at : {"waiting", "sending", "answered", "refused", "done", "dead"}, attempt : 1..DeliveryAttempts,
                row : {"none", "PENDING", "SUCCESS", "FAILED", "RETRYING"}, starts : Nat]

HookTyped ==
  /\ durableFlag \in BOOLEAN /\ hookInbox \in BOOLEAN
  /\ paths \in [HookPaths -> PathRows]
  /\ hookJobs \in Seq(HookJobRows)
  /\ IsFiniteSet(received)
  /\ hookPlot \in [endpoints : SUBSET Endpoints, queue : BOOLEAN, durable : BOOLEAN, flips : Nat, faults : Nat]
  /\ mishaps \in Nat

(* What a path may still emit to an endpoint, what the jobs may still send *)
(* there without another fault, and what it got: one copy, and one more    *)
(* for every fault and every flip.                                         *)
Owes(p, w) ==
  (IF paths[p].at = "due" /\ Chosen(p) THEN 1 ELSE 0)
    + (IF paths[p].at = "emitting" /\ w \in paths[p].left THEN 1 ELSE 0)
    + (IF paths[p].at = "emitting" /\ paths[p].failed THEN 1 ELSE 0)
ToSend == {"waiting", "sending", "refused"}
InHand(w) == {j \in DOMAIN hookJobs : hookJobs[j].endpoint = w /\ hookJobs[j].at \in ToSend}

CopiesCounted ==
  \A w \in Endpoints :
    Cardinality(Got(w)) + Cardinality(InHand(w)) + Owes("durable", w) + Owes("direct", w) <= 1 + mishaps

HasJob(w) == \E j \in DOMAIN hookJobs : hookJobs[j].endpoint = w

JobsWereSent ==
  \A j \in DOMAIN hookJobs : hookJobs[j].at \in {"answered", "done"} =>
    \E r \in received : r[1] = hookJobs[j].endpoint /\ r[2][1] = j

PathsCover ==
  /\ \A p \in HookPaths : paths[p].at = "emitting" /\ ~paths[p].failed =>
       \A w \in Listening : w \in paths[p].left \/ HasJob(w)
  /\ hookInbox => paths["durable"].at = "over" /\ \A w \in Listening : HasJob(w)

(* As long as nothing went wrong the path the switch chose covers them all. *)
QuietHook ==
  mishaps = 0 =>
    /\ \A j \in DOMAIN hookJobs : hookJobs[j].at \in {"waiting", "sending", "answered", "done"}
    /\ \A p \in HookPaths : /\ ~paths[p].failed
                            /\ Chosen(p) /\ paths[p].at = "over" => \A w \in Listening : HasJob(w)

HookInv == HookTyped /\ CopiesCounted /\ JobsWereSent /\ PathsCover /\ QuietHook

LEMMA HookCounts ==
  ASSUME HookTyped, NEW w
  PROVE  /\ DOMAIN hookJobs = 1..Len(hookJobs) /\ Len(hookJobs) \in Nat /\ IsFiniteSet(DOMAIN hookJobs)
         /\ IsFiniteSet(Got(w)) /\ Cardinality(Got(w)) \in Nat
         /\ IsFiniteSet(InHand(w)) /\ Cardinality(InHand(w)) \in Nat
         /\ \A p : Owes(p, w) \in Nat
<1>1. DOMAIN hookJobs = 1..Len(hookJobs) /\ Len(hookJobs) \in Nat
  BY DEF HookTyped
<1>2. IsFiniteSet(DOMAIN hookJobs)
  BY <1>1, FS_Interval
<1>3. IsFiniteSet(Got(w)) /\ IsFiniteSet(InHand(w))
  BY <1>2, FS_Subset DEF Got, InHand, HookTyped
<1>4. \A p : Owes(p, w) \in Nat
  BY DEF Owes
<1> QED BY <1>1, <1>2, <1>3, <1>4, FS_CardinalityType

LEMMA HookJobTyped ==
  ASSUME HookTyped, NEW j \in DOMAIN hookJobs
  PROVE  hookJobs[j] \in HookJobRows
BY DEF HookTyped

LEMMA HookInitially == HookInit => HookInv
<1> SUFFICES ASSUME HookInit PROVE HookInv
  OBVIOUS
<1>1. PICK plot \in HookPlots :
        /\ hookPlot = plot /\ durableFlag = plot.durable
        /\ paths = [durable |-> IF plot.queue THEN NotStarted ELSE [NotStarted EXCEPT !.at = "absent"],
                    direct  |-> NotStarted]
        /\ hookInbox = FALSE /\ hookJobs = <<>> /\ received = {} /\ mishaps = 0
  BY DEF HookInit
<1>2. /\ NotStarted \in PathRows /\ [NotStarted EXCEPT !.at = "absent"] \in PathRows
      /\ NotStarted.at = "due" /\ NotStarted.failed = FALSE
      /\ [NotStarted EXCEPT !.at = "absent"].at = "absent" /\ [NotStarted EXCEPT !.at = "absent"].failed = FALSE
  <2>1. 1 \in 1..EmitAttempts
    BY HookAssumption
  <2> QED BY <2>1 DEF NotStarted, PathRows
<1>3. /\ paths \in [HookPaths -> PathRows] /\ paths["direct"].at = "due" /\ paths["durable"].at \in {"due", "absent"}
      /\ \A p \in HookPaths : paths[p].failed = FALSE /\ paths[p].at \in {"due", "absent"}
  <2>1. paths = [p \in HookPaths |-> IF p = "durable" /\ ~plot.queue THEN [NotStarted EXCEPT !.at = "absent"] ELSE NotStarted]
    BY <1>1 DEF HookPaths
  <2> QED BY <1>2, <2>1 DEF HookPaths
<1>4. HookTyped
  <2>1. IsFiniteSet(received) /\ hookJobs \in Seq(HookJobRows)
    BY <1>1, FS_EmptySet
  <2>2. /\ plot \in [endpoints : SUBSET Endpoints, queue : BOOLEAN, durable : BOOLEAN, flips : Nat, faults : Nat]
        /\ plot.durable \in BOOLEAN
    BY HookAssumption
  <2> QED BY <1>1, <1>3, <2>1, <2>2 DEF HookTyped
<1>5. DOMAIN hookJobs = {}
  BY <1>1
<1>6. CopiesCounted
  <2> SUFFICES ASSUME NEW w \in Endpoints
               PROVE  Cardinality(Got(w)) + Cardinality(InHand(w)) + Owes("durable", w) + Owes("direct", w) <= 1 + mishaps
    BY DEF CopiesCounted
  <2>1. Got(w) = {} /\ InHand(w) = {}
    BY <1>1, <1>5 DEF Got, InHand
  <2>2. Owes("direct", w) = (IF Chosen("direct") THEN 1 ELSE 0) /\ Owes("durable", w) <= (IF Chosen("durable") THEN 1 ELSE 0)
    BY <1>3 DEF Owes, HookPaths
  <2>3. ~(Chosen("direct") /\ Chosen("durable"))
    BY DEF Chosen
  <2>4. Owes("durable", w) \in Nat
    BY DEF Owes
  <2> QED BY <1>1, <2>1, <2>2, <2>3, <2>4, FS_EmptySet
<1>7. JobsWereSent /\ PathsCover /\ QuietHook
  BY <1>1, <1>3, <1>5 DEF JobsWereSent, PathsCover, QuietHook
<1> QED BY <1>4, <1>6, <1>7 DEF HookInv

Counts(b) == IF b THEN 1 ELSE 0

(* One job moves on, and its endpoint may get something.  The new state    *)
(* may promise no more than the old one did, unless something went wrong.  *)
LEMMA HookJobMoves ==
  ASSUME HookInv, NEW j \in DOMAIN hookJobs, NEW new \in HookJobRows, NEW id, NEW sent \in BOOLEAN,
         hookJobs' = [hookJobs EXCEPT ![j] = new],
         new.endpoint = hookJobs[j].endpoint,
         received' = IF sent THEN received \cup {<<hookJobs[j].endpoint, <<j, id>>>>} ELSE received,
         UNCHANGED <<durableFlag, paths, hookInbox>>,
         \/ UNCHANGED <<hookPlot, mishaps>>
         \/ Fails,
         Counts(new.at \in ToSend) + Counts(sent) + mishaps <= Counts(hookJobs[j].at \in ToSend) + mishaps',
         new.at \in {"answered", "done"} => sent \/ hookJobs[j].at \in {"answered", "done"},
         mishaps' = 0 => new.at \in {"waiting", "sending", "answered", "done"}
  PROVE  HookInv'
<1> USE DEF HookInv
<1>1. /\ hookJobs' \in Seq(HookJobRows) /\ DOMAIN hookJobs' = DOMAIN hookJobs
      /\ \A i \in DOMAIN hookJobs : hookJobs'[i] = IF i = j THEN new ELSE hookJobs[i]
  BY DEF HookTyped
<1>2. /\ hookPlot' \in [endpoints : SUBSET Endpoints, queue : BOOLEAN, durable : BOOLEAN, flips : Nat, faults : Nat]
      /\ Listening' = Listening /\ mishaps' \in Nat /\ mishaps <= mishaps'
  BY DEF Fails, HookTyped, Listening
<1>3. IsFiniteSet(received')
  BY FS_AddElement DEF HookTyped
<1>4. HookTyped'
  BY <1>1, <1>2, <1>3 DEF HookTyped
<1>5. CopiesCounted'
  <2> SUFFICES ASSUME NEW w \in Endpoints
               PROVE  (Cardinality(Got(w)) + Cardinality(InHand(w)) + Owes("durable", w) + Owes("direct", w) <= 1 + mishaps)'
    BY DEF CopiesCounted
  <2>1. Owes("durable", w)' = Owes("durable", w) /\ Owes("direct", w)' = Owes("direct", w)
    BY DEF Owes, Chosen
  <2>2. /\ IsFiniteSet(Got(w)) /\ Cardinality(Got(w)) \in Nat
        /\ IsFiniteSet(InHand(w)) /\ Cardinality(InHand(w)) \in Nat
        /\ Owes("durable", w) \in Nat /\ Owes("direct", w) \in Nat
    BY HookCounts
  <2>3. Cardinality(Got(w)) + Cardinality(InHand(w)) + Owes("durable", w) + Owes("direct", w) <= 1 + mishaps
    BY DEF CopiesCounted
  <2>4. CASE hookJobs[j].endpoint # w
    <3>1. InHand(w)' = InHand(w)
      BY <1>1, <2>4 DEF InHand
    <3>2. Got(w)' = Got(w)
      BY <2>4 DEF Got
    <3> QED BY <1>2, <2>1, <2>2, <2>3, <3>1, <3>2 DEF HookTyped
  <2>5. CASE hookJobs[j].endpoint = w
    <3>1. Cardinality(Got(w)') \in Nat /\ Cardinality(Got(w)') <= Cardinality(Got(w)) + Counts(sent)
      <4>1. CASE sent
        <5>1. Got(w)' = Got(w) \cup {<<w, <<j, id>>>>}
          BY <2>5, <4>1 DEF Got
        <5>2. /\ Cardinality(Got(w) \cup {<<w, <<j, id>>>>}) \in {Cardinality(Got(w)), Cardinality(Got(w)) + 1}
          BY <2>2, FS_AddElement
        <5> QED BY <2>2, <4>1, <5>1, <5>2 DEF Counts
      <4>2. CASE ~sent
        <5>1. Got(w)' = Got(w)
          BY <4>2 DEF Got
        <5> QED BY <2>2, <4>2, <5>1 DEF Counts
      <4> QED BY <4>1, <4>2
    <3>2. /\ Cardinality(InHand(w)') \in Nat
          /\ Cardinality(InHand(w)') = Cardinality(InHand(w)) + Counts(new.at \in ToSend) - Counts(hookJobs[j].at \in ToSend)
      <4>1. j \in InHand(w) <=> hookJobs[j].at \in ToSend
        BY <2>5 DEF InHand
      <4>2. CASE new.at \in ToSend
        <5>1. InHand(w)' = InHand(w) \cup {j}
          BY <1>1, <2>5, <4>2 DEF InHand
        <5>2. Cardinality(InHand(w) \cup {j}) = IF j \in InHand(w) THEN Cardinality(InHand(w)) ELSE Cardinality(InHand(w)) + 1
          BY <2>2, FS_AddElement
        <5> QED BY <2>2, <4>1, <4>2, <5>1, <5>2 DEF Counts
      <4>3. CASE new.at \notin ToSend
        <5>1. InHand(w)' = InHand(w) \ {j}
          BY <1>1, <2>5, <4>3 DEF InHand
        <5>2. /\ Cardinality(InHand(w) \ {j}) = IF j \in InHand(w) THEN Cardinality(InHand(w)) - 1 ELSE Cardinality(InHand(w))
              /\ IsFiniteSet(InHand(w) \ {j})
          BY <2>2, FS_RemoveElement
        <5>3. Cardinality(InHand(w) \ {j}) \in Nat
          BY <5>2, FS_CardinalityType
        <5> QED BY <2>2, <4>1, <4>3, <5>1, <5>2, <5>3 DEF Counts
      <4> QED BY <4>2, <4>3
    <3>3. \A b : Counts(b) \in Nat
      BY DEF Counts
    <3>4. Counts(sent) \in Nat /\ Counts(new.at \in ToSend) \in Nat /\ Counts(hookJobs[j].at \in ToSend) \in Nat /\ mishaps \in Nat
      BY <3>3 DEF HookTyped
    <3> QED BY <1>2, <2>1, <2>2, <2>3, <3>1, <3>2, <3>4
  <2> QED BY <2>4, <2>5
<1>6. \A w : HasJob(w)' <=> HasJob(w)
  BY <1>1 DEF HasJob
<1>7. JobsWereSent'
  <2> SUFFICES ASSUME NEW i \in DOMAIN hookJobs, hookJobs'[i].at \in {"answered", "done"}
               PROVE  \E r \in received' : r[1] = hookJobs'[i].endpoint /\ r[2][1] = i
    BY <1>1 DEF JobsWereSent
  <2>1. CASE i = j /\ sent
    <3> DEFINE r == <<hookJobs[j].endpoint, <<j, id>>>>
    <3>1. r \in received' /\ r[1] = hookJobs'[i].endpoint /\ r[2][1] = i
      BY <1>1, <2>1
    <3> QED BY <3>1
  <2>2. CASE ~(i = j /\ sent)
    <3>1. hookJobs[i].at \in {"answered", "done"} /\ hookJobs'[i].endpoint = hookJobs[i].endpoint
      BY <1>1, <2>2
    <3> QED BY <3>1 DEF JobsWereSent
  <2> QED BY <2>1, <2>2
<1>8. PathsCover'
  BY <1>2, <1>6 DEF PathsCover
<1>9. QuietHook'
  <2> SUFFICES ASSUME mishaps' = 0 PROVE QuietHook'
    BY DEF QuietHook
  <2>1. mishaps = 0
    BY <1>2 DEF HookTyped
  <2> QED BY <1>1, <1>2, <1>6, <2>1 DEF QuietHook, Chosen
<1> QED BY <1>4, <1>5, <1>7, <1>8, <1>9

LEMMA FaultsCost ==
  ASSUME HookTyped, Fails
  PROVE  mishaps' = mishaps + 1 /\ mishaps' # 0
BY DEF Fails, HookTyped

LEMMA RetriedTyped ==
  ASSUME HookTyped, NEW j \in DOMAIN hookJobs, NEW row \in {"none", "PENDING", "SUCCESS", "FAILED", "RETRYING"}
  PROVE  /\ Retried(hookJobs[j], row) \in HookJobRows
         /\ Retried(hookJobs[j], row).at \in {"waiting", "dead"}
         /\ Retried(hookJobs[j], row).endpoint = hookJobs[j].endpoint
<1> DEFINE job == hookJobs[j]
<1>1. job \in HookJobRows
  BY HookJobTyped
<1>2. job.attempt \in 1..DeliveryAttempts /\ DeliveryAttempts \in Nat
  BY <1>1, HookAssumption DEF HookJobRows
<1>3. CASE job.attempt = DeliveryAttempts
  <2>1. Retried(job, row) = [job EXCEPT !.at = "dead", !.row = row]
    BY <1>3 DEF Retried
  <2> QED BY <1>1, <2>1 DEF HookJobRows
<1>4. CASE job.attempt # DeliveryAttempts
  <2>1. Retried(job, row) = [job EXCEPT !.at = "waiting", !.row = row, !.attempt = job.attempt + 1]
    BY <1>4 DEF Retried
  <2>2. job.attempt + 1 \in 1..DeliveryAttempts
    BY <1>2, <1>4
  <2> QED BY <1>1, <2>1, <2>2 DEF HookJobRows
<1> QED BY <1>3, <1>4

(* Every step of a job is such a move. *)
LEMMA StartDeliveryStep ==
  ASSUME HookInv, NEW j \in DOMAIN hookJobs, StartDelivery(j)
  PROVE  HookInv'
<1> DEFINE new == [hookJobs[j] EXCEPT !.at = "sending", !.row = "PENDING", !.starts = hookJobs[j].starts + 1]
<1>1. HookTyped
  BY DEF HookInv
<1>2. new \in HookJobRows /\ new.at = "sending" /\ new.endpoint = hookJobs[j].endpoint
  <2>1. hookJobs[j] \in HookJobRows
    BY <1>1, HookJobTyped
  <2>2. hookJobs[j].starts + 1 \in Nat
    BY <2>1 DEF HookJobRows
  <2> QED BY <2>1, <2>2 DEF HookJobRows
<1>3. /\ hookJobs[j].at = "waiting" /\ hookJobs' = [hookJobs EXCEPT ![j] = new]
      /\ UNCHANGED <<durableFlag, paths, hookInbox, received, hookPlot, mishaps>>
  BY DEF StartDelivery
<1>4. Counts(new.at \in ToSend) + Counts(FALSE) + mishaps <= Counts(hookJobs[j].at \in ToSend) + mishaps'
  BY <1>1, <1>2, <1>3 DEF Counts, ToSend, HookTyped
<1> HIDE DEF new
<1> QED BY <1>2, <1>3, <1>4, HookJobMoves

LEMMA SendingStep ==
  ASSUME HookInv, NEW j \in DOMAIN hookJobs, SendRequest(j) \/ RequestFails(j)
  PROVE  HookInv'
<1> DEFINE at == IF SendRequest(j) THEN "answered" ELSE "refused"
           new == [hookJobs[j] EXCEPT !.at = at, !.row = "PENDING"]
           id == IF hookPlot.queue THEN hookJobs[j].starts ELSE 1
<1>1. HookTyped
  BY DEF HookInv
<1>2. new \in HookJobRows /\ new.at = at /\ new.endpoint = hookJobs[j].endpoint
  BY <1>1, HookJobTyped DEF HookJobRows
<1>3. CASE SendRequest(j)
  <2>1. /\ hookJobs[j].at = "sending" /\ at = "answered" /\ hookJobs' = [hookJobs EXCEPT ![j] = new]
        /\ received' = received \cup {<<hookJobs[j].endpoint, <<j, id>>>>}
        /\ UNCHANGED <<durableFlag, paths, hookInbox, hookPlot, mishaps>>
    BY <1>3 DEF SendRequest, JobGoes, MessageId
  <2>2. Counts(new.at \in ToSend) + Counts(TRUE) + mishaps <= Counts(hookJobs[j].at \in ToSend) + mishaps'
    BY <1>1, <1>2, <2>1 DEF Counts, ToSend, HookTyped
  <2> HIDE DEF new, id, at
  <2> QED BY <1>2, <2>1, <2>2, HookJobMoves
<1>4. CASE ~SendRequest(j) /\ RequestFails(j)
  <2>1. /\ hookJobs[j].at = "sending" /\ at = "refused" /\ hookJobs' = [hookJobs EXCEPT ![j] = new]
        /\ Fails
        /\ UNCHANGED <<durableFlag, paths, hookInbox>>
    BY <1>4 DEF RequestFails, JobGoes
  <2>2. PICK sent \in BOOLEAN :
          received' = IF sent THEN received \cup {<<hookJobs[j].endpoint, <<j, id>>>>} ELSE received
    <3>1. received' \in {received, received \cup {<<hookJobs[j].endpoint, <<j, id>>>>}}
      BY <1>4 DEF RequestFails, MessageId
    <3>2. CASE received' = received
      BY <3>2
    <3>3. CASE received' = received \cup {<<hookJobs[j].endpoint, <<j, id>>>>}
      BY <3>3
    <3> QED BY <3>1, <3>2, <3>3
  <2>3. mishaps' = mishaps + 1 /\ mishaps' # 0
    BY <1>1, <2>1, FaultsCost
  <2>4. Counts(new.at \in ToSend) + Counts(sent) + mishaps <= Counts(hookJobs[j].at \in ToSend) + mishaps'
    BY <1>1, <1>2, <2>1, <2>3 DEF Counts, ToSend, HookTyped
  <2> HIDE DEF new, id, at
  <2> QED BY <1>2, <2>1, <2>2, <2>3, <2>4, HookJobMoves
<1> QED BY <1>3, <1>4

LEMMA RecordOutcomeStep ==
  ASSUME HookInv, NEW j \in DOMAIN hookJobs, RecordOutcome(j)
  PROVE  HookInv'
<1>1. HookTyped /\ hookJobs[j] \in HookJobRows
  BY HookJobTyped DEF HookInv
<1>2. hookJobs[j].at \in {"answered", "refused"} /\ UNCHANGED <<durableFlag, paths, hookInbox, received, hookPlot, mishaps>>
  BY DEF RecordOutcome
<1>3. FailedRow(hookJobs[j]) \in {"FAILED", "RETRYING"}
  BY DEF FailedRow
<1>4. CASE hookJobs[j].at = "answered"
  <2> DEFINE new == [hookJobs[j] EXCEPT !.at = "done", !.row = "SUCCESS"]
  <2>1. new \in HookJobRows /\ new.at = "done" /\ new.endpoint = hookJobs[j].endpoint
    BY <1>1 DEF HookJobRows
  <2>2. hookJobs' = [hookJobs EXCEPT ![j] = new]
    BY <1>4 DEF RecordOutcome, Outcome2xx, JobGoes
  <2>3. Counts(new.at \in ToSend) + Counts(FALSE) + mishaps <= Counts(hookJobs[j].at \in ToSend) + mishaps'
    BY <1>1, <1>2, <1>4, <2>1 DEF Counts, ToSend, HookTyped
  <2> HIDE DEF new
  <2> QED BY <1>2, <1>4, <2>1, <2>2, <2>3, HookJobMoves
<1>5. CASE hookJobs[j].at = "refused"
  <2> DEFINE new == Retried(hookJobs[j], FailedRow(hookJobs[j]))
  <2>1. new \in HookJobRows /\ new.at \in {"waiting", "dead"} /\ new.endpoint = hookJobs[j].endpoint
    BY <1>1, <1>3, RetriedTyped
  <2>2. hookJobs' = [hookJobs EXCEPT ![j] = new]
    BY <1>3, <1>5 DEF RecordOutcome, Outcome2xx
  <2>3. Counts(new.at \in ToSend) + Counts(FALSE) + mishaps <= Counts(hookJobs[j].at \in ToSend) + mishaps'
    BY <1>1, <1>2, <1>5, <2>1 DEF Counts, ToSend, HookTyped
  <2>4. mishaps # 0
    BY <1>5 DEF HookInv, QuietHook
  <2> HIDE DEF new
  <2> QED BY <1>2, <1>5, <2>1, <2>2, <2>3, <2>4, HookJobMoves
<1> QED BY <1>2, <1>4, <1>5

LEMMA DeliveryFaultStep ==
  ASSUME HookInv, NEW j \in DOMAIN hookJobs, BlockDelivery(j) \/ SaveOfSuccessFails(j) \/ CrashDelivery(j)
  PROVE  HookInv'
<1>1. HookTyped /\ hookJobs[j] \in HookJobRows
  BY HookJobTyped DEF HookInv
<1>2. Fails /\ UNCHANGED <<durableFlag, paths, hookInbox, received>>
  BY DEF BlockDelivery, SaveOfSuccessFails, CrashDelivery
<1>3. mishaps' = mishaps + 1 /\ mishaps' # 0
  BY <1>1, <1>2, FaultsCost
<1>4. PICK new \in HookJobRows : /\ hookJobs' = [hookJobs EXCEPT ![j] = new]
                                 /\ new.at \in {"waiting", "dead", "refused"} /\ new.endpoint = hookJobs[j].endpoint
  <2>1. CASE BlockDelivery(j)
    BY <1>1, <2>1, RetriedTyped DEF BlockDelivery
  <2>2. ASSUME NEW at \in {"waiting", "refused"}, NEW row \in {"none", "PENDING", "SUCCESS", "FAILED", "RETRYING"}, JobGoes(j, at, row)
        PROVE  \E new \in HookJobRows : /\ hookJobs' = [hookJobs EXCEPT ![j] = new]
                                        /\ new.at \in {"waiting", "dead", "refused"} /\ new.endpoint = hookJobs[j].endpoint
    <3> DEFINE new == [hookJobs[j] EXCEPT !.at = at, !.row = row]
    <3>1. new \in HookJobRows /\ new.at = at /\ new.endpoint = hookJobs[j].endpoint
      BY <1>1 DEF HookJobRows
    <3>2. hookJobs' = [hookJobs EXCEPT ![j] = new]
      BY <2>2 DEF JobGoes
    <3> QED BY <3>1, <3>2
  <2>3. hookJobs[j].row \in {"none", "PENDING", "SUCCESS", "FAILED", "RETRYING"}
    BY <1>1 DEF HookJobRows
  <2> QED BY <2>1, <2>2, <2>3 DEF SaveOfSuccessFails, CrashDelivery
<1>5. Counts(new.at \in ToSend) + Counts(FALSE) + mishaps <= Counts(hookJobs[j].at \in ToSend) + mishaps'
  BY <1>1, <1>3 DEF Counts, HookTyped
<1> QED BY <1>2, <1>3, <1>4, <1>5, HookJobMoves

(* A path moves on, or the switch is flipped, and the jobs stay. *)
LEMMA HookPathMoves ==
  ASSUME HookInv, HookTyped', UNCHANGED <<hookJobs, received>>, Listening' = Listening, mishaps <= mishaps',
         \A w \in Endpoints :
           Owes("durable", w)' + Owes("direct", w)' + mishaps <= Owes("durable", w) + Owes("direct", w) + mishaps',
         PathsCover',
         mishaps' = 0 => \A p \in HookPaths : /\ ~paths'[p].failed
                                              /\ Chosen(p)' /\ paths'[p].at = "over" => \A w \in Listening : HasJob(w)
  PROVE  HookInv'
<1> USE DEF HookInv
<1>1. CopiesCounted'
  <2> SUFFICES ASSUME NEW w \in Endpoints
               PROVE  (Cardinality(Got(w)) + Cardinality(InHand(w)) + Owes("durable", w) + Owes("direct", w) <= 1 + mishaps)'
    BY DEF CopiesCounted
  <2>1. Got(w)' = Got(w) /\ InHand(w)' = InHand(w)
    BY DEF Got, InHand
  <2>2. /\ Cardinality(Got(w)) \in Nat /\ Cardinality(InHand(w)) \in Nat
        /\ Owes("durable", w) \in Nat /\ Owes("direct", w) \in Nat
    BY HookCounts
  <2>3. Owes("durable", w)' \in Nat /\ Owes("direct", w)' \in Nat
    BY DEF Owes
  <2>4. mishaps \in Nat /\ mishaps' \in Nat
    BY DEF HookTyped
  <2>5. Cardinality(Got(w)) + Cardinality(InHand(w)) + Owes("durable", w) + Owes("direct", w) <= 1 + mishaps
    BY DEF CopiesCounted
  <2> QED BY <2>1, <2>2, <2>3, <2>4, <2>5
<1>2. JobsWereSent'
  BY DEF JobsWereSent
<1>3. QuietHook'
  BY DEF QuietHook, HasJob, HookTyped
<1> QED BY <1>1, <1>2, <1>3

LEMMA HookPathTyped ==
  ASSUME HookTyped, NEW p \in HookPaths
  PROVE  /\ paths[p] \in PathRows /\ paths[p].left \subseteq Endpoints /\ Listening \subseteq Endpoints
         /\ \A w : Owes(p, w) \in Nat
BY DEF HookTyped, PathRows, Listening, Owes

(* One path moves on and owes no endpoint more than it did, unless         *)
(* something went wrong.                                                   *)
LEMMA HookOnePath ==
  ASSUME HookInv, NEW p \in HookPaths, NEW new \in PathRows, paths' = [paths EXCEPT ![p] = new],
         UNCHANGED <<durableFlag, hookJobs, received>>, hookInbox' \in BOOLEAN,
         UNCHANGED <<hookPlot, mishaps>> \/ Fails,
         \A w \in Endpoints : Owes(p, w)' + mishaps <= Owes(p, w) + mishaps',
         new.at = "emitting" /\ ~new.failed => \A w \in Listening : w \in new.left \/ HasJob(w),
         hookInbox' => \/ hookInbox /\ (p = "durable" => new.at = "over")
                       \/ p = "durable" /\ new.at = "over" /\ \A w \in Listening : HasJob(w),
         mishaps' = 0 => ~new.failed /\ (Chosen(p) /\ new.at = "over" => \A w \in Listening : HasJob(w))
  PROVE  HookInv'
<1> USE DEF HookInv
<1>1. /\ hookPlot' \in [endpoints : SUBSET Endpoints, queue : BOOLEAN, durable : BOOLEAN, flips : Nat, faults : Nat]
      /\ Listening' = Listening /\ mishaps' \in Nat /\ mishaps <= mishaps' /\ mishaps \in Nat
  BY DEF Fails, HookTyped, Listening
<1>2. /\ paths' \in [HookPaths -> PathRows]
      /\ \A q \in HookPaths : paths'[q] = IF q = p THEN new ELSE paths[q]
  BY DEF HookTyped
<1>3. HookTyped'
  BY <1>1, <1>2 DEF HookTyped
<1>4. \A w : \A q \in HookPaths : q # p => Owes(q, w)' = Owes(q, w)
  BY <1>2 DEF Owes, Chosen
<1>5. \A w : \A q \in HookPaths : Owes(q, w) \in Nat /\ Owes(q, w)' \in Nat
  BY DEF Owes
<1>6. \A w \in Endpoints :
        Owes("durable", w)' + Owes("direct", w)' + mishaps <= Owes("durable", w) + Owes("direct", w) + mishaps'
  <2> SUFFICES ASSUME NEW w \in Endpoints
               PROVE  Owes("durable", w)' + Owes("direct", w)' + mishaps <= Owes("durable", w) + Owes("direct", w) + mishaps'
    OBVIOUS
  <2>1. "durable" \in HookPaths /\ "direct" \in HookPaths /\ (p = "durable" \/ p = "direct")
    BY DEF HookPaths
  <2>2. CASE p = "durable"
    <3>1. Owes("direct", w)' = Owes("direct", w) /\ Owes("durable", w)' + mishaps <= Owes("durable", w) + mishaps'
      BY <1>4, <2>1, <2>2
    <3> QED BY <1>1, <1>5, <2>1, <3>1
  <2>3. CASE p = "direct"
    <3>1. Owes("durable", w)' = Owes("durable", w) /\ Owes("direct", w)' + mishaps <= Owes("direct", w) + mishaps'
      BY <1>4, <2>1, <2>3
    <3> QED BY <1>1, <1>5, <2>1, <3>1
  <2> QED BY <2>1, <2>2, <2>3
<1>7. \A w : HasJob(w)' <=> HasJob(w)
  BY DEF HasJob
<1>8. PathsCover'
  <2>1. "durable" \in HookPaths
    BY DEF HookPaths
  <2> QED BY <1>1, <1>2, <1>7, <2>1 DEF PathsCover
<1>9. mishaps' = 0 => \A q \in HookPaths : /\ ~paths'[q].failed
                                           /\ Chosen(q)' /\ paths'[q].at = "over" => \A w \in Listening : HasJob(w)
  BY <1>1, <1>2 DEF QuietHook, Chosen
<1> QED BY <1>1, <1>3, <1>6, <1>8, <1>9, HookPathMoves

LEMMA TriedAgainTyped ==
  ASSUME HookTyped
  PROVE  /\ TriedAgain(paths["durable"]) \in PathRows
         /\ TriedAgain(paths["durable"]).at \in {"due", "dead"}
         /\ TriedAgain(paths["durable"]).at = "due" => ~TriedAgain(paths["durable"]).failed
<1> DEFINE path == paths["durable"]
<1>1. path \in PathRows /\ path.attempt \in 1..EmitAttempts /\ EmitAttempts \in Nat
  BY HookAssumption DEF HookTyped, PathRows, HookPaths
<1>2. CASE path.attempt = EmitAttempts
  <2>1. TriedAgain(path) = [path EXCEPT !.at = "dead"]
    BY <1>2 DEF TriedAgain
  <2> QED BY <1>1, <2>1 DEF PathRows
<1>3. CASE path.attempt # EmitAttempts
  <2>1. TriedAgain(path) = [at |-> "due", left |-> {}, failed |-> FALSE, attempt |-> path.attempt + 1]
    BY <1>3 DEF TriedAgain, NotStarted
  <2>2. path.attempt + 1 \in 1..EmitAttempts
    BY <1>1, <1>3
  <2> QED BY <2>1, <2>2 DEF PathRows
<1> QED BY <1>2, <1>3

LEMMA StartPathStep ==
  ASSUME HookInv, NEW p \in HookPaths, StartPath(p)
  PROVE  HookInv'
<1> DEFINE at == IF Chosen(p) /\ ~(p = "durable" /\ hookInbox) THEN "emitting" ELSE "over"
           new == [paths[p] EXCEPT !.at = at, !.left = Listening, !.failed = FALSE]
<1>1. HookTyped /\ paths[p] \in PathRows /\ Listening \subseteq Endpoints
  BY HookPathTyped DEF HookInv
<1>2. /\ paths[p].at = "due" /\ paths' = [paths EXCEPT ![p] = new]
      /\ UNCHANGED <<durableFlag, hookInbox, hookJobs, received, hookPlot, mishaps>>
  BY DEF StartPath
<1>3. new \in PathRows /\ new.at = at /\ new.left = Listening /\ new.failed = FALSE
  BY <1>1 DEF PathRows
<1>9. /\ new.at \in {"emitting", "over"} /\ (new.at = "emitting" => Chosen(p))
      /\ Chosen(p) /\ new.at = "over" => hookInbox
      /\ hookInbox /\ p = "durable" => new.at = "over"
  BY <1>3
<1> HIDE DEF new, at
<1>4. \A w \in Endpoints : Owes(p, w)' + mishaps <= Owes(p, w) + mishaps'
  <2>1. paths'[p] = new /\ mishaps \in Nat
    BY <1>1, <1>2 DEF HookTyped
  <2>3. ASSUME NEW w \in Endpoints PROVE Owes(p, w)' <= Owes(p, w) /\ Owes(p, w) \in Nat /\ Owes(p, w)' \in Nat
    <3>1. Owes(p, w)' = IF new.at = "emitting" /\ w \in Listening THEN 1 ELSE 0
      <4>1. new.at # "due" /\ ~new.failed
        BY <1>3, <1>9
      <4> QED BY <1>3, <2>1, <4>1 DEF Owes
    <3>2. Owes(p, w) = IF Chosen(p) THEN 1 ELSE 0
      BY <1>2 DEF Owes
    <3> QED BY <1>9, <3>1, <3>2
  <2> QED BY <1>2, <2>1, <2>3
<1>5. hookInbox => paths["durable"].at = "over" /\ \A w \in Listening : HasJob(w)
  BY DEF HookInv, PathsCover
<1>6. hookInbox' => hookInbox /\ (p = "durable" => new.at = "over")
  BY <1>2, <1>9
<1>8. hookInbox' \in BOOLEAN
  BY <1>1, <1>2 DEF HookTyped
<1> QED BY <1>1, <1>2, <1>3, <1>4, <1>5, <1>6, <1>8, <1>9, HookOnePath

LEMMA FinishPathStep ==
  ASSUME HookInv, NEW p \in HookPaths, FinishPath(p)
  PROVE  HookInv'
<1>1. HookTyped /\ paths[p] \in PathRows /\ mishaps \in Nat /\ hookInbox \in BOOLEAN
  BY HookPathTyped DEF HookInv, HookTyped
<1>2. paths[p].at = "emitting" /\ paths[p].left = {} /\ UNCHANGED <<durableFlag, hookJobs, received, hookPlot, mishaps>>
  BY DEF FinishPath
<1>3. hookInbox => p # "durable"
  BY <1>2 DEF HookInv, PathsCover
<1>4. CASE GivesUp(p)
  <2> DEFINE new == TriedAgain(paths[p])
  <2>1. p = "durable" /\ paths[p].failed
    BY <1>4 DEF GivesUp
  <2>2. new \in PathRows /\ new.at \in {"due", "dead"} /\ (new.at = "due" => ~new.failed)
    BY <1>1, <2>1, TriedAgainTyped
  <2>3. paths' = [paths EXCEPT ![p] = new] /\ hookInbox' = hookInbox
    BY <1>4 DEF FinishPath
  <2>4. mishaps # 0
    BY <2>1 DEF HookInv, QuietHook
  <2>5. \A w \in Endpoints : Owes(p, w)' + mishaps <= Owes(p, w) + mishaps'
    <3>1. paths'[p] = new
      BY <1>1, <2>3 DEF HookTyped
    <3>2. ASSUME NEW w \in Endpoints PROVE Owes(p, w)' <= 1 /\ Owes(p, w) >= 1 /\ Owes(p, w) \in Nat /\ Owes(p, w)' \in Nat
      BY <1>2, <2>1, <2>2, <3>1 DEF Owes
    <3> QED BY <1>1, <1>2, <3>2
  <2> HIDE DEF new
  <2> QED BY <1>1, <1>2, <1>3, <2>1, <2>2, <2>3, <2>4, <2>5, HookOnePath
<1>5. CASE ~GivesUp(p)
  <2> DEFINE new == [paths[p] EXCEPT !.at = "over"]
  <2>1. new \in PathRows /\ new.at = "over" /\ new.failed = paths[p].failed
    BY <1>1 DEF PathRows
  <2>2. paths' = [paths EXCEPT ![p] = new] /\ hookInbox' = (hookInbox \/ p = "durable")
    BY <1>5 DEF FinishPath, PathGoes
  <2>3. \A w \in Endpoints : Owes(p, w)' + mishaps <= Owes(p, w) + mishaps'
    <3>1. paths'[p] = new
      BY <1>1, <2>2 DEF HookTyped
    <3>2. ASSUME NEW w \in Endpoints PROVE Owes(p, w)' = 0 /\ Owes(p, w) \in Nat
      BY <2>1, <3>1 DEF Owes
    <3> QED BY <1>1, <1>2, <3>2
  <2>4. ~paths[p].failed => \A w \in Listening : HasJob(w)
    BY <1>2 DEF HookInv, PathsCover
  <2>5. p = "durable" => ~paths[p].failed
    BY <1>5 DEF GivesUp
  <2>6. mishaps = 0 => ~paths[p].failed
    BY DEF HookInv, QuietHook
  <2> HIDE DEF new
  <2> QED BY <1>1, <1>2, <1>3, <2>1, <2>2, <2>3, <2>4, <2>5, <2>6, HookOnePath
<1> QED BY <1>4, <1>5

LEMMA EmitFailsStep ==
  ASSUME HookInv, NEW p \in HookPaths, NEW u \in Listening, EmitFails(p, u)
  PROVE  HookInv'
<1> DEFINE new == [paths[p] EXCEPT !.left = paths[p].left \ {u}, !.failed = TRUE]
<1>1. HookTyped /\ paths[p] \in PathRows /\ mishaps \in Nat /\ hookInbox \in BOOLEAN
  BY HookPathTyped DEF HookInv, HookTyped
<1>2. /\ paths[p].at = "emitting" /\ paths' = [paths EXCEPT ![p] = new] /\ Fails
      /\ UNCHANGED <<durableFlag, hookInbox, hookJobs, received>>
  BY DEF EmitFails
<1>3. new \in PathRows /\ new.at = "emitting" /\ new.failed = TRUE /\ new.left \subseteq paths[p].left
  BY <1>1, <1>2 DEF PathRows
<1>4. mishaps' = mishaps + 1 /\ mishaps' # 0
  BY <1>1, <1>2, FaultsCost
<1>5. \A w \in Endpoints : Owes(p, w)' + mishaps <= Owes(p, w) + mishaps'
  <2>1. paths'[p] = new
    BY <1>1, <1>2 DEF HookTyped
  <2>2. ASSUME NEW w \in Endpoints PROVE Owes(p, w)' <= Owes(p, w) + 1 /\ Owes(p, w) \in Nat /\ Owes(p, w)' \in Nat
    BY <1>2, <1>3, <2>1 DEF Owes
  <2> QED BY <1>1, <1>4, <2>2
<1>6. hookInbox => p # "durable"
  BY <1>2 DEF HookInv, PathsCover
<1> HIDE DEF new
<1> QED BY <1>1, <1>2, <1>3, <1>4, <1>5, <1>6, HookOnePath

LEMMA FlipSwitchStep ==
  ASSUME HookInv, FlipSwitch
  PROVE  HookInv'
<1>1. HookTyped /\ mishaps \in Nat
  BY DEF HookInv, HookTyped
<1>2. /\ mishaps' = mishaps + 1 /\ mishaps' # 0 /\ durableFlag' = ~durableFlag
      /\ UNCHANGED <<paths, hookInbox, hookJobs, received>> /\ Listening' = Listening
      /\ hookPlot' \in [endpoints : SUBSET Endpoints, queue : BOOLEAN, durable : BOOLEAN, flips : Nat, faults : Nat]
  BY <1>1 DEF FlipSwitch, HookTyped, Listening
<1>3. HookTyped'
  BY <1>1, <1>2 DEF HookTyped
<1>4. ASSUME NEW w \in Endpoints
      PROVE  Owes("durable", w)' + Owes("direct", w)' + mishaps <= Owes("durable", w) + Owes("direct", w) + mishaps'
  <2>1. Chosen("durable") <=> durableFlag
    BY <1>1 DEF Chosen, HookTyped
  <2>2. Chosen("direct") <=> ~durableFlag
    BY <1>1 DEF Chosen, HookTyped
  <2>3. (Chosen("durable")' <=> ~durableFlag) /\ (Chosen("direct")' <=> durableFlag)
    BY <1>1, <1>2 DEF Chosen, HookTyped
  <2> QED BY <1>1, <1>2, <2>1, <2>2, <2>3 DEF Owes
<1>5. PathsCover'
  BY <1>2 DEF HookInv, PathsCover, HasJob
<1> QED BY <1>1, <1>2, <1>3, <1>4, <1>5, HookPathMoves

(* A job is put into the queue, or an inline delivery starts. *)
LEMMA EmitToStep ==
  ASSUME HookInv, NEW p \in HookPaths, NEW u \in Listening, EmitTo(p, u)
  PROVE  HookInv'
<1> DEFINE new == [paths[p] EXCEPT !.left = paths[p].left \ {u}]
           job == NewJob(p, u)
           n == Len(hookJobs) + 1
<1> USE DEF HookInv
<1>1. HookTyped /\ paths[p] \in PathRows /\ mishaps \in Nat /\ u \in Endpoints
  BY HookPathTyped DEF HookTyped
<1>2. /\ paths[p].at = "emitting" /\ u \in paths[p].left /\ paths' = [paths EXCEPT ![p] = new]
      /\ hookJobs' = Append(hookJobs, job)
      /\ UNCHANGED <<durableFlag, hookInbox, received, hookPlot, mishaps>>
  BY DEF EmitTo
<1>3. /\ new \in PathRows /\ new.at = "emitting" /\ new.failed = paths[p].failed
      /\ new.left = paths[p].left \ {u}
  BY <1>1, <1>2 DEF PathRows
<1>4. job \in HookJobRows /\ job.endpoint = u /\ job.at = "waiting"
  <2>1. 1 \in 1..DeliveryAttempts
    BY HookAssumption
  <2> QED BY <1>1, <2>1 DEF HookJobRows, NewJob
<1> HIDE DEF new, job
<1>5. /\ Len(hookJobs) \in Nat /\ DOMAIN hookJobs = 1..Len(hookJobs)
      /\ hookJobs' \in Seq(HookJobRows) /\ DOMAIN hookJobs' = DOMAIN hookJobs \cup {n} /\ n \notin DOMAIN hookJobs
      /\ hookJobs'[n] = job /\ \A i \in DOMAIN hookJobs : hookJobs'[i] = hookJobs[i]
  BY <1>1, <1>2, <1>4 DEF HookTyped
<1> HIDE DEF n
<1>6. /\ paths' \in [HookPaths -> PathRows]
      /\ \A q \in HookPaths : paths'[q] = IF q = p THEN new ELSE paths[q]
  BY <1>1, <1>2, <1>3 DEF HookTyped
<1>7. HookTyped' /\ Listening' = Listening
  BY <1>1, <1>2, <1>5, <1>6 DEF HookTyped, Listening
<1>8. CopiesCounted'
  <2> SUFFICES ASSUME NEW w \in Endpoints
               PROVE  (Cardinality(Got(w)) + Cardinality(InHand(w)) + Owes("durable", w) + Owes("direct", w) <= 1 + mishaps)'
    BY DEF CopiesCounted
  <2>1. Got(w)' = Got(w)
    BY <1>2 DEF Got
  <2>2. /\ Cardinality(Got(w)) \in Nat /\ Cardinality(InHand(w)) \in Nat /\ IsFiniteSet(InHand(w))
        /\ Owes("durable", w) \in Nat /\ Owes("direct", w) \in Nat
    BY <1>1, HookCounts
  <2>3. Cardinality(Got(w)) + Cardinality(InHand(w)) + Owes("durable", w) + Owes("direct", w) <= 1 + mishaps
    BY DEF CopiesCounted
  <2>4. /\ p \in {"durable", "direct"} /\ HookPaths = {"durable", "direct"}
        /\ Owes("durable", w)' \in Nat /\ Owes("direct", w)' \in Nat
        /\ \A q \in HookPaths : q # p => Owes(q, w)' = Owes(q, w)
    BY <1>2, <1>6 DEF Owes, Chosen, HookPaths
  <2>5. CASE u # w
    <3>1. InHand(w)' = InHand(w)
      BY <1>4, <1>5, <2>5 DEF InHand
    <3>2. Owes(p, w)' = Owes(p, w)
      BY <1>2, <1>3, <1>6, <2>5 DEF Owes, Chosen
    <3> QED BY <1>1, <1>2, <2>1, <2>2, <2>3, <2>4, <3>1, <3>2
  <2>6. CASE u = w
    <3>1. InHand(w)' = InHand(w) \cup {n} /\ n \notin InHand(w)
      BY <1>4, <1>5, <2>6 DEF InHand, ToSend
    <3>2. Cardinality(InHand(w) \cup {n}) = Cardinality(InHand(w)) + 1
      BY <2>2, <3>1, FS_AddElement
    <3>3. Owes(p, w)' + 1 = Owes(p, w)
      BY <1>2, <1>3, <1>6, <2>6 DEF Owes, Chosen
    <3> QED BY <1>1, <1>2, <2>1, <2>2, <2>3, <2>4, <3>1, <3>2, <3>3
  <2> QED BY <2>5, <2>6
<1>9. \A w : (HasJob(w) => HasJob(w)') /\ HasJob(u)'
  BY <1>4, <1>5 DEF HasJob
<1>10. JobsWereSent'
  BY <1>2, <1>4, <1>5 DEF JobsWereSent
<1>11. PathsCover'
  <2>1. hookInbox' => paths'["durable"].at = "over" /\ \A w \in Listening : HasJob(w)'
    BY <1>2, <1>6, <1>9 DEF PathsCover, HookPaths
  <2>2. ASSUME NEW q \in HookPaths, paths'[q].at = "emitting", ~paths'[q].failed, NEW w \in Listening
        PROVE  w \in paths'[q].left \/ HasJob(w)'
    <3>1. w \in paths[q].left \/ HasJob(w)
      BY <1>2, <1>3, <1>6, <2>2 DEF PathsCover
    <3> QED BY <1>3, <1>6, <1>9, <3>1
  <2> QED BY <1>7, <2>1, <2>2 DEF PathsCover
<1>12. QuietHook'
  <2> SUFFICES ASSUME mishaps = 0 PROVE QuietHook'
    BY <1>2 DEF QuietHook
  <2>1. \A j \in DOMAIN hookJobs' : hookJobs'[j].at \in {"waiting", "sending", "answered", "done"}
    BY <1>4, <1>5 DEF QuietHook
  <2>2. \A q \in HookPaths : Chosen(q)' <=> Chosen(q)
    BY <1>2 DEF Chosen
  <2>3. \A q \in HookPaths : /\ ~paths'[q].failed
                             /\ Chosen(q) /\ paths'[q].at = "over" => \A w \in Listening : HasJob(w)'
    BY <1>3, <1>6, <1>9 DEF QuietHook
  <2> QED BY <1>7, <2>1, <2>2, <2>3 DEF QuietHook
<1> QED BY <1>7, <1>8, <1>10, <1>11, <1>12

(* What an inline emitter was sending ends with it. *)
LEMMA CrashEmitterStep ==
  ASSUME HookInv, NEW p \in HookPaths, CrashEmitter(p)
  PROVE  HookInv'
<1> USE DEF HookInv
<1>1. HookTyped /\ paths[p] \in PathRows /\ mishaps \in Nat
  BY HookPathTyped DEF HookTyped
<1>2. mishaps' = mishaps + 1 /\ mishaps' # 0 /\ Listening' = Listening
  BY <1>1, FaultsCost DEF CrashEmitter, Fails, Listening, HookTyped
<1>3. /\ paths[p].at = "emitting" /\ UNCHANGED <<durableFlag, hookInbox, received>>
      /\ hookPlot' \in [endpoints : SUBSET Endpoints, queue : BOOLEAN, durable : BOOLEAN, flips : Nat, faults : Nat]
  BY <1>1 DEF CrashEmitter, Fails, HookTyped
<1>4. PICK new \in PathRows : paths' = [paths EXCEPT ![p] = new] /\ new.at \in {"due", "dead"}
  <2>1. CASE p = "durable"
    BY <1>1, <2>1, TriedAgainTyped DEF CrashEmitter
  <2>2. CASE p # "durable"
    <3> DEFINE new == [paths[p] EXCEPT !.at = "dead"]
    <3>1. new \in PathRows /\ new.at = "dead"
      BY <1>1 DEF PathRows
    <3>2. paths' = [paths EXCEPT ![p] = new]
      BY <2>2 DEF CrashEmitter, PathGoes
    <3> QED BY <3>1, <3>2
  <2> QED BY <2>1, <2>2
<1>5. /\ paths' \in [HookPaths -> PathRows]
      /\ \A q \in HookPaths : paths'[q] = IF q = p THEN new ELSE paths[q]
  BY <1>1, <1>4 DEF HookTyped
<1>6. /\ DOMAIN hookJobs = 1..Len(hookJobs) /\ Len(hookJobs) \in Nat
      /\ hookJobs' \in Seq(HookJobRows) /\ DOMAIN hookJobs' = DOMAIN hookJobs
      /\ \A i \in DOMAIN hookJobs : /\ hookJobs'[i].endpoint = hookJobs[i].endpoint
                                    /\ hookJobs'[i].at = hookJobs[i].at \/ hookJobs'[i].at = "dead"
  <2>1. DOMAIN hookJobs = 1..Len(hookJobs) /\ Len(hookJobs) \in Nat
    BY <1>1 DEF HookTyped
  <2>2. CASE hookJobs' = hookJobs
    BY <1>1, <2>1, <2>2 DEF HookTyped
  <2>3. CASE hookJobs' = [j \in DOMAIN hookJobs |-> [hookJobs[j] EXCEPT !.at = IF @ = "done" THEN @ ELSE "dead"]]
    <3>1. ASSUME NEW j \in DOMAIN hookJobs
          PROVE  /\ hookJobs'[j] \in HookJobRows /\ hookJobs'[j].endpoint = hookJobs[j].endpoint
                 /\ hookJobs'[j].at = hookJobs[j].at \/ hookJobs'[j].at = "dead"
      <4>1. hookJobs[j] \in HookJobRows
        BY <1>1, HookJobTyped
      <4>2. hookJobs'[j] = [hookJobs[j] EXCEPT !.at = IF hookJobs[j].at = "done" THEN hookJobs[j].at ELSE "dead"]
        BY <2>3
      <4> QED BY <4>1, <4>2 DEF HookJobRows
    <3>2. DOMAIN hookJobs' = 1..Len(hookJobs)
      BY <2>1, <2>3
    <3>3. hookJobs' \in [1..Len(hookJobs) -> HookJobRows]
      BY <2>1, <2>3, <3>1, <3>2
    <3> QED BY <2>1, <3>1, <3>2, <3>3
  <2> QED BY <2>2, <2>3 DEF CrashEmitter
<1>7. HookTyped'
  BY <1>1, <1>2, <1>3, <1>5, <1>6 DEF HookTyped
<1>8. CopiesCounted'
  <2> SUFFICES ASSUME NEW w \in Endpoints
               PROVE  (Cardinality(Got(w)) + Cardinality(InHand(w)) + Owes("durable", w) + Owes("direct", w) <= 1 + mishaps)'
    BY DEF CopiesCounted
  <2>1. Got(w)' = Got(w)
    BY <1>3 DEF Got
  <2>2. /\ Cardinality(Got(w)) \in Nat /\ Cardinality(InHand(w)) \in Nat /\ IsFiniteSet(InHand(w))
        /\ Owes("durable", w) \in Nat /\ Owes("direct", w) \in Nat
    BY <1>1, HookCounts
  <2>3. Cardinality(Got(w)) + Cardinality(InHand(w)) + Owes("durable", w) + Owes("direct", w) <= 1 + mishaps
    BY DEF CopiesCounted
  <2>4. /\ p \in {"durable", "direct"} /\ HookPaths = {"durable", "direct"}
        /\ Owes("durable", w)' \in Nat /\ Owes("direct", w)' \in Nat
        /\ \A q \in HookPaths : q # p => Owes(q, w)' = Owes(q, w)
    BY <1>3, <1>5 DEF Owes, Chosen, HookPaths
  <2>5. Owes(p, w)' <= 1
    BY <1>4, <1>5 DEF Owes
  <2>6. InHand(w)' \subseteq InHand(w)
    BY <1>6 DEF InHand, ToSend
  <2>7. IsFiniteSet(InHand(w)') /\ Cardinality(InHand(w)') <= Cardinality(InHand(w))
    BY <2>2, <2>6, FS_Subset
  <2>8. Cardinality(InHand(w)') \in Nat
    BY <2>7, FS_CardinalityType
  <2> QED BY <1>1, <1>2, <2>1, <2>2, <2>3, <2>4, <2>5, <2>7, <2>8
<1>9. \A w : HasJob(w)' <=> HasJob(w)
  BY <1>6 DEF HasJob
<1>10. JobsWereSent'
  BY <1>3, <1>6 DEF JobsWereSent
<1>11. PathsCover'
  <2>1. hookInbox => p # "durable"
    BY <1>3 DEF PathsCover
  <2> QED BY <1>2, <1>3, <1>4, <1>5, <1>9, <2>1 DEF PathsCover, HookPaths
<1>12. QuietHook'
  BY <1>2 DEF QuietHook
<1> QED BY <1>7, <1>8, <1>10, <1>11, <1>12

LEMMA HookStep == HookInv /\ [HookNext]_hookVars => HookInv'
<1> SUFFICES ASSUME HookInv, [HookNext]_hookVars PROVE HookInv'
  OBVIOUS
<1>1. CASE FlipSwitch
  BY <1>1, FlipSwitchStep
<1>2. ASSUME NEW p \in {"durable", "direct"},
             StartPath(p) \/ FinishPath(p) \/ CrashEmitter(p) \/ \E w \in Listening : EmitTo(p, w) \/ EmitFails(p, w)
      PROVE  HookInv'
  BY <1>2, StartPathStep, FinishPathStep, CrashEmitterStep, EmitToStep, EmitFailsStep DEF HookPaths
<1>3. ASSUME NEW j \in DOMAIN hookJobs,
             \/ StartDelivery(j) \/ BlockDelivery(j) \/ SendRequest(j) \/ RequestFails(j)
             \/ RecordOutcome(j) \/ SaveOfSuccessFails(j) \/ CrashDelivery(j)
      PROVE  HookInv'
  BY <1>3, StartDeliveryStep, DeliveryFaultStep, SendingStep, RecordOutcomeStep
<1>4. CASE UNCHANGED hookVars
  <2>1. HookTyped'
    BY <1>4 DEF HookInv, HookTyped, hookVars
  <2>2. CopiesCounted'
    BY <1>4 DEF HookInv, CopiesCounted, Got, InHand, Owes, Chosen, hookVars
  <2>3. JobsWereSent' /\ PathsCover' /\ QuietHook'
    BY <1>4 DEF HookInv, JobsWereSent, PathsCover, QuietHook, HasJob, Chosen, Listening, hookVars
  <2> QED BY <2>1, <2>2, <2>3 DEF HookInv
<1> QED BY <1>1, <1>2, <1>3, <1>4 DEF HookNext

LEMMA HookInvSuffices == HookInv => HookTypeOK /\ WebhooksDelivered
<1> SUFFICES ASSUME HookInv PROVE HookTypeOK /\ WebhooksDelivered
  OBVIOUS
<1> USE DEF HookInv
<1>1. HookTypeOK
  <2>1. \A p \in HookPaths : paths[p] \in PathRows
    BY DEF HookTyped
  <2>2. \A j \in DOMAIN hookJobs : hookJobs[j] \in HookJobRows
    BY HookJobTyped
  <2> QED BY <2>1, <2>2 DEF HookTypeOK, HookTyped, HookPaths, PathRows, HookJobRows
<1>2. \A j \in DOMAIN hookJobs : hookJobs[j].at = "done" => Got(hookJobs[j].endpoint) # {}
  BY DEF JobsWereSent, Got
<1>3. EveryEndpointReached
  <2>1. ASSUME hookInbox, Ended, NEW w \in Listening
        PROVE  Got(w) # {} \/ \E j \in DOMAIN hookJobs : hookJobs[j].endpoint = w /\ hookJobs[j].at = "dead"
    <3>1. PICK j \in DOMAIN hookJobs : hookJobs[j].endpoint = w
      BY <2>1 DEF PathsCover, HasJob
    <3> QED BY <1>2, <2>1, <3>1 DEF Ended
  <2>2. \A j \in DOMAIN hookJobs : hookJobs[j].at = "done" =>
          \E r \in received : r[1] = hookJobs[j].endpoint /\ r[2][1] = j
    BY DEF JobsWereSent
  <2> QED BY <2>1, <2>2 DEF EveryEndpointReached
<1>4. CopiesHaveReasons
  <2> SUFFICES ASSUME NEW w \in Listening PROVE Cardinality(Got(w)) <= 1 + mishaps
    BY DEF CopiesHaveReasons
  <2>1. w \in Endpoints
    BY DEF HookTyped, Listening
  <2>2. /\ Cardinality(Got(w)) \in Nat /\ Cardinality(InHand(w)) \in Nat
        /\ Owes("durable", w) \in Nat /\ Owes("direct", w) \in Nat /\ mishaps \in Nat
    BY HookCounts DEF HookTyped
  <2>3. Cardinality(Got(w)) + Cardinality(InHand(w)) + Owes("durable", w) + Owes("direct", w) <= 1 + mishaps
    BY <2>1 DEF CopiesCounted
  <2> QED BY <2>2, <2>3
<1>5. SomePathTakesIt
  <2> SUFFICES ASSUME PathsOver, Ended, mishaps = 0, NEW w \in Listening
               PROVE  Got(w) # {}
    BY DEF SomePathTakesIt
  <2>1. PICK p \in HookPaths : Chosen(p) /\ paths[p].at = "over"
    BY DEF PathsOver, Chosen, HookTyped, HookPaths
  <2>2. HasJob(w)
    BY <2>1 DEF QuietHook, HookPaths
  <2>3. PICK j \in DOMAIN hookJobs : hookJobs[j].endpoint = w
    BY <2>2 DEF HasJob
  <2>4. hookJobs[j].at = "done"
    BY DEF QuietHook, Ended
  <2> QED BY <1>2, <2>3, <2>4
<1> QED BY <1>1, <1>3, <1>4, <1>5 DEF WebhooksDelivered

(* Whatever the switch, the processes and the endpoints do, and in         *)
(* whatever number: an event the inbox has was sent to every endpoint, or  *)
(* its attempts are used up; every copy but the first has a fault or a     *)
(* flip behind it, and without either no event is lost between the paths.  *)
THEOREM WebhooksAlwaysDelivered == HookSpec => [](HookTypeOK /\ WebhooksDelivered)
<1>1. HookInit => HookInv
  BY HookInitially
<1>2. HookInv /\ [HookNext]_hookVars => HookInv'
  BY HookStep
<1>3. HookInv => HookTypeOK /\ WebhooksDelivered
  BY HookInvSuffices
<1> QED BY <1>1, <1>2, <1>3, PTL DEF HookSpec
------------------------------------------------------------------------------
(* Mails and notifications: what a person got and may still get by either  *)
(* path is bounded by what they are owed and by the setbacks.              *)
RouteRows == [at : {"absent", "due", "telling", "over", "dead"}, told : SUBSET People, attempt : 1..OutboxAttempts]
LetterRows == [to : People, says : {"letter", "again"}, at : {"waiting", "done", "dead"}, attempt : 1..MailAttempts]
BellRows == [to : People, row : {"unread", "read", "deleted"}]
MessagePlotRows == [event : [kind : {"mail", "queued", "bell", "none"}, to : 0..Cardinality(People)],
             posted : Seq({Job(p, "letter") : p \in People}), queue : BOOLEAN, durable : BOOLEAN,
             flips : Nat, faults : Nat, changes : Nat]

MessageTyped ==
  /\ tellFlag \in BOOLEAN /\ tellInbox \in BOOLEAN /\ breaker \in {"closed", "open", "half"}
  /\ routes \in [Paths -> RouteRows]
  /\ letters \in [People -> Nat]
  /\ letterJobs \in Seq(LetterRows)
  /\ bells \in Seq(BellRows)
  /\ marking \in [Readers -> Nat] /\ \A r \in Readers : marking[r] <= Len(bells)
  /\ messagePlot \in MessagePlotRows
  /\ setbacks \in Nat

(* A deleted notification is back only where a reader holds it. *)
NobodyMarks == \A b \in unmarked : b \in DOMAIN bells /\ bells[b].row = "deleted" /\ \A r \in Readers : marking[r] # b

(* Every attempt of a letter but the first has a setback behind it. *)
LettersTried ==
  \A j \in DOMAIN letterJobs :
    /\ letterJobs[j].attempt <= setbacks + 1
    /\ letterJobs[j].at = "done" /\ letterJobs[j].says = "letter" => letters[letterJobs[j].to] > 0
    /\ letterJobs[j].at = "dead" => setbacks >= MailAttempts

(* Whom a path counts as told was told; the handler also counts whom it    *)
(* could not reach.                                                        *)
Unheard == ~messagePlot.queue /\ messagePlot.event.kind = "queued"
Excused(path) == path = "direct" /\ (setbacks > 0 \/ Unheard)
CountedAreTold == \A path \in Paths : \A p \in routes[path].told : Told(p) \/ Excused(path)

PathsTell ==
  /\ \A path \in Paths : routes[path].at = "absent" <=> path = "durable" /\ ~messagePlot.queue
  /\ tellInbox => \A p \in 1..messagePlot.event.to : Told(p)
  /\ setbacks = 0 => \A path \in Paths : Taken(path) /\ routes[path].at = "over" =>
                       \A p \in 1..messagePlot.event.to : Told(p) \/ Unheard

(* What p got, what the letters of the queue still bring, and what each    *)
(* path may still bring without another setback.                           *)
WaitingFor(p) == {j \in LettersFor(p) : letterJobs[j].says = "letter" /\ letterJobs[j].at = "waiting"}
Brings(path, p) ==
  IF messagePlot.event.kind = "queued" \/ p > messagePlot.event.to THEN 0
  ELSE IF routes[path].at = "telling" THEN (IF p \in routes[path].told THEN 0 ELSE 1)
  ELSE IF routes[path].at = "due" /\ Taken(path) THEN 1 ELSE 0
Bound(p) ==
  letters[p] + Cardinality(BellsOf(p)) + Cardinality(WaitingFor(p)) + Brings("durable", p) + Brings("direct", p)
CopiesBounded == \A p \in People : Bound(p) <= Owed(p) + setbacks

MessageInv == MessageTyped /\ NobodyMarks /\ LettersTried /\ CountedAreTold /\ PathsTell /\ CopiesBounded

LEMMA MessageTypes ==
  ASSUME MessageTyped
  PROVE  /\ \A path \in Paths : routes[path] \in RouteRows /\ routes[path].told \subseteq People
         /\ DOMAIN letterJobs = 1..Len(letterJobs) /\ Len(letterJobs) \in Nat
         /\ \A j \in DOMAIN letterJobs : letterJobs[j] \in LetterRows /\ letterJobs[j].to \in People
         /\ DOMAIN bells = 1..Len(bells) /\ Len(bells) \in Nat
         /\ \A b \in DOMAIN bells : bells[b] \in BellRows /\ bells[b].to \in People
         /\ IsFiniteSet(DOMAIN letterJobs) /\ IsFiniteSet(DOMAIN bells)
         /\ Paths = {"durable", "direct"} /\ Cardinality(People) \in Nat /\ OutboxAttempts \in Nat /\ MailAttempts \in Nat
         /\ \A p \in People : letters[p] \in Nat
         /\ messagePlot.event.to \in Nat /\ 1..messagePlot.event.to \subseteq People
<1>1. DOMAIN letterJobs = 1..Len(letterJobs) /\ Len(letterJobs) \in Nat /\ DOMAIN bells = 1..Len(bells) /\ Len(bells) \in Nat
  BY DEF MessageTyped
<1>2. /\ \A path \in Paths : routes[path] \in RouteRows /\ routes[path].told \subseteq People
      /\ \A j \in DOMAIN letterJobs : letterJobs[j] \in LetterRows /\ letterJobs[j].to \in People
      /\ \A b \in DOMAIN bells : bells[b] \in BellRows /\ bells[b].to \in People
      /\ \A p \in People : letters[p] \in Nat
  <2>1. \A path \in Paths : routes[path] \in RouteRows
    BY DEF MessageTyped
  <2>2. \A j \in DOMAIN letterJobs : letterJobs[j] \in LetterRows
    BY DEF MessageTyped
  <2>3. \A b \in DOMAIN bells : bells[b] \in BellRows
    BY DEF MessageTyped
  <2>4. \A p \in People : letters[p] \in Nat
    BY DEF MessageTyped
  <2> QED BY <2>1, <2>2, <2>3, <2>4 DEF RouteRows, LetterRows, BellRows
<1>3. Cardinality(People) \in Nat
  BY MessageAssumption, FS_CardinalityType
<1>4. messagePlot.event.to \in 0..Cardinality(People)
  BY DEF MessageTyped, MessagePlotRows
<1>5. 1..messagePlot.event.to \subseteq 1..Cardinality(People) /\ messagePlot.event.to \in Nat
  BY <1>3, <1>4
<1>6. IsFiniteSet(DOMAIN letterJobs) /\ IsFiniteSet(DOMAIN bells)
  BY <1>1, FS_Interval
<1>7. OutboxAttempts \in Nat /\ MailAttempts \in Nat /\ People = 1..Cardinality(People)
  BY MessageAssumption
<1>8. 1..messagePlot.event.to \subseteq People
  BY <1>5, <1>7
<1>9. Paths = {"durable", "direct"}
  BY DEF Paths
<1> QED BY <1>1, <1>2, <1>3, <1>5, <1>6, <1>7, <1>8, <1>9

LEMMA MessageCounts ==
  ASSUME MessageTyped, NEW p
  PROVE  /\ IsFiniteSet(BellsOf(p)) /\ Cardinality(BellsOf(p)) \in Nat
         /\ IsFiniteSet(WaitingFor(p)) /\ Cardinality(WaitingFor(p)) \in Nat
         /\ Owed(p) \in Nat
         /\ \A path : Brings(path, p) \in {0, 1}
<1>1. IsFiniteSet(DOMAIN letterJobs) /\ IsFiniteSet(DOMAIN bells)
  BY MessageTypes
<1>2. IsFiniteSet(BellsOf(p)) /\ IsFiniteSet(WaitingFor(p)) /\ IsFiniteSet({j \in LettersFor(p) : letterJobs[j].says = "letter"})
  BY <1>1, FS_Subset DEF BellsOf, WaitingFor, LettersFor
<1>3. Cardinality({j \in LettersFor(p) : letterJobs[j].says = "letter"}) \in Nat
  BY <1>2, FS_CardinalityType
<1>4. Owed(p) \in Nat
  BY <1>3 DEF Owed
<1>5. \A path : Brings(path, p) \in {0, 1}
  BY DEF Brings
<1> QED BY <1>2, <1>4, <1>5, FS_CardinalityType

LEMMA MessagesInitially == MessageInit => MessageInv
<1> SUFFICES ASSUME MessageInit PROVE MessageInv
  OBVIOUS
<1>1. PICK plot \in MessagePlots :
        /\ messagePlot = plot /\ tellFlag = plot.durable
        /\ routes = [durable |-> IF plot.queue THEN Fresh ELSE [Fresh EXCEPT !.at = "absent"], direct |-> Fresh]
        /\ tellInbox = FALSE /\ letters = [p \in People |-> 0] /\ letterJobs = plot.posted
        /\ breaker = "closed" /\ bells = <<>> /\ marking = [r \in Readers |-> 0] /\ setbacks = 0 /\ unmarked = {}
  BY DEF MessageInit
<1>2. plot \in MessagePlotRows
  BY MessageAssumption DEF MessagePlotRows
<1>3. /\ Fresh \in RouteRows /\ [Fresh EXCEPT !.at = "absent"] \in RouteRows
      /\ Fresh.at = "due" /\ Fresh.told = {}
      /\ [Fresh EXCEPT !.at = "absent"].at = "absent" /\ [Fresh EXCEPT !.at = "absent"].told = {}
  <2>1. 1 \in 1..OutboxAttempts
    BY MessageAssumption
  <2> QED BY <2>1 DEF Fresh, RouteRows
<1>4. /\ routes \in [Paths -> RouteRows] /\ routes["direct"].at = "due"
      /\ routes["durable"].at = (IF plot.queue THEN "due" ELSE "absent")
      /\ \A path \in Paths : routes[path].told = {}
  <2>1. routes = [path \in Paths |-> IF path = "durable" /\ ~plot.queue THEN [Fresh EXCEPT !.at = "absent"] ELSE Fresh]
    BY <1>1 DEF Paths
  <2>2. "durable" \in Paths /\ "direct" \in Paths
    BY DEF Paths
  <2> QED BY <1>3, <2>1, <2>2
<1>5. /\ letterJobs \in Seq({Job(p, "letter") : p \in People}) /\ letterJobs \in Seq(LetterRows)
      /\ \A j \in DOMAIN letterJobs : letterJobs[j].says = "letter" /\ letterJobs[j].at = "waiting" /\ letterJobs[j].attempt = 1
  <2>1. plot.posted \in Seq({Job(p, "letter") : p \in People})
    BY <1>2 DEF MessagePlotRows
  <2>2. 1 \in 1..MailAttempts
    BY MessageAssumption
  <2>3. \A p \in People : /\ Job(p, "letter") \in LetterRows /\ Job(p, "letter").says = "letter"
                          /\ Job(p, "letter").at = "waiting" /\ Job(p, "letter").attempt = 1
    BY <2>2 DEF Job, LetterRows
  <2>4. DOMAIN plot.posted = 1..Len(plot.posted) /\ Len(plot.posted) \in Nat
    BY <2>1
  <2>5. \A j \in DOMAIN plot.posted : plot.posted[j] \in {Job(p, "letter") : p \in People}
    BY <2>1
  <2>6. plot.posted \in [1..Len(plot.posted) -> LetterRows]
    BY <2>1, <2>3, <2>4, <2>5
  <2>7. plot.posted \in Seq(LetterRows)
    BY <2>4, <2>6
  <2> QED BY <1>1, <2>1, <2>3, <2>5, <2>7
<1>6. bells \in Seq(BellRows) /\ Len(bells) = 0 /\ DOMAIN bells = {}
  BY <1>1
<1>7. MessageTyped
  <2>1. plot.durable \in BOOLEAN
    BY <1>2 DEF MessagePlotRows
  <2>2. marking \in [Readers -> Nat] /\ \A r \in Readers : marking[r] <= Len(bells)
    BY <1>1, <1>6
  <2>3. letters \in [People -> Nat]
    BY <1>1
  <2> QED BY <1>1, <1>2, <1>4, <1>5, <1>6, <2>1, <2>2, <2>3 DEF MessageTyped
<1>8. NobodyMarks
  BY <1>1 DEF NobodyMarks
<1>9. LettersTried
  BY <1>1, <1>5 DEF LettersTried
<1>10. CountedAreTold
  BY <1>4 DEF CountedAreTold
<1>11. PathsTell
  <2>1. plot.queue \in BOOLEAN
    BY <1>2 DEF MessagePlotRows
  <2> QED BY <1>1, <1>4, <2>1 DEF PathsTell, Paths
<1>12. CopiesBounded
  <2> SUFFICES ASSUME NEW p \in People PROVE Bound(p) <= Owed(p) + setbacks
    BY DEF CopiesBounded
  <2>1. BellsOf(p) = {} /\ letters[p] = 0 /\ setbacks = 0
    BY <1>1, <1>6 DEF BellsOf
  <2>2. WaitingFor(p) = {j \in LettersFor(p) : letterJobs[j].says = "letter"}
    BY <1>5 DEF WaitingFor, LettersFor
  <2>3. Brings("durable", p) + Brings("direct", p) <= (IF messagePlot.event.kind # "queued" /\ p <= messagePlot.event.to THEN 1 ELSE 0)
    <3>1. p \in Nat /\ messagePlot.event.to \in Nat
      BY <1>7, MessageTypes, MessageAssumption
    <3>2. ~(Taken("durable") /\ Taken("direct"))
      BY DEF Taken
    <3> QED BY <1>4, <3>1, <3>2 DEF Brings
  <2>4. /\ Cardinality(WaitingFor(p)) \in Nat /\ Brings("durable", p) \in {0, 1} /\ Brings("direct", p) \in {0, 1}
    BY <1>7, MessageCounts
  <2> QED BY <2>1, <2>2, <2>3, <2>4, FS_EmptySet DEF Bound, Owed
<1> QED BY <1>7, <1>8, <1>9, <1>10, <1>11, <1>12 DEF MessageInv
LEMMA IndicesAreFinite ==
  ASSUME NEW S, NEW s \in Seq(S), NEW I \in SUBSET DOMAIN s
  PROVE  IsFiniteSet(I) /\ Cardinality(I) \in Nat
<1>1. DOMAIN s = 1..Len(s) /\ Len(s) \in Nat
  OBVIOUS
<1>2. IsFiniteSet(1..Len(s))
  BY <1>1, FS_Interval
<1>3. IsFiniteSet(I)
  BY <1>1, <1>2, FS_Subset
<1> QED BY <1>3, FS_CardinalityType

(* A step of a path, of a letter or of a reader: nobody who was told is    *)
(* forgotten, whom a path counts it has told, and nobody may get more than *)
(* before unless there was a setback.                                      *)
LettersKeep ==
  /\ \A j \in DOMAIN letterJobs : /\ j \in DOMAIN letterJobs' /\ letterJobs'[j].to = letterJobs[j].to
                                  /\ letterJobs'[j].says = letterJobs[j].says
  /\ \A j \in DOMAIN letterJobs' \ DOMAIN letterJobs : letterJobs'[j].says = "again"
BellsKeep == \A b \in DOMAIN bells : b \in DOMAIN bells' /\ bells'[b].to = bells[b].to
PlotKeeps == messagePlot'.event = messagePlot.event /\ messagePlot'.queue = messagePlot.queue
AllTold(path) == \A p \in 1..messagePlot.event.to : p \in routes[path].told

LEMMA MessageMoves ==
  ASSUME MessageInv, MessageTyped', NobodyMarks', LettersTried', NEW path \in Paths, NEW new \in RouteRows,
         routes' = [routes EXCEPT ![path] = new],
         tellFlag' = tellFlag \/ setbacks' > 0, PlotKeeps, setbacks <= setbacks', LettersKeep, BellsKeep,
         \A p \in People : letters[p] <= letters'[p],
         new.at = "absent" <=> routes[path].at = "absent",
         \A p \in new.told : p \in routes[path].told \/ Told(p)' \/ Excused(path)',
         tellInbox' => tellInbox \/ (path = "durable" /\ AllTold(path)),
         setbacks' = 0 /\ Taken(path) /\ new.at = "over" =>
           routes[path].at = "over" \/ (path = "durable" /\ tellInbox) \/ AllTold(path),
         \A p \in People : Bound(p)' + setbacks <= Bound(p) + setbacks'
  PROVE  MessageInv'
<1> USE DEF MessageInv
<1>1. \A q \in Paths : routes'[q] = IF q = path THEN new ELSE routes[q]
  BY DEF MessageTyped
<1>2. \A p \in People : letters[p] \in Nat /\ letters'[p] \in Nat
  BY DEF MessageTyped
<1>3. setbacks \in Nat /\ setbacks' \in Nat
  BY DEF MessageTyped
<1>4. ASSUME NEW p \in People, Told(p) PROVE Told(p)'
  <2>1. CASE letters[p] > 0
    BY <1>2, <2>1 DEF Told
  <2>2. CASE LettersFor(p) # {}
    BY <2>2 DEF Told, LettersFor, LettersKeep
  <2>3. CASE BellsOf(p) # {}
    BY <2>3 DEF Told, BellsOf, BellsKeep
  <2> QED BY <1>4, <2>1, <2>2, <2>3 DEF Told
<1>5. (Unheard' <=> Unheard) /\ \A q : Excused(q) => Excused(q)'
  BY <1>3 DEF Unheard, Excused, PlotKeeps
<1>6. \A q \in Paths : routes[q].told \subseteq People
  BY MessageTypes
<1>7. CountedAreTold'
  <2> SUFFICES ASSUME NEW q \in Paths, NEW p \in routes'[q].told PROVE Told(p)' \/ Excused(q)'
    BY DEF CountedAreTold
  <2>1. p \in routes[q].told \/ Told(p)' \/ Excused(q)'
    BY <1>1
  <2> QED BY <1>4, <1>5, <1>6, <2>1 DEF CountedAreTold
<1>8. PathsTell'
  <2>1. \A q \in Paths : routes'[q].at = "absent" <=> q = "durable" /\ ~messagePlot'.queue
    BY <1>1 DEF PathsTell, PlotKeeps
  <2>2. 1..messagePlot.event.to \subseteq People /\ messagePlot'.event = messagePlot.event
    BY MessageTypes DEF PlotKeeps
  <2>3. AllTold("durable") => \A p \in 1..messagePlot.event.to : Told(p)
    BY DEF AllTold, CountedAreTold, Excused, Paths
  <2>4. tellInbox' => \A p \in 1..messagePlot'.event.to : Told(p)'
    BY <1>4, <2>2, <2>3 DEF PathsTell
  <2>5. ASSUME setbacks' = 0, NEW q \in Paths, Taken(q)', routes'[q].at = "over", NEW p \in 1..messagePlot.event.to
        PROVE  Told(p) \/ Unheard
    <3>1. setbacks = 0 /\ tellFlag' = tellFlag /\ Taken(q)
      BY <1>3, <2>5 DEF Taken
    <3>2. CASE routes[q].at = "over"
      BY <2>5, <3>1, <3>2 DEF PathsTell
    <3>3. CASE q = path /\ q = "durable" /\ tellInbox
      BY <2>5, <3>3 DEF PathsTell
    <3>4. CASE q = path /\ AllTold(q)
      <4>1. p \in routes[q].told
        BY <2>5, <3>4 DEF AllTold
      <4> QED BY <3>1, <4>1 DEF CountedAreTold, Excused
    <3> QED BY <1>1, <2>5, <3>1, <3>2, <3>3, <3>4
  <2>6. setbacks' = 0 => \A q \in Paths : Taken(q)' /\ routes'[q].at = "over" =>
                           \A p \in 1..messagePlot'.event.to : Told(p)' \/ Unheard'
    BY <1>4, <1>5, <2>2, <2>5
  <2> QED BY <2>1, <2>4, <2>6 DEF PathsTell
<1>9. CopiesBounded'
  <2> SUFFICES ASSUME NEW p \in People PROVE Bound(p)' <= Owed(p)' + setbacks'
    BY DEF CopiesBounded
  <2>1. {j \in LettersFor(p) : letterJobs[j].says = "letter"}' = {j \in LettersFor(p) : letterJobs[j].says = "letter"}
    BY DEF LettersFor, LettersKeep
  <2>2. Owed(p)' = Owed(p)
    BY <2>1 DEF Owed, PlotKeeps
  <2>3. Bound(p) <= Owed(p) + setbacks /\ Bound(p)' + setbacks <= Bound(p) + setbacks'
    BY DEF CopiesBounded
  <2>4. Bound(p) \in Nat /\ Owed(p) \in Nat
    BY <1>2, MessageCounts DEF Bound
  <2>5. Bound(p)' \in Nat
    <3>1. Brings("durable", p)' \in {0, 1} /\ Brings("direct", p)' \in {0, 1}
      BY DEF Brings
    <3>2. bells' \in Seq(BellRows) /\ letterJobs' \in Seq(LetterRows)
      BY DEF MessageTyped
    <3>3. BellsOf(p)' \subseteq DOMAIN bells' /\ WaitingFor(p)' \subseteq DOMAIN letterJobs'
      BY DEF BellsOf, WaitingFor, LettersFor
    <3>4. Cardinality(BellsOf(p)') \in Nat /\ Cardinality(WaitingFor(p)') \in Nat
      BY <3>2, <3>3, IndicesAreFinite
    <3> QED BY <1>2, <3>1, <3>4 DEF Bound
  <2> QED BY <1>3, <2>2, <2>3, <2>4, <2>5
<1> QED BY <1>7, <1>8, <1>9

LEMMA SetbackCosts ==
  ASSUME MessageTyped, Setback
  PROVE  /\ setbacks \in Nat /\ setbacks' = setbacks + 1 /\ setbacks' > 0 /\ setbacks' \in Nat
         /\ messagePlot' \in MessagePlotRows /\ PlotKeeps
<1>1. setbacks \in Nat /\ messagePlot \in MessagePlotRows /\ messagePlot.faults \in Nat
  BY DEF MessageTyped, MessagePlotRows
<1>2. /\ messagePlot' = [messagePlot EXCEPT !.faults = messagePlot.faults - 1] /\ messagePlot.faults - 1 \in Nat
      /\ setbacks' = setbacks + 1
  BY <1>1 DEF Setback
<1>3. messagePlot' \in MessagePlotRows /\ PlotKeeps
  <2> DEFINE Posts == Seq({Job(p, "letter") : p \in People})
             Events == [kind : {"mail", "queued", "bell", "none"}, to : 0..Cardinality(People)]
  <2>1. MessagePlotRows = [event : Events, posted : Posts, queue : BOOLEAN, durable : BOOLEAN, flips : Nat, faults : Nat, changes : Nat]
    BY DEF MessagePlotRows
  <2> HIDE DEF Posts, Events
  <2> QED BY <1>1, <1>2, <2>1 DEF PlotKeeps
<1> QED BY <1>1, <1>2, <1>3
LEMMA OnePathBound ==
  ASSUME MessageTyped, MessageTyped', NEW path \in Paths, NEW new, routes' = [routes EXCEPT ![path] = new],
         UNCHANGED tellFlag, PlotKeeps, NEW p \in People,
         letters'[p] + Cardinality(BellsOf(p)') + Cardinality(WaitingFor(p)') + Brings(path, p)' + setbacks
           <= letters[p] + Cardinality(BellsOf(p)) + Cardinality(WaitingFor(p)) + Brings(path, p) + setbacks'
  PROVE  Bound(p)' + setbacks <= Bound(p) + setbacks'
<1>1. \A q \in Paths : q # path => Brings(q, p)' = Brings(q, p)
  BY DEF MessageTyped, Brings, PlotKeeps, Taken
<1>2. Paths = {"durable", "direct"} /\ \A q : Brings(q, p) \in Nat /\ Brings(q, p)' \in Nat
  BY DEF Paths, Brings
<1>3. letters[p] \in Nat /\ letters'[p] \in Nat /\ setbacks \in Nat /\ setbacks' \in Nat
  BY DEF MessageTyped
<1>4. Cardinality(BellsOf(p)) \in Nat /\ Cardinality(WaitingFor(p)) \in Nat
  BY MessageCounts
<1>5. Cardinality(BellsOf(p)') \in Nat /\ Cardinality(WaitingFor(p)') \in Nat
  <2>1. bells' \in Seq(BellRows) /\ letterJobs' \in Seq(LetterRows)
    BY DEF MessageTyped
  <2>2. BellsOf(p)' \subseteq DOMAIN bells' /\ WaitingFor(p)' \subseteq DOMAIN letterJobs'
    BY DEF BellsOf, WaitingFor, LettersFor
  <2> QED BY <2>1, <2>2, IndicesAreFinite
<1> DEFINE a == letters[p] + Cardinality(BellsOf(p)) + Cardinality(WaitingFor(p))
           b == letters'[p] + Cardinality(BellsOf(p)') + Cardinality(WaitingFor(p)')
<1>6. a \in Nat /\ b \in Nat /\ b + Brings(path, p)' + setbacks <= a + Brings(path, p) + setbacks'
  BY <1>3, <1>4, <1>5
<1>7. Bound(p) = a + Brings("durable", p) + Brings("direct", p) /\ Bound(p)' = b + Brings("durable", p)' + Brings("direct", p)'
  BY DEF Bound
<1> HIDE DEF a, b
<1>8. CASE path = "durable"
  <2>1. Brings("direct", p)' = Brings("direct", p)
    BY <1>1, <1>2, <1>8
  <2> QED BY <1>2, <1>3, <1>6, <1>7, <1>8, <2>1
<1>9. CASE path = "direct"
  <2>1. Brings("durable", p)' = Brings("durable", p)
    BY <1>1, <1>2, <1>9
  <2> QED BY <1>2, <1>3, <1>6, <1>7, <1>9, <2>1
<1> QED BY <1>2, <1>8, <1>9

(* A path moves on, and nobody gets anything. *)
LEMMA RouteMoves ==
  ASSUME MessageInv, NEW path \in Paths, NEW new \in RouteRows, routes' = [routes EXCEPT ![path] = new],
         UNCHANGED <<tellFlag, letters, letterJobs, breaker, bells, marking, unmarked>>, tellInbox' \in BOOLEAN,
         \/ UNCHANGED <<messagePlot, setbacks>> /\ \A p \in People : Brings(path, p)' <= Brings(path, p)
         \/ Setback,
         new.at = "absent" <=> routes[path].at = "absent",
         new.told \subseteq routes[path].told,
         tellInbox' => tellInbox \/ (path = "durable" /\ AllTold(path)),
         setbacks' = 0 /\ Taken(path) /\ new.at = "over" =>
           routes[path].at = "over" \/ (path = "durable" /\ tellInbox) \/ AllTold(path)
  PROVE  MessageInv'
<1> USE DEF MessageInv
<1>1. setbacks \in Nat /\ setbacks' \in Nat /\ setbacks <= setbacks' /\ PlotKeeps /\ messagePlot' \in MessagePlotRows
  BY SetbackCosts DEF MessageTyped, PlotKeeps
<1>2. routes' \in [Paths -> RouteRows]
  BY DEF MessageTyped
<1>3. MessageTyped'
  BY <1>1, <1>2 DEF MessageTyped
<1>4. NobodyMarks'
  BY DEF NobodyMarks
<1>5. LettersTried'
  <2>1. \A j \in DOMAIN letterJobs : letterJobs[j].attempt \in Nat
    BY MessageTypes DEF LetterRows
  <2>2. MailAttempts \in Nat
    BY MessageAssumption
  <2> QED BY <1>1, <2>1, <2>2 DEF LettersTried
<1>6. LettersKeep /\ BellsKeep /\ \A p \in People : letters[p] <= letters'[p]
  BY MessageTypes DEF LettersKeep, BellsKeep
<1>7. ASSUME NEW p \in People PROVE Bound(p)' + setbacks <= Bound(p) + setbacks'
  <2>1. BellsOf(p)' = BellsOf(p) /\ WaitingFor(p)' = WaitingFor(p) /\ letters'[p] = letters[p]
    BY DEF BellsOf, WaitingFor, LettersFor
  <2>2. Brings(path, p) \in {0, 1} /\ Brings(path, p)' \in {0, 1}
    BY DEF Brings
  <2>3. Brings(path, p)' + setbacks <= Brings(path, p) + setbacks'
    BY <1>1, <2>2, SetbackCosts
  <2>4. letters[p] \in Nat /\ Cardinality(BellsOf(p)) \in Nat /\ Cardinality(WaitingFor(p)) \in Nat
    BY MessageCounts, MessageTypes
  <2>5. letters'[p] + Cardinality(BellsOf(p)') + Cardinality(WaitingFor(p)') + Brings(path, p)' + setbacks
           <= letters[p] + Cardinality(BellsOf(p)) + Cardinality(WaitingFor(p)) + Brings(path, p) + setbacks'
    BY <1>1, <2>1, <2>2, <2>3, <2>4
  <2> QED BY <1>1, <1>3, <2>5, OnePathBound
<1> QED BY <1>1, <1>3, <1>4, <1>5, <1>6, <1>7, MessageMoves

LEMMA AgainTyped ==
  ASSUME MessageTyped, NEW path \in Paths
  PROVE  /\ Again(routes[path]) \in RouteRows /\ Again(routes[path]).at \in {"due", "dead"}
         /\ Again(routes[path]).told \subseteq routes[path].told
<1> DEFINE route == routes[path]
<1>1. route \in RouteRows /\ route.attempt \in 1..OutboxAttempts /\ OutboxAttempts \in Nat
  BY MessageTypes DEF RouteRows
<1>2. CASE route.attempt = OutboxAttempts
  <2>1. Again(route) = [route EXCEPT !.at = "dead"]
    BY <1>2 DEF Again
  <2> QED BY <1>1, <2>1 DEF RouteRows
<1>3. CASE route.attempt # OutboxAttempts
  <2>1. Again(route) = [at |-> "due", told |-> {}, attempt |-> route.attempt + 1]
    BY <1>3 DEF Again, Fresh
  <2>2. route.attempt + 1 \in 1..OutboxAttempts
    BY <1>1, <1>3
  <2> QED BY <2>1, <2>2 DEF RouteRows
<1> QED BY <1>2, <1>3

LEMMA StartRouteStep ==
  ASSUME MessageInv, NEW path \in Paths, StartRoute(path)
  PROVE  MessageInv'
<1> DEFINE at == IF Taken(path) /\ ~(path = "durable" /\ tellInbox) THEN "telling" ELSE "over"
           new == [routes[path] EXCEPT !.at = at]
<1>1. MessageTyped /\ routes[path] \in RouteRows
  BY MessageTypes DEF MessageInv
<1>2. /\ routes[path].at = "due" /\ routes' = [routes EXCEPT ![path] = new]
      /\ UNCHANGED <<tellFlag, tellInbox, letters, letterJobs, breaker, bells, marking, messagePlot, setbacks, unmarked>>
  BY DEF StartRoute, RouteGoes
<1>3. new \in RouteRows /\ new.at = at /\ new.told = routes[path].told
  BY <1>1 DEF RouteRows
<1>4. /\ new.at \in {"telling", "over"} /\ (new.at = "telling" => Taken(path))
      /\ Taken(path) /\ new.at = "over" => path = "durable" /\ tellInbox
  BY <1>3
<1> HIDE DEF new, at
<1>5. \A p \in People : Brings(path, p)' <= Brings(path, p)
  <2>1. routes'[path] = new
    BY <1>1, <1>2 DEF MessageTyped
  <2> QED BY <1>2, <1>4, <2>1 DEF Brings, Taken
<1>6. tellInbox' \in BOOLEAN
  BY <1>1, <1>2 DEF MessageTyped
<1> QED BY <1>1, <1>2, <1>3, <1>4, <1>5, <1>6, RouteMoves

LEMMA FinishRouteStep ==
  ASSUME MessageInv, NEW path \in Paths, FinishRoute(path)
  PROVE  MessageInv'
<1> DEFINE new == [routes[path] EXCEPT !.at = "over"]
<1>1. MessageTyped /\ routes[path] \in RouteRows /\ tellInbox \in BOOLEAN
  BY MessageTypes DEF MessageInv, MessageTyped
<1>2. /\ routes[path].at = "telling" /\ routes' = [routes EXCEPT ![path] = new] /\ AllTold(path)
      /\ tellInbox' = (tellInbox \/ path = "durable")
      /\ UNCHANGED <<tellFlag, letters, letterJobs, breaker, bells, marking, messagePlot, setbacks, unmarked>>
  BY DEF FinishRoute, Recorded, Untold, RouteGoes, AllTold
<1>3. new \in RouteRows /\ new.at = "over" /\ new.told = routes[path].told
  BY <1>1 DEF RouteRows
<1> HIDE DEF new
<1>4. \A p \in People : Brings(path, p)' <= Brings(path, p)
  <2>1. routes'[path] = new
    BY <1>1, <1>2 DEF MessageTyped
  <2> QED BY <1>2, <1>3, <2>1 DEF Brings
<1> QED BY <1>1, <1>2, <1>3, <1>4, RouteMoves

LEMMA RouteFailsStep ==
  ASSUME MessageInv, NEW path \in Paths, CrashRoute(path) \/ \E p \in People : NotTold(path, p)
  PROVE  MessageInv'
<1>1. MessageTyped /\ routes[path] \in RouteRows /\ tellInbox \in BOOLEAN
  BY MessageTypes DEF MessageInv, MessageTyped
<1>2. /\ routes[path].at = "telling" /\ Setback
      /\ IF path = "direct" THEN RouteGoes(path, "dead") ELSE routes' = [routes EXCEPT ![path] = Again(@)]
      /\ UNCHANGED <<tellFlag, tellInbox, letters, letterJobs, breaker, bells, marking, unmarked>>
  BY DEF CrashRoute, NotTold, Turn
<1>3. PICK new \in RouteRows :
        new.at \in {"due", "dead"} /\ new.told \subseteq routes[path].told /\ routes' = [routes EXCEPT ![path] = new]
  <2>1. CASE path = "direct"
    <3> DEFINE new == [routes[path] EXCEPT !.at = "dead"]
    <3>1. new \in RouteRows /\ new.at = "dead" /\ new.told = routes[path].told
      BY <1>1 DEF RouteRows
    <3>2. routes' = [routes EXCEPT ![path] = new]
      BY <1>2, <2>1 DEF RouteGoes
    <3> QED BY <3>1, <3>2
  <2>2. CASE path # "direct"
    BY <1>1, <1>2, <2>2, AgainTyped
  <2> QED BY <2>1, <2>2
<1> QED BY <1>1, <1>2, <1>3, RouteMoves
(* Sending an e-mail to p: it may arrive also when the send fails. *)
LettersGrow(p) == letters' \in {letters, [letters EXCEPT ![p] = @ + 1]}

LEMMA SendTypes ==
  ASSUME MessageTyped, NEW p \in People, SendSucceeds(p) \/ SendFails(p) \/ JobAttemptFails(p)
  PROVE  /\ LettersGrow(p) /\ letters' \in [People -> Nat] /\ breaker' \in {"closed", "open", "half"}
         /\ \A q \in People : letters[q] \in Nat /\ letters[q] <= letters'[q] /\ (q # p => letters'[q] = letters[q])
         /\ letters'[p] <= letters[p] + 1
         /\ SendSucceeds(p) => letters'[p] = letters[p] + 1
         /\ messagePlot' \in MessagePlotRows /\ PlotKeeps
         /\ setbacks \in Nat /\ setbacks' \in Nat
         /\ ~SendSucceeds(p) => setbacks' = setbacks + 1
         /\ setbacks' = setbacks \/ setbacks' = setbacks + 1
<1>1. LettersGrow(p) /\ (SendSucceeds(p) => letters' = [letters EXCEPT ![p] = @ + 1])
  BY DEF SendSucceeds, SendFails, JobAttemptFails, LettersGrow
<1>2. breaker' \in {"closed", "open", "half"}
  BY DEF SendSucceeds, SendFails, JobAttemptFails, MessageTyped
<1>3. /\ letters' \in [People -> Nat]
      /\ \A q \in People : letters[q] \in Nat /\ letters[q] <= letters'[q] /\ (q # p => letters'[q] = letters[q])
      /\ letters'[p] <= letters[p] + 1
      /\ SendSucceeds(p) => letters'[p] = letters[p] + 1
  <2>1. letters \in [People -> Nat]
    BY DEF MessageTyped
  <2>2. CASE letters' = letters
    BY <1>1, <2>1, <2>2
  <2>3. CASE letters' = [letters EXCEPT ![p] = @ + 1]
    BY <2>1, <2>3
  <2> QED BY <1>1, <2>2, <2>3 DEF LettersGrow
<1>4. setbacks \in Nat /\ messagePlot \in MessagePlotRows
  BY DEF MessageTyped
<1>5. SendSucceeds(p) => messagePlot' = messagePlot /\ setbacks' = setbacks
  BY DEF SendSucceeds
<1>6. JobAttemptFails(p) => messagePlot' \in MessagePlotRows /\ PlotKeeps /\ setbacks' = setbacks + 1
  BY SetbackCosts DEF JobAttemptFails
<1>7. SendFails(p) => JobAttemptFails(p) \/ (messagePlot' = messagePlot /\ setbacks' = setbacks + 1)
  BY DEF SendFails
<1>8. messagePlot' = messagePlot => PlotKeeps
  BY DEF PlotKeeps
<1>9. setbacks' \in Nat /\ (setbacks' = setbacks \/ setbacks' = setbacks + 1) /\ messagePlot' \in MessagePlotRows /\ PlotKeeps
  BY <1>4, <1>5, <1>6, <1>7, <1>8
<1>10. ~SendSucceeds(p) => setbacks' = setbacks + 1
  BY <1>6, <1>7
<1> QED BY <1>1, <1>2, <1>3, <1>4, <1>9, <1>10

LEMMA LettersTriedStays ==
  ASSUME MessageTyped, LettersTried, UNCHANGED letterJobs, \A q \in People : letters[q] \in Nat /\ letters'[q] \in Nat /\ letters[q] <= letters'[q],
         setbacks' \in Nat, setbacks <= setbacks'
  PROVE  LettersTried'
<1>1. \A j \in DOMAIN letterJobs : letterJobs[j].attempt \in Nat /\ letterJobs[j].to \in People
  BY MessageTypes DEF LetterRows
<1>2. MailAttempts \in Nat /\ setbacks \in Nat
  BY MessageAssumption DEF MessageTyped
<1> QED BY <1>1, <1>2 DEF LettersTried

(* What a path brings to p when it has told p, or starts again. *)
LEMMA CountedBrings ==
  ASSUME MessageTyped, NEW path \in Paths, NEW p \in People, Turn(path, p), NEW new \in RouteRows, routes' = [routes EXCEPT ![path] = new],
         new = [routes[path] EXCEPT !.told = routes[path].told \cup {p}], UNCHANGED tellFlag, PlotKeeps
  PROVE  /\ messagePlot.event.kind # "queued" => Brings(path, p)' + 1 = Brings(path, p)
         /\ \A q \in People : Brings(path, q)' <= Brings(path, q) /\ Brings(path, q) \in Nat /\ Brings(path, q)' \in Nat
         /\ p \in 1..messagePlot.event.to /\ new.at = "telling" /\ new.told = routes[path].told \cup {p} /\ routes[path].at = "telling"
<1>1. /\ routes[path].at = "telling" /\ p \in 1..messagePlot.event.to /\ p \notin routes[path].told
      /\ messagePlot.event.to \in Nat
  BY MessageTypes DEF Turn, Untold
<1>2. routes[path] \in RouteRows
  BY MessageTypes
<1>3. new.at = "telling" /\ new.told = routes[path].told \cup {p}
  BY <1>1, <1>2 DEF RouteRows
<1>4. routes'[path] = new
  BY DEF MessageTyped
<1>5. ~(p > messagePlot.event.to)
  BY <1>1
<1>6. messagePlot.event.kind # "queued" => Brings(path, p)' + 1 = Brings(path, p)
  <2>1. messagePlot.event.kind # "queued" => Brings(path, p) = 1
    BY <1>1, <1>5 DEF Brings
  <2>2. Brings(path, p)' = 0
    BY <1>3, <1>4 DEF Brings
  <2> QED BY <2>1, <2>2
<1>7. \A q \in People : Brings(path, q)' <= Brings(path, q) /\ Brings(path, q) \in Nat /\ Brings(path, q)' \in Nat
  BY <1>1, <1>3, <1>4 DEF Brings, PlotKeeps
<1> QED BY <1>1, <1>3, <1>6, <1>7

LEMMA TellByMailStep ==
  ASSUME MessageInv, NEW path \in Paths, NEW p \in People, TellByMail(path, p) \/ (path = "direct" /\ MailNotSent(path, p))
  PROVE  MessageInv'
<1> DEFINE new == [routes[path] EXCEPT !.told = routes[path].told \cup {p}]
<1>1. MessageTyped /\ routes[path] \in RouteRows /\ tellInbox \in BOOLEAN /\ NobodyMarks /\ LettersTried
  BY MessageTypes DEF MessageInv, MessageTyped
<1>2. /\ Turn(path, p) /\ messagePlot.event.kind = "mail" /\ routes' = [routes EXCEPT ![path] = new]
      /\ SendSucceeds(p) \/ (path = "direct" /\ SendFails(p))
      /\ UNCHANGED <<tellFlag, tellInbox, letterJobs, bells, marking, unmarked>>
  BY DEF TellByMail, MailNotSent
<1>3. new \in RouteRows
  BY <1>1 DEF RouteRows
<1>4. new = [routes[path] EXCEPT !.told = routes[path].told \cup {p}]
  OBVIOUS
<1> HIDE DEF new
<1>5. /\ letters' \in [People -> Nat] /\ breaker' \in {"closed", "open", "half"}
      /\ \A q \in People : letters[q] \in Nat /\ letters[q] <= letters'[q] /\ (q # p => letters'[q] = letters[q])
      /\ letters'[p] <= letters[p] + 1
      /\ SendSucceeds(p) => letters'[p] = letters[p] + 1
      /\ messagePlot' \in MessagePlotRows /\ PlotKeeps
      /\ setbacks \in Nat /\ setbacks' \in Nat
      /\ ~SendSucceeds(p) => setbacks' = setbacks + 1
      /\ setbacks' = setbacks \/ setbacks' = setbacks + 1
  BY <1>1, <1>2, SendTypes
<1>6. /\ Brings(path, p)' + 1 = Brings(path, p)
      /\ \A q \in People : Brings(path, q)' <= Brings(path, q) /\ Brings(path, q) \in Nat /\ Brings(path, q)' \in Nat
      /\ p \in 1..messagePlot.event.to /\ new.at = "telling" /\ new.told = routes[path].told \cup {p} /\ routes[path].at = "telling"
  <2>1. tellFlag' = tellFlag /\ PlotKeeps /\ messagePlot.event.kind # "queued"
    BY <1>2, <1>5
  <2> QED BY <1>1, <1>2, <1>3, <1>4, <2>1, CountedBrings
<1>7. MessageTyped'
  <2>1. routes' \in [Paths -> RouteRows]
    BY <1>1, <1>2, <1>3 DEF MessageTyped
  <2> QED BY <1>1, <1>2, <1>5, <2>1 DEF MessageTyped
<1>8. NobodyMarks'
  BY <1>1, <1>2 DEF NobodyMarks
<1>9. LettersTried' /\ setbacks <= setbacks'
  <2>1. \A q \in People : letters'[q] \in Nat
    BY <1>5
  <2> QED BY <1>1, <1>2, <1>5, <2>1, LettersTriedStays
<1>10. LettersKeep /\ BellsKeep
  BY <1>2, MessageTypes DEF LettersKeep, BellsKeep
<1>11. ASSUME NEW q \in People PROVE Bound(q)' + setbacks <= Bound(q) + setbacks'
  <2>1. BellsOf(q)' = BellsOf(q) /\ WaitingFor(q)' = WaitingFor(q)
    BY <1>2 DEF BellsOf, WaitingFor, LettersFor
  <2>2. letters'[q] + Brings(path, q)' <= letters[q] + Brings(path, q) /\ letters'[q] \in Nat
    <3>1. letters'[q] \in Nat
      BY <1>5
    <3>2. CASE q = p
      BY <1>5, <1>6, <3>1, <3>2
    <3>3. CASE q # p
      BY <1>5, <1>6, <3>1, <3>3
    <3> QED BY <3>1, <3>2, <3>3
  <2>3. Cardinality(BellsOf(q)) \in Nat /\ Cardinality(WaitingFor(q)) \in Nat
    BY <1>1, MessageCounts
  <2>4. letters'[q] + Cardinality(BellsOf(q)') + Cardinality(WaitingFor(q)') + Brings(path, q)' + setbacks
           <= letters[q] + Cardinality(BellsOf(q)) + Cardinality(WaitingFor(q)) + Brings(path, q) + setbacks'
    BY <1>5, <1>6, <1>9, <2>1, <2>2, <2>3
  <2> QED BY <1>1, <1>2, <1>5, <1>7, <2>4, OnePathBound
<1>12. Told(p)' \/ Excused(path)'
  <2>1. CASE SendSucceeds(p)
    BY <1>5, <2>1 DEF Told
  <2>2. CASE ~SendSucceeds(p)
    BY <1>2, <1>5, <2>2 DEF Excused
  <2> QED BY <2>1, <2>2
<1> QED BY <1>1, <1>2, <1>3, <1>5, <1>6, <1>7, <1>8, <1>9, <1>10, <1>11, <1>12, MessageMoves

(* The consumer throws, and starts again. *)
LEMMA MailNotSentStep ==
  ASSUME MessageInv, NEW path \in Paths, NEW p \in People, MailNotSent(path, p), path # "direct"
  PROVE  MessageInv'
<1> DEFINE new == Again(routes[path])
<1>1. MessageTyped /\ routes[path] \in RouteRows /\ tellInbox \in BOOLEAN /\ NobodyMarks /\ LettersTried
  BY MessageTypes DEF MessageInv, MessageTyped
<1>2. /\ Turn(path, p) /\ messagePlot.event.kind = "mail" /\ routes' = [routes EXCEPT ![path] = new] /\ SendFails(p)
      /\ UNCHANGED <<tellFlag, tellInbox, letterJobs, bells, marking, unmarked>>
  BY DEF MailNotSent
<1>3. new \in RouteRows /\ new.at \in {"due", "dead"} /\ new.told \subseteq routes[path].told /\ routes[path].at = "telling"
  BY <1>1, <1>2, AgainTyped DEF Turn
<1> HIDE DEF new
<1>5. /\ letters' \in [People -> Nat] /\ breaker' \in {"closed", "open", "half"}
      /\ \A q \in People : letters[q] \in Nat /\ letters[q] <= letters'[q] /\ (q # p => letters'[q] = letters[q])
      /\ letters'[p] <= letters[p] + 1
      /\ messagePlot' \in MessagePlotRows /\ PlotKeeps
      /\ setbacks \in Nat /\ setbacks' = setbacks + 1 /\ setbacks' \in Nat
  <2>1. SendFails(p) => ~SendSucceeds(p) \/ setbacks' = setbacks + 1
    BY <1>1, SetbackCosts DEF SendFails, JobAttemptFails
  <2> QED BY <1>1, <1>2, <2>1, SendTypes
<1>7. MessageTyped'
  <2>1. routes' \in [Paths -> RouteRows]
    BY <1>1, <1>2, <1>3 DEF MessageTyped
  <2> QED BY <1>1, <1>2, <1>5, <2>1 DEF MessageTyped
<1>8. NobodyMarks'
  BY <1>1, <1>2 DEF NobodyMarks
<1>9. LettersTried' /\ setbacks <= setbacks' /\ setbacks' # 0
  <2>1. \A q \in People : letters'[q] \in Nat
    BY <1>5
  <2> QED BY <1>1, <1>2, <1>5, <2>1, LettersTriedStays
<1>10. LettersKeep /\ BellsKeep
  BY <1>2, MessageTypes DEF LettersKeep, BellsKeep
<1>11. ASSUME NEW q \in People PROVE Bound(q)' + setbacks <= Bound(q) + setbacks'
  <2>1. BellsOf(q)' = BellsOf(q) /\ WaitingFor(q)' = WaitingFor(q)
    BY <1>2 DEF BellsOf, WaitingFor, LettersFor
  <2>2. letters'[q] + Brings(path, q)' <= letters[q] + Brings(path, q) + 1 /\ letters'[q] \in Nat
    <3>1. letters'[q] \in Nat /\ Brings(path, q) \in {0, 1} /\ Brings(path, q)' \in {0, 1}
      BY <1>5 DEF Brings
    <3>2. CASE q = p
      <4>1. Brings(path, p) = 1
        <5>1. p \in 1..messagePlot.event.to /\ p \notin routes[path].told /\ messagePlot.event.to \in Nat
          BY <1>1, <1>2, MessageTypes DEF Turn, Untold
        <5>2. ~(p > messagePlot.event.to)
          BY <5>1
        <5> QED BY <1>2, <1>3, <5>1, <5>2 DEF Brings
      <4> QED BY <1>5, <3>1, <3>2, <4>1
    <3>3. CASE q # p
      BY <1>5, <3>1, <3>3
    <3> QED BY <3>1, <3>2, <3>3
  <2>3. Cardinality(BellsOf(q)) \in Nat /\ Cardinality(WaitingFor(q)) \in Nat
    BY <1>1, MessageCounts
  <2>4. Brings(path, q) \in Nat /\ Brings(path, q)' \in Nat
    BY DEF Brings
  <2>5. letters'[q] + Cardinality(BellsOf(q)') + Cardinality(WaitingFor(q)') + Brings(path, q)' + setbacks
           <= letters[q] + Cardinality(BellsOf(q)) + Cardinality(WaitingFor(q)) + Brings(path, q) + setbacks'
    BY <1>5, <2>1, <2>2, <2>3, <2>4
  <2> QED BY <1>1, <1>2, <1>5, <1>7, <2>5, OnePathBound
<1> QED BY <1>1, <1>2, <1>3, <1>5, <1>7, <1>8, <1>9, <1>10, <1>11, MessageMoves
LEMMA TellByQueueStep ==
  ASSUME MessageInv, NEW path \in Paths, NEW p \in People, TellByQueue(path, p)
  PROVE  MessageInv'
<1> DEFINE new == [routes[path] EXCEPT !.told = routes[path].told \cup {p}]
           n == Len(letterJobs) + 1
           job == Job(p, "again")
<1>1. MessageTyped /\ routes[path] \in RouteRows /\ tellInbox \in BOOLEAN /\ NobodyMarks /\ LettersTried /\ setbacks \in Nat
  BY MessageTypes DEF MessageInv, MessageTyped
<1>2. /\ Turn(path, p) /\ messagePlot.event.kind = "queued" /\ routes' = [routes EXCEPT ![path] = new]
      /\ letterJobs' = IF messagePlot.queue THEN Append(letterJobs, job) ELSE letterJobs
      /\ UNCHANGED <<tellFlag, tellInbox, letters, breaker, bells, marking, messagePlot, setbacks, unmarked>>
  BY DEF TellByQueue
<1>3. new \in RouteRows
  BY <1>1 DEF RouteRows
<1>4. new = [routes[path] EXCEPT !.told = routes[path].told \cup {p}]
  OBVIOUS
<1>5. job \in LetterRows /\ job.to = p /\ job.says = "again" /\ job.at = "waiting" /\ job.attempt = 1
  <2>1. 1 \in 1..MailAttempts
    BY MessageAssumption
  <2> QED BY <2>1 DEF Job, LetterRows
<1> HIDE DEF new, job
<1>6. /\ \A q \in People : Brings(path, q)' <= Brings(path, q) /\ Brings(path, q) \in Nat /\ Brings(path, q)' \in Nat
      /\ new.at = "telling" /\ new.told = routes[path].told \cup {p} /\ routes[path].at = "telling"
      /\ PlotKeeps
  <2>1. tellFlag' = tellFlag /\ PlotKeeps
    BY <1>2 DEF PlotKeeps
  <2> QED BY <1>1, <1>2, <1>3, <1>4, <2>1, CountedBrings
<1>7. /\ DOMAIN letterJobs = 1..Len(letterJobs) /\ Len(letterJobs) \in Nat /\ letterJobs' \in Seq(LetterRows)
      /\ \A j \in DOMAIN letterJobs : letterJobs'[j] = letterJobs[j]
      /\ DOMAIN letterJobs' = IF messagePlot.queue THEN DOMAIN letterJobs \cup {n} ELSE DOMAIN letterJobs
      /\ messagePlot.queue => letterJobs'[n] = job
  <2>1. letterJobs \in Seq(LetterRows) /\ DOMAIN letterJobs = 1..Len(letterJobs) /\ Len(letterJobs) \in Nat
    BY <1>1 DEF MessageTyped
  <2>2. CASE messagePlot.queue
    <3>1. letterJobs' = Append(letterJobs, job)
      BY <1>2, <2>2
    <3>2. letterJobs' \in Seq(LetterRows) /\ Len(letterJobs') = n /\ letterJobs'[n] = job
      BY <1>5, <2>1, <3>1
    <3>3. DOMAIN letterJobs' = 1..n /\ \A j \in 1..Len(letterJobs) : letterJobs'[j] = letterJobs[j]
      BY <1>5, <2>1, <3>1, <3>2
    <3> QED BY <2>1, <2>2, <3>2, <3>3
  <2>3. CASE ~messagePlot.queue
    BY <1>2, <2>1, <2>3
  <2> QED BY <2>2, <2>3
<1> HIDE DEF n
<1>8. MessageTyped'
  <2>1. routes' \in [Paths -> RouteRows]
    BY <1>1, <1>2, <1>3 DEF MessageTyped
  <2> QED BY <1>1, <1>2, <1>7, <2>1 DEF MessageTyped
<1>9. NobodyMarks'
  BY <1>1, <1>2 DEF NobodyMarks
<1>10. LettersTried'
  <2>1. \A j \in DOMAIN letterJobs' : j \in DOMAIN letterJobs \/ letterJobs'[j] = job
    BY <1>7
  <2>2. 1 <= setbacks + 1
    BY <1>1
  <2> QED BY <1>1, <1>2, <1>5, <1>7, <2>1, <2>2 DEF LettersTried
<1>11. LettersKeep /\ BellsKeep /\ \A q \in People : letters[q] \in Nat /\ letters[q] <= letters'[q]
  BY <1>1, <1>2, <1>5, <1>7, MessageTypes DEF LettersKeep, BellsKeep
<1>12. ASSUME NEW q \in People PROVE Bound(q)' + setbacks <= Bound(q) + setbacks'
  <2>1. BellsOf(q)' = BellsOf(q) /\ WaitingFor(q)' = WaitingFor(q) /\ letters'[q] = letters[q]
    BY <1>2, <1>5, <1>7 DEF BellsOf, WaitingFor, LettersFor
  <2>2. Cardinality(BellsOf(q)) \in Nat /\ Cardinality(WaitingFor(q)) \in Nat
    BY <1>1, MessageCounts
  <2>3. letters'[q] + Cardinality(BellsOf(q)') + Cardinality(WaitingFor(q)') + Brings(path, q)' + setbacks
           <= letters[q] + Cardinality(BellsOf(q)) + Cardinality(WaitingFor(q)) + Brings(path, q) + setbacks'
    BY <1>1, <1>2, <1>6, <1>11, <2>1, <2>2
  <2> QED BY <1>1, <1>2, <1>6, <1>8, <2>3, OnePathBound
<1>13. Told(p)' \/ Excused(path)'
  <2>1. CASE messagePlot.queue
    <3>1. n \in LettersFor(p)'
      BY <1>5, <1>7, <2>1 DEF LettersFor
    <3> QED BY <3>1 DEF Told
  <2>2. CASE ~messagePlot.queue
    <3>1. path = "direct"
      BY <1>6, <2>2 DEF MessageInv, PathsTell, Paths
    <3> QED BY <1>2, <2>2, <3>1 DEF Excused, Unheard
  <2> QED BY <2>1, <2>2
<1>14. setbacks <= setbacks'
  BY <1>1, <1>2
<1> QED BY <1>1, <1>2, <1>3, <1>6, <1>8, <1>9, <1>10, <1>11, <1>12, <1>13, <1>14, MessageMoves

LEMMA TellByBellStep ==
  ASSUME MessageInv, NEW path \in Paths, NEW p \in People, TellByBell(path, p)
  PROVE  MessageInv'
<1> DEFINE new == [routes[path] EXCEPT !.told = routes[path].told \cup {p}]
           n == Len(bells) + 1
           bell == [to |-> p, row |-> "unread"]
<1>1. MessageTyped /\ routes[path] \in RouteRows /\ tellInbox \in BOOLEAN /\ NobodyMarks /\ LettersTried /\ setbacks \in Nat
  BY MessageTypes DEF MessageInv, MessageTyped
<1>2. /\ Turn(path, p) /\ messagePlot.event.kind = "bell" /\ routes' = [routes EXCEPT ![path] = new]
      /\ bells' = Append(bells, bell)
      /\ UNCHANGED <<tellFlag, tellInbox, letters, letterJobs, breaker, marking, messagePlot, setbacks, unmarked>>
  BY DEF TellByBell
<1>3. new \in RouteRows
  BY <1>1 DEF RouteRows
<1>4. new = [routes[path] EXCEPT !.told = routes[path].told \cup {p}]
  OBVIOUS
<1>5. bell \in BellRows /\ bell.to = p
  BY DEF BellRows
<1> HIDE DEF new, bell
<1>6. /\ Brings(path, p)' + 1 = Brings(path, p)
      /\ \A q \in People : Brings(path, q)' <= Brings(path, q) /\ Brings(path, q) \in Nat /\ Brings(path, q)' \in Nat
      /\ new.at = "telling" /\ new.told = routes[path].told \cup {p} /\ routes[path].at = "telling"
      /\ PlotKeeps
  <2>1. tellFlag' = tellFlag /\ PlotKeeps /\ messagePlot.event.kind # "queued"
    BY <1>2 DEF PlotKeeps
  <2> QED BY <1>1, <1>2, <1>3, <1>4, <2>1, CountedBrings
<1>7. /\ DOMAIN bells = 1..Len(bells) /\ Len(bells) \in Nat /\ bells' \in Seq(BellRows) /\ Len(bells') = n
      /\ \A b \in DOMAIN bells : bells'[b] = bells[b]
      /\ DOMAIN bells' = DOMAIN bells \cup {n} /\ n \notin DOMAIN bells /\ bells'[n] = bell
      /\ \A i \in Nat : i <= Len(bells) => i <= n
  BY <1>1, <1>2, <1>5 DEF MessageTyped
<1> HIDE DEF n
<1>8. MessageTyped'
  <2>1. routes' \in [Paths -> RouteRows]
    BY <1>1, <1>2, <1>3 DEF MessageTyped
  <2>2. \A r \in Readers : marking'[r] <= Len(bells')
    BY <1>1, <1>2, <1>7 DEF MessageTyped
  <2> QED BY <1>1, <1>2, <1>7, <2>1, <2>2 DEF MessageTyped
<1>9. NobodyMarks'
  BY <1>1, <1>2, <1>7 DEF NobodyMarks
<1>10. LettersTried'
  BY <1>1, <1>2 DEF LettersTried
<1>11. LettersKeep /\ BellsKeep /\ \A q \in People : letters[q] \in Nat /\ letters[q] <= letters'[q]
  BY <1>1, <1>2, <1>7, MessageTypes DEF LettersKeep, BellsKeep
<1>12. ASSUME NEW q \in People PROVE Bound(q)' + setbacks <= Bound(q) + setbacks'
  <2>1. WaitingFor(q)' = WaitingFor(q) /\ letters'[q] = letters[q]
    BY <1>2 DEF WaitingFor, LettersFor
  <2>2. Cardinality(BellsOf(q)) \in Nat /\ Cardinality(WaitingFor(q)) \in Nat /\ IsFiniteSet(BellsOf(q))
    BY <1>1, MessageCounts
  <2>3. Cardinality(BellsOf(q)') \in Nat /\ Cardinality(BellsOf(q)') + Brings(path, q)' <= Cardinality(BellsOf(q)) + Brings(path, q)
    <3>1. CASE q = p
      <4>1. BellsOf(q)' = BellsOf(q) \cup {n} /\ n \notin BellsOf(q)
        BY <1>5, <1>7, <3>1 DEF BellsOf
      <4>2. Cardinality(BellsOf(q) \cup {n}) = Cardinality(BellsOf(q)) + 1
        BY <2>2, <4>1, FS_AddElement
      <4> QED BY <1>6, <2>2, <3>1, <4>1, <4>2
    <3>2. CASE q # p
      <4>1. BellsOf(q)' = BellsOf(q)
        BY <1>5, <1>7, <3>2 DEF BellsOf
      <4> QED BY <1>6, <2>2, <4>1
    <3> QED BY <3>1, <3>2
  <2>4. letters'[q] + Cardinality(BellsOf(q)') + Cardinality(WaitingFor(q)') + Brings(path, q)' + setbacks
           <= letters[q] + Cardinality(BellsOf(q)) + Cardinality(WaitingFor(q)) + Brings(path, q) + setbacks'
    <3> DEFINE B == Cardinality(BellsOf(q))
               BB == Cardinality(BellsOf(q)')
               W == Cardinality(WaitingFor(q))
               WW == Cardinality(WaitingFor(q)')
               R == Brings(path, q)
               RR == Brings(path, q)'
    <3>1. /\ WW = W /\ B \in Nat /\ BB \in Nat /\ W \in Nat /\ BB + RR <= B + R /\ R \in Nat /\ RR \in Nat
          /\ letters'[q] = letters[q] /\ letters[q] \in Nat /\ setbacks' = setbacks
      BY <1>2, <1>6, <1>11, <2>1, <2>2, <2>3
    <3> HIDE DEF B, BB, W, WW, R, RR
    <3>2. letters'[q] + BB + WW + RR + setbacks <= letters[q] + B + W + R + setbacks'
      BY <1>1, <3>1
    <3> QED BY <3>2 DEF B, BB, W, WW, R, RR
  <2> QED BY <1>1, <1>2, <1>6, <1>8, <2>4, OnePathBound
<1>13. Told(p)'
  <2>1. n \in BellsOf(p)'
    BY <1>5, <1>7 DEF BellsOf
  <2> QED BY <2>1 DEF Told
<1>14. setbacks <= setbacks'
  BY <1>1, <1>2
<1> QED BY <1>1, <1>2, <1>3, <1>6, <1>8, <1>9, <1>10, <1>11, <1>12, <1>13, <1>14, MessageMoves

LEMMA BothSidesGrow ==
  ASSUME NEW a \in Nat, NEW b \in Nat, NEW c \in Nat, NEW d \in Nat, NEW s \in Nat, NEW t \in Nat,
         NEW x \in Nat, NEW y \in Nat, a + b + s <= c + d + t
  PROVE  a + x + b + y + s <= c + x + d + y + t
OBVIOUS

(* The e-mail queue moves on, the paths and the notifications rest. *)
LEMMA LetterMoves ==
  ASSUME MessageInv, UNCHANGED <<tellFlag, routes, tellInbox, bells, marking, unmarked>>,
         letters' \in [People -> Nat], \A p \in People : letters[p] <= letters'[p],
         letterJobs' \in Seq(LetterRows), breaker' \in {"closed", "open", "half"},
         messagePlot' \in MessagePlotRows, PlotKeeps, setbacks' \in Nat, setbacks <= setbacks', LettersTried', LettersKeep,
         \A p \in People :
           letters'[p] + Cardinality(WaitingFor(p)') + setbacks <= letters[p] + Cardinality(WaitingFor(p)) + setbacks'
  PROVE  MessageInv'
<1>1. MessageTyped /\ NobodyMarks /\ setbacks \in Nat /\ tellInbox \in BOOLEAN
  BY DEF MessageInv, MessageTyped
<1>2. MessageTyped'
  BY <1>1 DEF MessageTyped
<1>3. NobodyMarks'
  BY <1>1 DEF NobodyMarks
<1>4. "direct" \in Paths /\ routes["direct"] \in RouteRows
  BY <1>1, MessageTypes DEF Paths
<1>5. routes' = [routes EXCEPT !["direct"] = routes["direct"]]
  BY <1>1, <1>4 DEF MessageTyped
<1>6. BellsKeep
  BY DEF BellsKeep
<1>7. ASSUME NEW p \in People PROVE Bound(p)' + setbacks <= Bound(p) + setbacks'
  <2>1. BellsOf(p)' = BellsOf(p) /\ Brings("direct", p)' = Brings("direct", p) /\ Brings("direct", p) \in Nat
    BY DEF BellsOf, Brings, Taken, PlotKeeps
  <2>2. Cardinality(BellsOf(p)) \in Nat /\ Cardinality(WaitingFor(p)) \in Nat /\ letters[p] \in Nat /\ letters'[p] \in Nat
    BY <1>1, MessageCounts, MessageTypes
  <2>3. Cardinality(WaitingFor(p)') \in Nat
    <3>1. WaitingFor(p)' \subseteq DOMAIN letterJobs'
      BY DEF WaitingFor, LettersFor
    <3> QED BY <3>1, IndicesAreFinite
  <2>4. letters'[p] + Cardinality(BellsOf(p)') + Cardinality(WaitingFor(p)') + Brings("direct", p)' + setbacks
           <= letters[p] + Cardinality(BellsOf(p)) + Cardinality(WaitingFor(p)) + Brings("direct", p) + setbacks'
    <3> DEFINE B == Cardinality(BellsOf(p))
               BB == Cardinality(BellsOf(p)')
               W == Cardinality(WaitingFor(p))
               WW == Cardinality(WaitingFor(p)')
               R == Brings("direct", p)
               RR == Brings("direct", p)'
    <3>1. letters'[p] + WW + setbacks <= letters[p] + W + setbacks'
      OBVIOUS
    <3>2. BB = B /\ B \in Nat /\ W \in Nat /\ WW \in Nat /\ R \in Nat /\ RR = R
      BY <2>1, <2>2, <2>3
    <3>3. letters[p] \in Nat /\ letters'[p] \in Nat /\ setbacks \in Nat /\ setbacks' \in Nat
      BY <1>1, <2>2
    <3>4. letters'[p] + B + WW + R + setbacks <= letters[p] + B + W + R + setbacks'
      <4> HIDE DEF B, W, WW, R
      <4> QED BY <3>1, <3>2, <3>3, BothSidesGrow
    <3> QED BY <3>2, <3>4
  <2> QED BY <1>1, <1>2, <1>4, <1>5, <2>4, OnePathBound
<1> QED BY <1>1, <1>2, <1>3, <1>4, <1>5, <1>6, <1>7, MessageMoves
(* A waiting job moves on. *)
LEMMA OneLetterMoves ==
  ASSUME MessageTyped, NEW j \in DOMAIN letterJobs, NEW new \in LetterRows, letterJobs' = [letterJobs EXCEPT ![j] = new],
         letterJobs[j].at = "waiting", new.to = letterJobs[j].to, new.says = letterJobs[j].says
  PROVE  /\ letterJobs' \in Seq(LetterRows) /\ LettersKeep /\ DOMAIN letterJobs' = DOMAIN letterJobs
         /\ \A i \in DOMAIN letterJobs : letterJobs'[i] = IF i = j THEN new ELSE letterJobs[i]
         /\ \A p : /\ Cardinality(WaitingFor(p)) \in Nat /\ Cardinality(WaitingFor(p)') \in Nat
                   /\ Cardinality(WaitingFor(p)') <= Cardinality(WaitingFor(p))
                   /\ p = letterJobs[j].to /\ new.says = "letter" /\ new.at # "waiting" =>
                        Cardinality(WaitingFor(p)') + 1 = Cardinality(WaitingFor(p))
<1>1. /\ letterJobs' \in Seq(LetterRows) /\ DOMAIN letterJobs' = DOMAIN letterJobs
      /\ \A i \in DOMAIN letterJobs : letterJobs'[i] = IF i = j THEN new ELSE letterJobs[i]
  BY DEF MessageTyped
<1>2. LettersKeep
  BY <1>1 DEF LettersKeep
<1>3. ASSUME NEW p
      PROVE  /\ Cardinality(WaitingFor(p)) \in Nat /\ Cardinality(WaitingFor(p)') \in Nat
             /\ Cardinality(WaitingFor(p)') <= Cardinality(WaitingFor(p))
             /\ p = letterJobs[j].to /\ new.says = "letter" /\ new.at # "waiting" =>
                  Cardinality(WaitingFor(p)') + 1 = Cardinality(WaitingFor(p))
  <2>1. IsFiniteSet(WaitingFor(p)) /\ Cardinality(WaitingFor(p)) \in Nat
    BY MessageCounts
  <2>2. CASE new.at = "waiting" \/ new.says # "letter" \/ p # letterJobs[j].to
    <3>1. WaitingFor(p)' = WaitingFor(p)
      BY <1>1, <2>2 DEF WaitingFor, LettersFor
    <3> QED BY <2>1, <2>2, <3>1
  <2>3. CASE p = letterJobs[j].to /\ new.says = "letter" /\ new.at # "waiting"
    <3>1. WaitingFor(p)' = WaitingFor(p) \ {j} /\ j \in WaitingFor(p)
      BY <1>1, <2>3 DEF WaitingFor, LettersFor
    <3>2. IsFiniteSet(WaitingFor(p) \ {j}) /\ Cardinality(WaitingFor(p) \ {j}) = Cardinality(WaitingFor(p)) - 1
      BY <2>1, <3>1, FS_RemoveElement
    <3>3. Cardinality(WaitingFor(p) \ {j}) \in Nat
      BY <3>2, FS_CardinalityType
    <3> QED BY <2>1, <3>1, <3>2, <3>3
  <2> QED BY <2>2, <2>3
<1> QED BY <1>1, <1>2, <1>3

LEMMA SendLetterStep ==
  ASSUME MessageInv, NEW j \in DOMAIN letterJobs, SendLetter(j)
  PROVE  MessageInv'
<1> DEFINE new == [letterJobs[j] EXCEPT !.at = "done"]
           p == letterJobs[j].to
<1>1. MessageTyped /\ LettersTried /\ letterJobs[j] \in LetterRows /\ p \in People
  BY MessageTypes DEF MessageInv
<1>2. /\ letterJobs[j].at = "waiting" /\ letterJobs[j].says = "letter" /\ SendSucceeds(p)
      /\ letterJobs' = [letterJobs EXCEPT ![j] = new]
      /\ UNCHANGED <<tellFlag, routes, tellInbox, bells, marking, unmarked>>
  BY DEF SendLetter, LetterWaits
<1>3. /\ new \in LetterRows /\ new.at = "done" /\ new.to = p /\ new.says = letterJobs[j].says
      /\ new.attempt = letterJobs[j].attempt
  BY <1>1 DEF LetterRows
<1> HIDE DEF new
<1>4. /\ letters' \in [People -> Nat] /\ breaker' \in {"closed", "open", "half"}
      /\ \A q \in People : letters[q] \in Nat /\ letters[q] <= letters'[q] /\ (q # p => letters'[q] = letters[q])
      /\ letters'[p] = letters[p] + 1 /\ messagePlot' \in MessagePlotRows /\ PlotKeeps
      /\ setbacks \in Nat
  BY <1>1, <1>2, SendTypes
<1>5. setbacks' = setbacks
  BY <1>2 DEF SendSucceeds
<1>6. /\ letterJobs' \in Seq(LetterRows) /\ LettersKeep /\ DOMAIN letterJobs' = DOMAIN letterJobs
      /\ \A i \in DOMAIN letterJobs : letterJobs'[i] = IF i = j THEN new ELSE letterJobs[i]
      /\ \A q : /\ Cardinality(WaitingFor(q)) \in Nat /\ Cardinality(WaitingFor(q)') \in Nat
                /\ Cardinality(WaitingFor(q)') <= Cardinality(WaitingFor(q))
                /\ q = p => Cardinality(WaitingFor(q)') + 1 = Cardinality(WaitingFor(q))
  BY <1>1, <1>2, <1>3, OneLetterMoves
<1>7. LettersTried'
  <2>1. \A i \in DOMAIN letterJobs : letterJobs[i].to \in People
    BY <1>1, MessageTypes
  <2>2. \A q \in People : letters[q] > 0 => letters'[q] > 0
    BY <1>4
  <2>3. letters'[p] > 0
    BY <1>1, <1>4
  <2> QED BY <1>1, <1>2, <1>3, <1>5, <1>6, <2>1, <2>2, <2>3 DEF LettersTried
<1>8. ASSUME NEW q \in People
      PROVE  letters'[q] + Cardinality(WaitingFor(q)') + setbacks <= letters[q] + Cardinality(WaitingFor(q)) + setbacks'
  <2>1. letters[q] \in Nat /\ letters'[q] \in Nat
    BY <1>4
  <2>2. CASE q = p
    BY <1>4, <1>5, <1>6, <2>1, <2>2
  <2>3. CASE q # p
    BY <1>4, <1>5, <1>6, <2>1, <2>3
  <2> QED BY <2>2, <2>3
<1>9. setbacks' \in Nat /\ setbacks <= setbacks'
  BY <1>4, <1>5
<1> QED BY <1>2, <1>4, <1>6, <1>7, <1>8, <1>9, LetterMoves

LEMMA QueueLetterAgainStep ==
  ASSUME MessageInv, NEW j \in DOMAIN letterJobs, QueueLetterAgain(j)
  PROVE  MessageInv'
<1> DEFINE new == [letterJobs[j] EXCEPT !.at = "done"]
           mid == [letterJobs EXCEPT ![j] = new]
           job == Job(letterJobs[j].to, "again")
           n == Len(letterJobs) + 1
<1>1. /\ MessageTyped /\ LettersTried /\ letterJobs[j] \in LetterRows /\ letterJobs[j].to \in People /\ setbacks \in Nat
      /\ letterJobs \in Seq(LetterRows) /\ DOMAIN letterJobs = 1..Len(letterJobs) /\ Len(letterJobs) \in Nat
  BY MessageTypes DEF MessageInv, MessageTyped
<1>2. /\ letterJobs[j].at = "waiting" /\ letterJobs[j].says = "again" /\ letterJobs' = Append(mid, job)
      /\ UNCHANGED <<tellFlag, routes, tellInbox, letters, breaker, bells, marking, messagePlot, setbacks, unmarked>>
  BY DEF QueueLetterAgain, LetterWaits
<1>3. /\ new \in LetterRows /\ new.at = "done" /\ new.to = letterJobs[j].to /\ new.says = "again"
      /\ new.attempt = letterJobs[j].attempt
  BY <1>1, <1>2 DEF LetterRows
<1>4. job \in LetterRows /\ job.says = "again" /\ job.at = "waiting" /\ job.attempt = 1
  <2>1. 1 \in 1..MailAttempts
    BY MessageAssumption
  <2> QED BY <1>1, <2>1 DEF Job, LetterRows
<1> HIDE DEF new, job
<1>5. mid \in Seq(LetterRows) /\ Len(mid) = Len(letterJobs)
  BY <1>1, <1>3
<1>6. \A i \in DOMAIN letterJobs : mid[i] = IF i = j THEN new ELSE letterJobs[i]
  BY <1>1
<1> HIDE DEF mid
<1>7. letterJobs' \in Seq(LetterRows) /\ Len(letterJobs') = n /\ letterJobs'[n] = job
  BY <1>1, <1>2, <1>4, <1>5
<1>8. DOMAIN letterJobs' = 1..n /\ \A i \in 1..Len(letterJobs) : letterJobs'[i] = mid[i]
  BY <1>1, <1>2, <1>4, <1>5, <1>7
<1>9. /\ DOMAIN letterJobs' = DOMAIN letterJobs \cup {n} /\ n \notin DOMAIN letterJobs
      /\ \A i \in DOMAIN letterJobs : letterJobs'[i] = IF i = j THEN new ELSE letterJobs[i]
  BY <1>1, <1>6, <1>8
<1> HIDE DEF n
<1>10. LettersKeep
  BY <1>2, <1>3, <1>4, <1>7, <1>9 DEF LettersKeep
<1>11. LettersTried'
  <2>1. 1 <= setbacks + 1
    BY <1>1
  <2> QED BY <1>1, <1>2, <1>3, <1>4, <1>7, <1>9, <2>1 DEF LettersTried
<1>12. ASSUME NEW q \in People
       PROVE  letters'[q] + Cardinality(WaitingFor(q)') + setbacks <= letters[q] + Cardinality(WaitingFor(q)) + setbacks'
  <2>1. WaitingFor(q)' = WaitingFor(q)
    BY <1>2, <1>3, <1>4, <1>7, <1>9 DEF WaitingFor, LettersFor
  <2>2. Cardinality(WaitingFor(q)) \in Nat /\ letters[q] \in Nat
    BY <1>1, MessageCounts, MessageTypes
  <2> QED BY <1>1, <1>2, <2>1, <2>2
<1>13. /\ letters' \in [People -> Nat] /\ \A q \in People : letters[q] <= letters'[q]
       /\ breaker' \in {"closed", "open", "half"} /\ messagePlot' \in MessagePlotRows /\ PlotKeeps /\ setbacks' \in Nat
       /\ setbacks <= setbacks'
  BY <1>1, <1>2, MessageTypes DEF MessageTyped, PlotKeeps
<1> QED BY <1>2, <1>7, <1>10, <1>11, <1>12, <1>13, LetterMoves

LEMMA LetterFailsStep ==
  ASSUME MessageInv, NEW j \in DOMAIN letterJobs, LetterFails(j)
  PROVE  MessageInv'
<1> DEFINE new == LetterAfterFailure(letterJobs[j])
           p == letterJobs[j].to
<1>1. /\ MessageTyped /\ LettersTried /\ letterJobs[j] \in LetterRows /\ p \in People
      /\ \A q \in People : letters[q] \in Nat
  BY MessageTypes DEF MessageInv
<1>2. /\ letterJobs[j].at = "waiting" /\ letterJobs' = [letterJobs EXCEPT ![j] = new]
      /\ UNCHANGED <<tellFlag, routes, tellInbox, bells, marking, unmarked>>
  BY DEF LetterFails
<1>3. letterJobs[j].attempt \in 1..MailAttempts /\ MailAttempts \in Nat
  BY <1>1, MessageTypes DEF LetterRows
<1>4. /\ new \in LetterRows /\ new.to = p /\ new.says = letterJobs[j].says
      /\ \/ new.at = "dead" /\ letterJobs[j].attempt = MailAttempts /\ new.attempt = letterJobs[j].attempt
         \/ new.at = "waiting" /\ new.attempt = letterJobs[j].attempt + 1
  <2>1. CASE letterJobs[j].attempt = MailAttempts
    <3>1. new = [letterJobs[j] EXCEPT !.at = "dead"]
      BY <2>1 DEF LetterAfterFailure
    <3> HIDE DEF new
    <3> QED BY <1>1, <2>1, <3>1 DEF LetterRows
  <2>2. CASE letterJobs[j].attempt # MailAttempts
    <3>1. new = [letterJobs[j] EXCEPT !.attempt = letterJobs[j].attempt + 1] /\ letterJobs[j].attempt + 1 \in 1..MailAttempts
      BY <1>3, <2>2 DEF LetterAfterFailure
    <3> HIDE DEF new
    <3> QED BY <1>1, <1>2, <3>1 DEF LetterRows
  <2> QED BY <2>1, <2>2
<1> HIDE DEF new
<1>5. /\ letters' \in [People -> Nat] /\ breaker' \in {"closed", "open", "half"}
      /\ \A q \in People : letters[q] <= letters'[q] /\ letters'[q] <= letters[q] + 1
      /\ messagePlot' \in MessagePlotRows /\ PlotKeeps
      /\ setbacks \in Nat /\ setbacks' = setbacks + 1
  <2>1. CASE SendFails(p)
    <3>1. setbacks' = setbacks + 1
      BY <1>1, <2>1, SetbackCosts DEF SendFails, JobAttemptFails
    <3> QED BY <1>1, <2>1, <3>1, SendTypes
  <2>2. CASE Setback /\ UNCHANGED <<breaker, letters>>
    <3>1. letters \in [People -> Nat] /\ breaker \in {"closed", "open", "half"}
      BY <1>1 DEF MessageTyped
    <3> QED BY <1>1, <2>2, <3>1, SetbackCosts
  <2> QED BY <2>1, <2>2 DEF LetterFails
<1>6. /\ letterJobs' \in Seq(LetterRows) /\ LettersKeep /\ DOMAIN letterJobs' = DOMAIN letterJobs
      /\ \A i \in DOMAIN letterJobs : letterJobs'[i] = IF i = j THEN new ELSE letterJobs[i]
      /\ \A q : /\ Cardinality(WaitingFor(q)) \in Nat /\ Cardinality(WaitingFor(q)') \in Nat
                /\ Cardinality(WaitingFor(q)') <= Cardinality(WaitingFor(q))
  BY <1>1, <1>2, <1>4, OneLetterMoves
<1>7. LettersTried'
  <2>1. \A i \in DOMAIN letterJobs : letterJobs[i].to \in People /\ letterJobs[i].attempt \in Nat
    BY <1>1, MessageTypes DEF LetterRows
  <2>2. \A q \in People : letters[q] > 0 => letters'[q] > 0
    BY <1>1, <1>5
  <2>3. letterJobs[j].attempt <= setbacks + 1
    BY <1>1 DEF LettersTried
  <2>4. /\ new.attempt <= setbacks' + 1 /\ (new.at = "dead" => setbacks' >= MailAttempts) /\ new.at # "done"
    BY <1>3, <1>4, <1>5, <2>3
  <2>5. ASSUME NEW i \in DOMAIN letterJobs, i # j
        PROVE  /\ letterJobs[i].attempt <= setbacks' + 1
               /\ letterJobs[i].at = "done" /\ letterJobs[i].says = "letter" => letters'[letterJobs[i].to] > 0
               /\ letterJobs[i].at = "dead" => setbacks' >= MailAttempts
    BY <1>1, <1>3, <1>5, <2>1, <2>2 DEF LettersTried
  <2> QED BY <1>6, <2>4, <2>5 DEF LettersTried
<1>8. ASSUME NEW q \in People
      PROVE  letters'[q] + Cardinality(WaitingFor(q)') + setbacks <= letters[q] + Cardinality(WaitingFor(q)) + setbacks'
  <2>1. letters[q] \in Nat /\ letters'[q] \in Nat
    BY <1>1, <1>5
  <2> QED BY <1>5, <1>6, <2>1
<1>9. setbacks' \in Nat /\ setbacks <= setbacks'
  BY <1>5
<1> QED BY <1>2, <1>5, <1>6, <1>7, <1>8, <1>9, LetterMoves

(* An e-mail that was sent, or tried, while its job stays. *)
LEMMA LetterTroubleStep ==
  ASSUME MessageInv, \/ \E j \in DOMAIN letterJobs : CrashLetter(j)
                     \/ \E p \in People : AttemptAgain(p)
                     \/ BreakerReset
  PROVE  MessageInv'
<1>1. /\ MessageTyped /\ LettersTried /\ setbacks \in Nat /\ letters \in [People -> Nat] /\ messagePlot \in MessagePlotRows
      /\ \A j \in DOMAIN letterJobs : letterJobs[j].to \in People
  BY MessageTypes DEF MessageInv, MessageTyped
<1>2. UNCHANGED <<tellFlag, routes, tellInbox, letterJobs, bells, marking, unmarked>> /\ letterJobs' \in Seq(LetterRows)
  BY <1>1 DEF CrashLetter, AttemptAgain, BreakerReset, MessageTyped
<1>3. /\ letters' \in [People -> Nat] /\ breaker' \in {"closed", "open", "half"}
      /\ messagePlot' \in MessagePlotRows /\ PlotKeeps
      /\ \/ letters' = letters /\ setbacks' = setbacks
         \/ \E p \in People : setbacks' = setbacks + 1 /\ LettersGrow(p)
  <2>1. ASSUME NEW j \in DOMAIN letterJobs, CrashLetter(j)
        PROVE  /\ letters' = [letters EXCEPT ![letterJobs[j].to] = @ + 1] /\ breaker' \in {"closed", "open", "half"}
               /\ messagePlot' \in MessagePlotRows /\ PlotKeeps /\ setbacks' = setbacks + 1
    BY <1>1, <2>1, SetbackCosts DEF CrashLetter, MessageTyped
  <2>2. ASSUME NEW p \in People, AttemptAgain(p)
        PROVE  /\ letters' \in [People -> Nat] /\ breaker' \in {"closed", "open", "half"}
               /\ messagePlot' \in MessagePlotRows /\ PlotKeeps /\ setbacks' = setbacks + 1 /\ LettersGrow(p)
    <3>1. JobAttemptFails(p)
      BY <2>2 DEF AttemptAgain
    <3>2. setbacks' = setbacks + 1
      BY <1>1, <3>1, SetbackCosts DEF JobAttemptFails
    <3> QED BY <1>1, <3>1, <3>2, SendTypes
  <2>3. BreakerReset => /\ letters' = letters /\ setbacks' = setbacks /\ messagePlot' = messagePlot /\ PlotKeeps
                        /\ breaker' \in {"closed", "open", "half"}
    BY DEF BreakerReset, PlotKeeps
  <2>4. CASE \E j \in DOMAIN letterJobs : CrashLetter(j)
    <3>1. PICK j \in DOMAIN letterJobs : CrashLetter(j)
      BY <2>4
    <3>2. letters' \in [People -> Nat] /\ LettersGrow(letterJobs[j].to)
      BY <1>1, <2>1, <3>1 DEF LettersGrow
    <3> QED BY <1>1, <2>1, <3>1, <3>2
  <2> QED BY <1>1, <2>2, <2>3, <2>4
<1>4. /\ \A q \in People : letters[q] \in Nat /\ letters'[q] \in Nat /\ letters[q] <= letters'[q]
      /\ \A q \in People : letters'[q] + setbacks <= letters[q] + setbacks'
      /\ setbacks' \in Nat /\ setbacks <= setbacks'
  <2>1. CASE letters' = letters /\ setbacks' = setbacks
    BY <1>1, <2>1
  <2>2. ASSUME NEW p \in People, setbacks' = setbacks + 1, LettersGrow(p)
        PROVE  /\ \A q \in People : letters[q] \in Nat /\ letters'[q] \in Nat /\ letters[q] <= letters'[q]
               /\ \A q \in People : letters'[q] + setbacks <= letters[q] + setbacks'
               /\ setbacks' \in Nat /\ setbacks <= setbacks'
    <3>1. CASE letters' = letters
      BY <1>1, <2>2, <3>1
    <3>2. CASE letters' = [letters EXCEPT ![p] = @ + 1]
      BY <1>1, <2>2, <3>2
    <3> QED BY <2>2, <3>1, <3>2 DEF LettersGrow
  <2> QED BY <1>3, <2>1, <2>2
<1>5. LettersTried'
  BY <1>1, <1>2, <1>4, LettersTriedStays
<1>6. LettersKeep
  BY <1>2 DEF LettersKeep
<1>7. ASSUME NEW q \in People
      PROVE  letters'[q] + Cardinality(WaitingFor(q)') + setbacks <= letters[q] + Cardinality(WaitingFor(q)) + setbacks'
  <2>1. WaitingFor(q)' = WaitingFor(q)
    BY <1>2 DEF WaitingFor, LettersFor
  <2>2. Cardinality(WaitingFor(q)) \in Nat
    BY <1>1, MessageCounts
  <2> QED BY <1>1, <1>4, <2>1, <2>2
<1> QED BY <1>2, <1>3, <1>4, <1>5, <1>6, <1>7, LetterMoves
(* The user's requests move, and everything else rests. *)
LEMMA BellMoves ==
  ASSUME MessageInv, UNCHANGED <<tellFlag, routes, tellInbox, letters, letterJobs, breaker, setbacks>>,
         bells' \in Seq(BellRows), Len(bells') = Len(bells), \A b \in DOMAIN bells : bells'[b].to = bells[b].to,
         marking' \in [Readers -> Nat], \A r \in Readers : marking'[r] <= Len(bells),
         messagePlot' \in MessagePlotRows, PlotKeeps, NobodyMarks'
  PROVE  MessageInv'
<1>1. MessageTyped /\ LettersTried /\ setbacks \in Nat /\ tellInbox \in BOOLEAN
  BY DEF MessageInv, MessageTyped
<1>2. DOMAIN bells' = DOMAIN bells
  BY <1>1 DEF MessageTyped
<1>3. MessageTyped'
  BY <1>1 DEF MessageTyped
<1>4. LettersTried'
  BY <1>1 DEF LettersTried
<1>5. "direct" \in Paths /\ routes["direct"] \in RouteRows
  BY <1>1, MessageTypes DEF Paths
<1>6. routes' = [routes EXCEPT !["direct"] = routes["direct"]]
  BY <1>1, <1>5 DEF MessageTyped
<1>7. BellsKeep /\ LettersKeep /\ \A p \in People : letters[p] <= letters'[p]
  BY <1>1, <1>2, MessageTypes DEF BellsKeep, LettersKeep
<1>8. ASSUME NEW p \in People PROVE Bound(p)' + setbacks <= Bound(p) + setbacks'
  <2>1. BellsOf(p)' = BellsOf(p)
    BY <1>2 DEF BellsOf
  <2>2. WaitingFor(p)' = WaitingFor(p) /\ letters'[p] = letters[p]
    BY DEF WaitingFor, LettersFor
  <2>3. \A path : Brings(path, p)' = Brings(path, p)
    BY DEF Brings, Taken, PlotKeeps
  <2>4. Bound(p)' = Bound(p)
    BY <2>1, <2>2, <2>3 DEF Bound
  <2>5. Bound(p) \in Nat
    <3>1. Cardinality(BellsOf(p)) \in Nat /\ Cardinality(WaitingFor(p)) \in Nat /\ letters[p] \in Nat
      BY <1>1, MessageCounts, MessageTypes
    <3>2. Brings("durable", p) \in Nat /\ Brings("direct", p) \in Nat
      BY DEF Brings
    <3> QED BY <3>1, <3>2 DEF Bound
  <2> QED BY <1>1, <2>4, <2>5
<1>9. setbacks <= setbacks' /\ tellFlag' = tellFlag /\ tellInbox' = tellInbox
  BY <1>1
<1> DEFINE new == routes["direct"]
<1>10. new \in RouteRows /\ routes' = [routes EXCEPT !["direct"] = new]
  BY <1>5, <1>6
<1>11. new.at = "absent" <=> routes["direct"].at = "absent"
  OBVIOUS
<1>12. \A p \in new.told : p \in routes["direct"].told \/ Told(p)' \/ Excused("direct")'
  OBVIOUS
<1>13. tellInbox' => tellInbox \/ ("direct" = "durable" /\ AllTold("direct"))
  BY <1>9
<1>14. setbacks' = 0 /\ Taken("direct") /\ new.at = "over" =>
         routes["direct"].at = "over" \/ ("direct" = "durable" /\ tellInbox) \/ AllTold("direct")
  OBVIOUS
<1> HIDE DEF new
<1> QED BY <1>1, <1>3, <1>4, <1>5, <1>7, <1>8, <1>9, <1>10, <1>11, <1>12, <1>13, <1>14, MessageMoves

LEMMA ChangeCosts ==
  ASSUME MessageTyped, Change \/ UNCHANGED messagePlot
  PROVE  messagePlot' \in MessagePlotRows /\ PlotKeeps
<1>1. messagePlot \in MessagePlotRows /\ messagePlot.changes \in Nat
  BY DEF MessageTyped, MessagePlotRows
<1>2. CASE Change
  <2>1. messagePlot' = [messagePlot EXCEPT !.changes = messagePlot.changes - 1] /\ messagePlot.changes - 1 \in Nat
    BY <1>1, <1>2 DEF Change
  <2> DEFINE Posts == Seq({Job(p, "letter") : p \in People})
             Events == [kind : {"mail", "queued", "bell", "none"}, to : 0..Cardinality(People)]
  <2>2. MessagePlotRows = [event : Events, posted : Posts, queue : BOOLEAN, durable : BOOLEAN, flips : Nat, faults : Nat, changes : Nat]
    BY DEF MessagePlotRows
  <2> HIDE DEF Posts, Events
  <2> QED BY <1>1, <2>1, <2>2 DEF PlotKeeps
<1>3. CASE UNCHANGED messagePlot
  BY <1>1, <1>3 DEF PlotKeeps
<1> QED BY <1>2, <1>3

LEMMA MarkingStep ==
  ASSUME MessageInv, \E r \in Readers : SaveBell(r) \/ \E b \in DOMAIN bells : LoadBell(r, b)
  PROVE  MessageInv'
<1>1. /\ MessageTyped /\ NobodyMarks /\ bells \in Seq(BellRows) /\ DOMAIN bells = 1..Len(bells) /\ Len(bells) \in Nat
      /\ marking \in [Readers -> Nat] /\ \A r \in Readers : marking[r] <= Len(bells)
  BY MessageTypes DEF MessageInv, MessageTyped
<1>2. PICK r \in Readers : SaveBell(r) \/ \E b \in DOMAIN bells : LoadBell(r, b)
  OBVIOUS
<1>3. ASSUME SaveBell(r) PROVE MessageInv'
  <2> DEFINE m == marking[r]
  <2>1. /\ m # 0 /\ bells' = [bells EXCEPT ![m].row = "read"] /\ marking' = [marking EXCEPT ![r] = 0]
        /\ UNCHANGED <<tellFlag, routes, tellInbox, letters, letterJobs, breaker, messagePlot, setbacks, unmarked>>
    BY <1>3 DEF SaveBell
  <2>2. m \in DOMAIN bells /\ bells[m] \in BellRows
    BY <1>1, <2>1
  <2>3. bells' = [bells EXCEPT ![m] = [bells[m] EXCEPT !.row = "read"]]
    BY <2>1
  <2> DEFINE new == [bells[m] EXCEPT !.row = "read"]
  <2>4. new \in BellRows /\ new.to = bells[m].to
    BY <2>2 DEF BellRows
  <2>5. bells' = [bells EXCEPT ![m] = new]
    BY <2>3
  <2> HIDE DEF new
  <2>6. /\ bells' \in Seq(BellRows) /\ Len(bells') = Len(bells)
        /\ \A b \in DOMAIN bells : bells'[b] = IF b = m THEN new ELSE bells[b]
    BY <1>1, <2>2, <2>4, <2>5
  <2>7. /\ marking' \in [Readers -> Nat] /\ \A q \in Readers : marking'[q] = IF q = r THEN 0 ELSE marking[q]
    BY <1>1, <2>1
  <2>8. DOMAIN bells' = DOMAIN bells
    BY <1>1, <2>6
  <2>9. NobodyMarks'
    BY <1>1, <1>2, <2>1, <2>2, <2>6, <2>7, <2>8 DEF NobodyMarks
  <2>10. \A q \in Readers : marking'[q] <= Len(bells)
    BY <1>1, <2>7
  <2>11. \A b \in DOMAIN bells : bells'[b].to = bells[b].to
    BY <2>4, <2>6
  <2>12. messagePlot' \in MessagePlotRows /\ PlotKeeps
    BY <1>1, <2>1, ChangeCosts
  <2> QED BY <2>1, <2>6, <2>7, <2>9, <2>10, <2>11, <2>12, BellMoves
<1>4. ASSUME NEW b \in DOMAIN bells, LoadBell(r, b) PROVE MessageInv'
  <2>1. /\ bells[b].row = "unread" /\ Change /\ marking' = [marking EXCEPT ![r] = b]
        /\ UNCHANGED <<tellFlag, routes, tellInbox, letters, letterJobs, breaker, bells, setbacks, unmarked>>
    BY <1>4 DEF LoadBell
  <2>2. b \in Nat /\ b <= Len(bells)
    BY <1>1
  <2>3. marking' \in [Readers -> Nat] /\ \A q \in Readers : marking'[q] = IF q = r THEN b ELSE marking[q]
    BY <1>1, <2>1, <2>2
  <2>4. \A q \in Readers : marking'[q] <= Len(bells)
    BY <1>1, <2>2, <2>3
  <2>5. NobodyMarks'
    BY <1>1, <2>1, <2>3 DEF NobodyMarks
  <2>6. messagePlot' \in MessagePlotRows /\ PlotKeeps
    BY <1>1, <2>1, ChangeCosts
  <2> QED BY <1>1, <2>1, <2>3, <2>4, <2>5, <2>6, BellMoves
<1> QED BY <1>2, <1>3, <1>4

LEMMA BellRowsStep ==
  ASSUME MessageInv, (\E p \in People : MarkAllRead(p)) \/ \E b \in DOMAIN bells : DeleteBell(b)
  PROVE  MessageInv'
<1>1. /\ MessageTyped /\ NobodyMarks /\ bells \in Seq(BellRows) /\ DOMAIN bells = 1..Len(bells) /\ Len(bells) \in Nat
      /\ marking \in [Readers -> Nat] /\ \A r \in Readers : marking[r] <= Len(bells)
      /\ \A b \in DOMAIN bells : bells[b] \in BellRows
  BY MessageTypes DEF MessageInv, MessageTyped
<1>2. ASSUME NEW p \in People, MarkAllRead(p) PROVE MessageInv'
  <2>1. /\ Change /\ bells' = [b \in DOMAIN bells |-> IF bells[b].to = p THEN AllRead(bells[b]) ELSE bells[b]]
        /\ UNCHANGED <<tellFlag, routes, tellInbox, letters, letterJobs, breaker, marking, setbacks, unmarked>>
    BY <1>2 DEF MarkAllRead
  <2>2. ASSUME NEW b \in DOMAIN bells
        PROVE  /\ bells'[b] \in BellRows /\ bells'[b].to = bells[b].to
               /\ bells[b].row = "deleted" => bells'[b].row = "deleted"
    <3>1. bells[b] \in BellRows
      BY <1>1
    <3>2. AllRead(bells[b]) \in BellRows /\ AllRead(bells[b]).to = bells[b].to /\ (bells[b].row = "deleted" => AllRead(bells[b]) = bells[b])
      BY <3>1 DEF AllRead, BellRows
    <3>3. bells'[b] = IF bells[b].to = p THEN AllRead(bells[b]) ELSE bells[b]
      BY <2>1
    <3> QED BY <3>1, <3>2, <3>3
  <2>3. DOMAIN bells' = 1..Len(bells)
    BY <1>1, <2>1
  <2>4. bells' \in [1..Len(bells) -> BellRows]
    BY <1>1, <2>1, <2>2, <2>3
  <2>5. bells' \in Seq(BellRows) /\ Len(bells') = Len(bells)
    BY <1>1, <2>3, <2>4
  <2>6. NobodyMarks'
    BY <1>1, <2>1, <2>2, <2>3 DEF NobodyMarks
  <2>7. messagePlot' \in MessagePlotRows /\ PlotKeeps
    BY <1>1, <2>1, ChangeCosts
  <2> QED BY <1>1, <2>1, <2>2, <2>5, <2>6, <2>7, BellMoves
<1>3. ASSUME NEW c \in DOMAIN bells, DeleteBell(c) PROVE MessageInv'
  <2> DEFINE new == [bells[c] EXCEPT !.row = "deleted"]
  <2>1. /\ Change /\ bells' = [bells EXCEPT ![c] = new]
        /\ unmarked' = IF \A r \in Readers : marking[r] # c THEN unmarked \cup {c} ELSE unmarked
        /\ UNCHANGED <<tellFlag, routes, tellInbox, letters, letterJobs, breaker, marking, setbacks>>
    BY <1>3 DEF DeleteBell
  <2>2. new \in BellRows /\ new.to = bells[c].to /\ new.row = "deleted"
    BY <1>1 DEF BellRows
  <2> HIDE DEF new
  <2>3. /\ bells' \in Seq(BellRows) /\ Len(bells') = Len(bells)
        /\ \A b \in DOMAIN bells : bells'[b] = IF b = c THEN new ELSE bells[b]
    BY <1>1, <2>1, <2>2
  <2>4. DOMAIN bells' = DOMAIN bells
    BY <1>1, <2>3
  <2>5. NobodyMarks'
    <3> SUFFICES ASSUME NEW b \in unmarked'
                 PROVE  b \in DOMAIN bells' /\ bells'[b].row = "deleted" /\ \A r \in Readers : marking'[r] # b
      BY DEF NobodyMarks
    <3>1. CASE b \in unmarked
      BY <1>1, <2>1, <2>2, <2>3, <2>4, <3>1 DEF NobodyMarks
    <3>2. CASE b \notin unmarked
      <4>1. b = c /\ \A r \in Readers : marking[r] # c
        BY <2>1, <3>2
      <4> QED BY <2>1, <2>2, <2>3, <2>4, <4>1
    <3> QED BY <3>1, <3>2
  <2>6. messagePlot' \in MessagePlotRows /\ PlotKeeps
    BY <1>1, <2>1, ChangeCosts
  <2>7. \A b \in DOMAIN bells : bells'[b].to = bells[b].to
    BY <2>2, <2>3
  <2> QED BY <1>1, <2>1, <2>3, <2>5, <2>6, <2>7, BellMoves
<1> QED BY <1>2, <1>3

(* The switch lets the other path bring what this one no longer does. *)
LEMMA FlipTellFlagStep ==
  ASSUME MessageInv, FlipTellFlag
  PROVE  MessageInv'
<1>1. /\ MessageTyped /\ NobodyMarks /\ LettersTried /\ setbacks \in Nat /\ messagePlot \in MessagePlotRows
      /\ messagePlot.flips \in Nat /\ tellFlag \in BOOLEAN
  BY DEF MessageInv, MessageTyped, MessagePlotRows
<1>2. /\ tellFlag' = ~tellFlag /\ messagePlot' = [messagePlot EXCEPT !.flips = messagePlot.flips - 1]
      /\ messagePlot.flips - 1 \in Nat /\ setbacks' = setbacks + 1
      /\ UNCHANGED <<routes, tellInbox, letters, letterJobs, breaker, bells, marking, unmarked>>
  BY <1>1 DEF FlipTellFlag
<1>3. messagePlot' \in MessagePlotRows /\ PlotKeeps
  <2> DEFINE Posts == Seq({Job(p, "letter") : p \in People})
             Events == [kind : {"mail", "queued", "bell", "none"}, to : 0..Cardinality(People)]
  <2>1. MessagePlotRows = [event : Events, posted : Posts, queue : BOOLEAN, durable : BOOLEAN, flips : Nat, faults : Nat, changes : Nat]
    BY DEF MessagePlotRows
  <2> HIDE DEF Posts, Events
  <2> QED BY <1>1, <1>2, <2>1 DEF PlotKeeps
<1>4. MessageTyped'
  BY <1>1, <1>2, <1>3 DEF MessageTyped
<1>5. NobodyMarks'
  BY <1>1, <1>2 DEF NobodyMarks
<1>6. LettersTried' /\ setbacks <= setbacks' /\ setbacks' > 0
  <2>1. \A q \in People : letters[q] \in Nat /\ letters'[q] \in Nat /\ letters[q] <= letters'[q]
    BY <1>1, <1>2, MessageTypes
  <2> QED BY <1>1, <1>2, <2>1, LettersTriedStays
<1>7. "direct" \in Paths /\ routes["direct"] \in RouteRows /\ routes' = [routes EXCEPT !["direct"] = routes["direct"]]
  BY <1>1, <1>2, MessageTypes DEF Paths, MessageTyped
<1>8. LettersKeep /\ BellsKeep /\ \A p \in People : letters[p] <= letters'[p]
  BY <1>1, <1>2, MessageTypes DEF BellsKeep, LettersKeep
<1>9. ASSUME NEW p \in People PROVE Bound(p)' + setbacks <= Bound(p) + setbacks'
  <2> DEFINE a == letters[p] + Cardinality(BellsOf(p)) + Cardinality(WaitingFor(p))
             b == letters'[p] + Cardinality(BellsOf(p)') + Cardinality(WaitingFor(p)')
  <2>1. b = a /\ a \in Nat
    <3>1. BellsOf(p)' = BellsOf(p) /\ WaitingFor(p)' = WaitingFor(p) /\ letters'[p] = letters[p]
      BY <1>2 DEF BellsOf, WaitingFor, LettersFor
    <3>2. Cardinality(BellsOf(p)) \in Nat /\ Cardinality(WaitingFor(p)) \in Nat /\ letters[p] \in Nat
      BY <1>1, MessageCounts, MessageTypes
    <3> QED BY <3>1, <3>2
  <2>2. Bound(p) = a + Brings("durable", p) + Brings("direct", p) /\ Bound(p)' = b + Brings("durable", p)' + Brings("direct", p)'
    BY DEF Bound
  <2> HIDE DEF a, b
  <2>3. /\ Taken("durable") <=> tellFlag
        /\ Taken("direct") <=> ~tellFlag
        /\ Taken("durable")' <=> ~tellFlag
        /\ Taken("direct")' <=> tellFlag
    BY <1>1, <1>2 DEF Taken
  <2>4. Brings("durable", p)' + Brings("direct", p)' <= Brings("durable", p) + Brings("direct", p) + 1
    BY <1>2, <1>3, <2>3 DEF Brings, PlotKeeps
  <2>5. /\ Brings("durable", p) \in Nat /\ Brings("direct", p) \in Nat
        /\ Brings("durable", p)' \in Nat /\ Brings("direct", p)' \in Nat
    BY DEF Brings
  <2> QED BY <1>1, <1>2, <2>1, <2>2, <2>4, <2>5
<1> QED BY <1>1, <1>2, <1>3, <1>4, <1>5, <1>6, <1>7, <1>8, <1>9, MessageMoves

LEMMA MessageStep == MessageInv /\ [MessageNext]_messageVars => MessageInv'
<1> SUFFICES ASSUME MessageInv, [MessageNext]_messageVars PROVE MessageInv'
  OBVIOUS
<1>1. CASE FlipTellFlag
  BY <1>1, FlipTellFlagStep
<1>2. CASE BreakerReset \/ (\E p \in People : AttemptAgain(p)) \/ \E j \in DOMAIN letterJobs : CrashLetter(j)
  BY <1>2, LetterTroubleStep
<1>3. ASSUME NEW path \in Paths, StartRoute(path) \/ FinishRoute(path) \/ CrashRoute(path) PROVE MessageInv'
  BY <1>3, StartRouteStep, FinishRouteStep, RouteFailsStep
<1>4. ASSUME NEW path \in Paths, NEW p \in People,
             \/ TellByMail(path, p) \/ MailNotSent(path, p) \/ TellByQueue(path, p)
             \/ TellByBell(path, p) \/ NotTold(path, p)
      PROVE  MessageInv'
  <2>1. CASE TellByMail(path, p) \/ MailNotSent(path, p)
    BY <2>1, TellByMailStep, MailNotSentStep
  <2>2. CASE TellByQueue(path, p)
    BY <2>2, TellByQueueStep
  <2>3. CASE TellByBell(path, p)
    BY <2>3, TellByBellStep
  <2>4. CASE NotTold(path, p)
    BY <2>4, RouteFailsStep
  <2> QED BY <1>4, <2>1, <2>2, <2>3, <2>4
<1>5. ASSUME NEW j \in DOMAIN letterJobs, SendLetter(j) \/ QueueLetterAgain(j) \/ LetterFails(j) PROVE MessageInv'
  BY <1>5, SendLetterStep, QueueLetterAgainStep, LetterFailsStep
<1>6. CASE \E r \in Readers : SaveBell(r) \/ \E b \in DOMAIN bells : LoadBell(r, b)
  BY <1>6, MarkingStep
<1>7. CASE (\E p \in People : MarkAllRead(p)) \/ \E b \in DOMAIN bells : DeleteBell(b)
  BY <1>7, BellRowsStep
<1>8. CASE UNCHANGED messageVars
  <2>1. UNCHANGED <<tellFlag, routes, tellInbox, letters, letterJobs, breaker, bells, marking, messagePlot, setbacks, unmarked>>
    BY <1>8 DEF messageVars
  <2>2. MessageTyped /\ NobodyMarks
    BY DEF MessageInv
  <2>3. NobodyMarks' /\ messagePlot' \in MessagePlotRows /\ PlotKeeps
    BY <2>1, <2>2, ChangeCosts DEF NobodyMarks
  <2> QED BY <2>1, <2>2, <2>3, BellMoves DEF MessageTyped
<1> QED BY <1>1, <1>2, <1>3, <1>4, <1>5, <1>6, <1>7, <1>8 DEF MessageNext

LEMMA MessageInvSuffices == MessageInv => MessageTypeOK /\ MessagesArrive
<1> SUFFICES ASSUME MessageInv PROVE MessageTypeOK /\ MessagesArrive
  OBVIOUS
<1> USE DEF MessageInv
<1>1. MessageTypeOK
  <2>1. \A r \in Readers : marking[r] \in 0..Len(bells)
    BY MessageTypes DEF MessageTyped
  <2>2. \A path \in Paths : /\ routes[path].at \in {"absent", "due", "telling", "over", "dead"}
                            /\ routes[path].told \subseteq People /\ routes[path].attempt \in 1..OutboxAttempts
    BY MessageTypes DEF RouteRows
  <2>3. \A j \in DOMAIN letterJobs : letterJobs[j].to \in People /\ letterJobs[j].attempt \in 1..MailAttempts
    BY MessageTypes DEF LetterRows
  <2>4. \A b \in DOMAIN bells : bells[b].to \in People /\ bells[b].row \in {"unread", "read", "deleted"}
    BY MessageTypes DEF BellRows
  <2> QED BY <2>1, <2>2, <2>3, <2>4 DEF MessageTypeOK, MessageTyped
<1>2. EverybodyTold
  <2>1. tellInbox => \A p \in 1..messagePlot.event.to : Told(p)
    BY DEF PathsTell
  <2>2. \A j \in DOMAIN letterJobs :
          /\ letterJobs[j].at = "done" /\ letterJobs[j].says = "letter" => letters[letterJobs[j].to] > 0
          /\ letterJobs[j].at = "dead" => setbacks >= MailAttempts
    BY DEF LettersTried
  <2>3. ASSUME Reachable, setbacks = 0, \A path \in Paths : routes[path].at \in {"over", "absent"},
               NEW p \in 1..messagePlot.event.to
        PROVE  Told(p)
    <3>1. PICK path \in Paths : Taken(path) /\ routes[path].at # "absent"
      BY <2>3 DEF Taken, Paths, PathsTell, Reachable, MessageTyped
    <3>2. Told(p) \/ Unheard
      BY <2>3, <3>1 DEF PathsTell
    <3>3. ~Unheard
      BY <2>3 DEF Unheard, Reachable
    <3> QED BY <3>2, <3>3
  <2> QED BY <2>1, <2>2, <2>3 DEF EverybodyTold
<1>3. ToldAgainForAReason
  <2> SUFFICES ASSUME NEW p \in People PROVE letters[p] + Cardinality(BellsOf(p)) <= Owed(p) + setbacks
    BY DEF ToldAgainForAReason
  <2>1. /\ Cardinality(BellsOf(p)) \in Nat /\ Cardinality(WaitingFor(p)) \in Nat /\ Owed(p) \in Nat
        /\ letters[p] \in Nat /\ setbacks \in Nat /\ Brings("durable", p) \in Nat /\ Brings("direct", p) \in Nat
    <3>1. Brings("durable", p) \in Nat /\ Brings("direct", p) \in Nat
      BY DEF Brings
    <3>2. letters[p] \in Nat /\ setbacks \in Nat
      BY MessageTypes DEF MessageTyped
    <3> QED BY <3>1, <3>2, MessageCounts
  <2>2. letters[p] + Cardinality(BellsOf(p)) + Cardinality(WaitingFor(p)) + Brings("durable", p) + Brings("direct", p) <= Owed(p) + setbacks
    BY DEF CopiesBounded, Bound
  <2> QED BY <2>1, <2>2
<1>4. DeletedBellsStay
  BY DEF DeletedBellsStay, NobodyMarks
<1> QED BY <1>1, <1>2, <1>3, <1>4 DEF MessagesArrive

(* Whatever number of people, jobs, readers and setbacks: what the inbox   *)
(* has, everybody was told; a letter that is done was sent; every copy but *)
(* the one owed has a setback behind it; without setbacks nobody is left   *)
(* out, and a notification nobody was marking stays deleted.               *)
THEOREM MessagesAlwaysArrive == MessageSpec => [](MessageTypeOK /\ MessagesArrive)
<1>1. MessageInit => MessageInv
  BY MessagesInitially
<1>2. MessageInv /\ [MessageNext]_messageVars => MessageInv'
  BY MessageStep
<1>3. MessageInv => MessageTypeOK /\ MessagesArrive
  BY MessageInvSuffices
<1> QED BY <1>1, <1>2, <1>3, PTL DEF MessageSpec
------------------------------------------------------------------------------
(* The schedule: what a request found under the booking's lock is still so *)
(* when it saves, or the request is marked stale; one request at a time    *)
(* holds a booking; slots overlap only where their requests did.           *)
GigRows == [status : {"NONE", "DRAFT", "CONFIRMED", "CLOSED"}, week : Nat, start : Nat]
TaskRows == [started : BOOLEAN, lead : Staff \cup {NoEmployee}, team : SUBSET Staff, chief : Staff \cup {NoEmployee}]
SlotIds == {s.id : s \in UNION {plot.slots : plot \in SchedulePlots}} \cup GigRequests
SlotRows == [id : SlotIds, user : Staff, from : Nat, till : Nat, first : Nat, last : Nat, by : Nat]
GigKinds == {"none", "create", "edit", "confirm", "move", "slot"}
GigPlaces == {"idle", "done", "read", "lock", "roster", "busy", "granted", "refused", "save", "compare", "write"}
OpRows == [kind : GigKinds, at : GigPlaces, gig : GigRows, of : Gigs \cup {NoEmployee}, free : SUBSET Staff,
           task : TaskRows, slot : SlotRows \cup {NoEmployee}, stale : BOOLEAN, behind : BOOLEAN]

SomePlot == \E plot \in SchedulePlots : \E n \in Nat : schedulePlot = [plot EXCEPT !.changes = n]
ScheduleTyped ==
  /\ onDuty \subseteq Staff
  /\ slots \subseteq SlotRows /\ \A s \in slots : s.from < s.till /\ s.first <= s.last
  /\ gigs \in [Gigs -> GigRows]
  /\ gigTask \in [Gigs -> TaskRows]
  /\ gigOp \in [GigRequests -> OpRows]
  /\ SomePlot

(* What a request found still is so, unless it went stale. *)
But(o) == IF gigOp[o].kind = "move" THEN gigOp[o].of ELSE NoEmployee
RosterOf(o) == ScheduledUsers(gigOp[o].gig)
AbleOf(o) == RosterOf(o) \ BusyUsers(RosterOf(o), gigOp[o].gig, But(o))
VerdictOf(o) ==
  ~gigOp[o].stale =>
    /\ OpIs(o, "busy") => gigOp[o].free = RosterOf(o)
    /\ OpIs(o, "granted") => Cardinality(AbleOf(o)) >= schedulePlot.required
    /\ OpIs(o, "refused") => \/ Cardinality(RosterOf(o)) < schedulePlot.required
                             \/ Cardinality(AbleOf(o)) < schedulePlot.required

(* The row a request is about. *)
Creating(o) == Underway(o) /\ gigOp[o].kind = "create"
Holding(o) == gigOp[o].kind \in {"confirm", "move"} /\ Underway(o) /\ ~OpIs(o, "lock")
RowOf(o) ==
  LET op == gigOp[o] IN
  /\ Underway(o) => op.kind # "none" /\ (op.kind # "slot" => op.of \in Gigs)
  /\ Creating(o) => gigs[op.of].status = "NONE"
  /\ Underway(o) /\ op.kind \in {"edit", "confirm", "move"} => gigs[op.of].status # "NONE"
  /\ OpIs(o, "lock") => op.kind \in {"confirm", "move"}
  /\ OpIs(o, "save") => op.kind = "move"
  /\ OpIs(o, "read") => op.kind = "edit"
  /\ Holding(o) /\ op.kind = "confirm" => gigs[op.of].status = "DRAFT"
  /\ Underway(o) /\ op.kind = "edit" /\ ~OpIs(o, "read") /\ ~op.behind => gigs[op.of].status = "DRAFT"
  /\ OpIs(o, "save") /\ ~op.behind => ~gigTask[op.of].started

(* A slot was compared with all that are there but those of requests that  *)
(* overlapped its own.                                                     *)
SlotOf(o) ==
  LET mine == gigOp[o].slot IN
  /\ gigOp[o].at \in {"compare", "write"} <=> gigOp[o].kind = "slot"
  /\ gigOp[o].kind = "slot" => mine \in SlotRows /\ mine.by = o /\ mine.from < mine.till /\ mine.first <= mine.last
  /\ OpIs(o, "write") => \A s \in slots : s.id # mine.id /\ s.user = mine.user =>
                           ~SlotsMeet(mine, s) \/ {o, s.by} \in slotRaces

(* No two hold one booking, create one booking; two slots in hand overlap. *)
NotBoth(o, p) ==
  /\ Holding(o) /\ Holding(p) => gigOp[o].of # gigOp[p].of
  /\ Creating(o) /\ Creating(p) => gigOp[o].of # gigOp[p].of
  /\ gigOp[o].kind = "slot" /\ gigOp[p].kind = "slot" => {o, p} \in slotRaces
OnlyOne == \A o, p \in GigRequests : o # p => NotBoth(o, p)

SlotsApart ==
  \A s, t \in slots : s.id # t.id /\ s.user = t.user /\ {s.by, t.by} \notin slotRaces => ~SlotsMeet(s, t)

ScheduleInv ==
  /\ ScheduleTyped /\ OnlyOne /\ SlotsApart
  /\ \A o \in GigRequests : VerdictOf(o) /\ RowOf(o) /\ SlotOf(o)

LEMMA ScheduleTypes ==
  ASSUME ScheduleTyped, NEW o \in GigRequests
  PROVE  /\ gigOp[o] \in OpRows /\ gigOp[o].kind \in GigKinds /\ gigOp[o].at \in GigPlaces /\ gigOp[o].gig \in GigRows
         /\ gigOp[o].of \in Gigs \cup {NoEmployee} /\ gigOp[o].free \in SUBSET Staff /\ gigOp[o].task \in TaskRows
         /\ gigOp[o].slot \in SlotRows \cup {NoEmployee} /\ gigOp[o].stale \in BOOLEAN /\ gigOp[o].behind \in BOOLEAN
<1>1. gigOp[o] \in OpRows
  BY DEF ScheduleTyped
<1> HIDE DEF ScheduleTyped
<1> QED BY <1>1 DEF OpRows

LEMMA PlotTypes ==
  ASSUME SomePlot
  PROVE  /\ schedulePlot.required \in Nat /\ schedulePlot.hours \in Nat /\ schedulePlot.hours >= 1
         /\ schedulePlot.changes \in Nat
         /\ schedulePlot.shapes \subseteq [from : Nat, till : Nat, first : Nat, last : Nat]
         /\ schedulePlot.times.weeks \subseteq Nat /\ schedulePlot.times.starts \subseteq Nat
<1>1. PICK plot \in SchedulePlots : \E n \in Nat : schedulePlot = [plot EXCEPT !.changes = n]
  BY DEF SomePlot
<1>2. PICK n \in Nat : schedulePlot = [plot EXCEPT !.changes = n]
  BY <1>1
<1>3. plot \in [kinds : SUBSET {"create", "edit", "confirm", "move", "createSlot", "updateSlot"}, requests : Nat,
                    drafts : SUBSET Gigs, times : [weeks : SUBSET Nat, starts : SUBSET Nat], hours : Nat \ {0},
                    required : Nat, slots : {plot.slots}, shapes : SUBSET [from : Nat, till : Nat, first : Nat, last : Nat],
                    others : SUBSET {"team", "assign", "start", "close", "duty", "slots"}, changes : Nat]
  BY ScheduleAssumption
<1>4. /\ plot.required \in Nat /\ plot.hours \in Nat \ {0}
      /\ plot.shapes \subseteq [from : Nat, till : Nat, first : Nat, last : Nat]
      /\ plot.times \in [weeks : SUBSET Nat, starts : SUBSET Nat]
  BY <1>3
<1>5. /\ schedulePlot.required = plot.required /\ schedulePlot.hours = plot.hours /\ schedulePlot.changes = n
      /\ schedulePlot.shapes = plot.shapes /\ schedulePlot.times = plot.times
  BY <1>2, <1>3
<1> QED BY <1>4, <1>5

(* The users a request may count on do not change as long as the world     *)
(* and what it asks for do not.                                            *)
LEMMA SameWorld ==
  ASSUME onDuty' = onDuty, slots' = slots, gigs' = gigs, gigTask' = gigTask, schedulePlot' = schedulePlot,
         NEW o \in GigRequests,
         gigOp'[o].gig = gigOp[o].gig, gigOp'[o].kind = gigOp[o].kind, gigOp'[o].of = gigOp[o].of
  PROVE  RosterOf(o)' = RosterOf(o) /\ AbleOf(o)' = AbleOf(o)
<1>1. RosterOf(o)' = RosterOf(o)
  BY DEF RosterOf, ScheduledUsers, SlotOnDay, Till
<1>2. But(o)' = But(o)
  BY DEF But
<1>3. BusyUsers(RosterOf(o), gigOp[o].gig, But(o))' = BusyUsers(RosterOf(o), gigOp[o].gig, But(o))
  BY <1>1, <1>2 DEF BusyUsers, Others, Clash, Overlap, Till, Assigned
<1> QED BY <1>1, <1>3 DEF AbleOf

LEMMA RosterIsFinite ==
  ASSUME ScheduleTyped, NEW o \in GigRequests
  PROVE  /\ RosterOf(o) \subseteq Staff /\ AbleOf(o) \subseteq RosterOf(o)
         /\ IsFiniteSet(RosterOf(o)) /\ IsFiniteSet(AbleOf(o))
         /\ Cardinality(RosterOf(o)) \in Nat /\ Cardinality(AbleOf(o)) \in Nat
<1>1. RosterOf(o) \subseteq Staff
  BY DEF RosterOf, ScheduledUsers, ScheduleTyped
<1>2. AbleOf(o) \subseteq RosterOf(o)
  BY DEF AbleOf
<1>3. IsFiniteSet(RosterOf(o)) /\ IsFiniteSet(AbleOf(o))
  BY <1>1, <1>2, FS_Subset, ScheduleAssumption
<1> QED BY <1>1, <1>2, <1>3, FS_CardinalityType

(* A step of one request that leaves the world as it is.                   *)
Unmoved == /\ onDuty' = onDuty /\ slots' = slots /\ gigs' = gigs
           /\ gigTask' = gigTask /\ schedulePlot' = schedulePlot

LEMMA OpMoves ==
  ASSUME ScheduleInv, Unmoved, slotRaces \subseteq slotRaces', NEW o \in GigRequests, NEW new \in OpRows,
         gigOp' = [gigOp EXCEPT ![o] = new],
         VerdictOf(o)', RowOf(o)', SlotOf(o)',
         \A p \in GigRequests \ {o} : NotBoth(o, p)'
  PROVE  ScheduleInv'
<1> USE DEF ScheduleInv
<1>1. \A p \in GigRequests : gigOp'[p] = IF p = o THEN new ELSE gigOp[p]
  BY DEF ScheduleTyped
<1>2. ScheduleTyped'
  <2>1. gigOp' \in [GigRequests -> OpRows]
    BY DEF ScheduleTyped
  <2>2. SomePlot' /\ UNCHANGED <<onDuty, slots, gigs, gigTask>>
    BY DEF ScheduleTyped, Unmoved, SomePlot
  <2> QED BY <2>1, <2>2 DEF ScheduleTyped
<1>3. SlotsApart'
  BY DEF SlotsApart, Unmoved, SlotsMeet, Overlap
<1>4. ASSUME NEW p \in GigRequests, p # o PROVE VerdictOf(p)' /\ RowOf(p)' /\ SlotOf(p)'
  <2>1. gigOp'[p] = gigOp[p]
    BY <1>1, <1>4
  <2>2. VerdictOf(p)'
    <3>1. RosterOf(p)' = RosterOf(p) /\ AbleOf(p)' = AbleOf(p)
      BY <2>1, SameWorld DEF Unmoved
    <3> QED BY <2>1, <3>1 DEF VerdictOf, OpIs, Unmoved
  <2>3. RowOf(p)'
    BY <2>1 DEF RowOf, Underway, Creating, Holding, OpIs, Unmoved
  <2>4. SlotOf(p)'
    BY <2>1 DEF SlotOf, OpIs, Unmoved, SlotsMeet, Overlap
  <2> QED BY <2>2, <2>3, <2>4
<1>5. OnlyOne'
  <2> SUFFICES ASSUME NEW p \in GigRequests, NEW q \in GigRequests, p # q PROVE NotBoth(p, q)'
    BY DEF OnlyOne
  <2>1. CASE p = o
    BY <2>1
  <2>2. CASE q = o
    <3>1. NotBoth(q, p)'
      BY <2>2
    <3>2. {p, q} = {q, p}
      OBVIOUS
    <3> QED BY <3>1, <3>2 DEF NotBoth
  <2>3. CASE p # o /\ q # o
    <3>1. gigOp'[p] = gigOp[p] /\ gigOp'[q] = gigOp[q]
      BY <1>1, <2>3
    <3>2. NotBoth(p, q)
      BY DEF OnlyOne
    <3> QED BY <3>1, <3>2 DEF NotBoth, Holding, Creating, Underway, OpIs
  <2> QED BY <2>1, <2>2, <2>3
<1> QED BY <1>2, <1>3, <1>4, <1>5
(* A step that changes what requests look at: all that are under way see   *)
(* it, but for the one that ends with it.                                  *)
LEMMA WorldMoves ==
  ASSUME ScheduleInv, ScheduleTyped', SlotsApart', slotRaces' = slotRaces, NEW D \in SUBSET GigRequests,
         \A p \in GigRequests : gigOp'[p] = IF p \in D THEN Over ELSE Stirred[p],
         \A p \in GigRequests \ D : /\ Creating(p) => gigs'[gigOp[p].of].status = "NONE"
                                    /\ Underway(p) /\ gigOp[p].kind \in {"edit", "confirm", "move"} =>
                                         gigs'[gigOp[p].of].status # "NONE"
                                    /\ Holding(p) /\ gigOp[p].kind = "confirm" => gigs'[gigOp[p].of].status = "DRAFT",
         \A p \in GigRequests \ D : OpIs(p, "write") =>
           \A s \in slots' \ slots : s.id # gigOp[p].slot.id /\ s.user = gigOp[p].slot.user =>
             ~SlotsMeet(gigOp[p].slot, s) \/ {p, s.by} \in slotRaces
  PROVE  ScheduleInv'
<1> USE DEF ScheduleInv
<1>1. \A p \in D : gigOp'[p] = Over
  OBVIOUS
<1>2. Over.at = "done" /\ Over.kind = "none"
  BY DEF Over, NoOp
<1>3. ASSUME NEW p \in GigRequests \ D
      PROVE  /\ gigOp'[p].at = gigOp[p].at /\ gigOp'[p].kind = gigOp[p].kind /\ gigOp'[p].of = gigOp[p].of
             /\ gigOp'[p].slot = gigOp[p].slot /\ gigOp'[p].stale = Underway(p) /\ gigOp'[p].behind = Underway(p)
  <2>1. gigOp'[p] = [gigOp[p] EXCEPT !.stale = Underway(p), !.behind = Underway(p)]
    BY DEF Stirred
  <2>2. gigOp[p] \in OpRows
    BY ScheduleTypes
  <2> QED BY <2>1, <2>2 DEF OpRows
<1>4. ASSUME NEW p \in D PROVE /\ VerdictOf(p)' /\ RowOf(p)' /\ SlotOf(p)'
                               /\ ~Underway(p)' /\ gigOp'[p].kind # "slot"
  <2>1. gigOp'[p].at = "done" /\ gigOp'[p].kind = "none"
    BY <1>1, <1>2
  <2> QED BY <2>1 DEF VerdictOf, RowOf, SlotOf, OpIs, Underway, Creating, Holding
<1>5. ASSUME NEW p \in GigRequests \ D PROVE VerdictOf(p)' /\ RowOf(p)' /\ SlotOf(p)'
  <2>1. VerdictOf(p)'
    BY <1>3, <1>5 DEF VerdictOf, OpIs, Underway
  <2>2. RowOf(p)'
    <3>1. RowOf(p)
      OBVIOUS
    <3>2. Underway(p)' = Underway(p) /\ Creating(p)' = Creating(p) /\ Holding(p)' = Holding(p)
      BY <1>3, <1>5 DEF Underway, Creating, Holding, OpIs
    <3>3. /\ OpIs(p, "lock")' = OpIs(p, "lock") /\ OpIs(p, "save")' = OpIs(p, "save") /\ OpIs(p, "read")' = OpIs(p, "read")
          /\ (OpIs(p, "save") => Underway(p))
      BY <1>3, <1>5 DEF OpIs, Underway
    <3>4. /\ Creating(p) => gigs'[gigOp[p].of].status = "NONE"
          /\ Underway(p) /\ gigOp[p].kind \in {"edit", "confirm", "move"} => gigs'[gigOp[p].of].status # "NONE"
          /\ Holding(p) /\ gigOp[p].kind = "confirm" => gigs'[gigOp[p].of].status = "DRAFT"
      OBVIOUS
    <3>5. gigOp'[p].of = gigOp[p].of /\ gigOp'[p].kind = gigOp[p].kind /\ gigOp'[p].behind = Underway(p)
      BY <1>3, <1>5
    <3> QED BY <3>1, <3>2, <3>3, <3>4, <3>5 DEF RowOf
  <2>3. SlotOf(p)'
    <3>1. SlotOf(p)
      OBVIOUS
    <3>2. OpIs(p, "write") => \A s \in slots' : s.id # gigOp[p].slot.id /\ s.user = gigOp[p].slot.user =>
                                ~SlotsMeet(gigOp[p].slot, s) \/ {p, s.by} \in slotRaces
      BY <3>1 DEF SlotOf
    <3> QED BY <1>3, <1>5, <3>1, <3>2 DEF SlotOf, OpIs, SlotsMeet, Overlap
  <2> QED BY <2>1, <2>2, <2>3
<1>6. OnlyOne'
  <2> SUFFICES ASSUME NEW p \in GigRequests, NEW q \in GigRequests, p # q PROVE NotBoth(p, q)'
    BY DEF OnlyOne
  <2>1. CASE p \in D \/ q \in D
    BY <1>4, <2>1 DEF NotBoth, Holding, Creating
  <2>2. CASE p \notin D /\ q \notin D
    <3>1. NotBoth(p, q)
      BY DEF OnlyOne
    <3> QED BY <1>3, <2>2, <3>1 DEF NotBoth, Holding, Creating, Underway, OpIs
  <2> QED BY <2>1, <2>2
<1> QED BY <1>4, <1>5, <1>6

LEMMA OverIsTyped ==
  Over \in OpRows /\ Over.at = "done" /\ Over.kind = "none"
<1>1. NoGig \in GigRows /\ NoTask \in TaskRows
  BY DEF NoGig, NoTask, GigRows, TaskRows
<1>2. NoOp \in OpRows
  BY <1>1 DEF NoOp, OpRows, GigKinds, GigPlaces
<1> QED BY <1>2 DEF Over, OpRows, GigPlaces, NoOp

LEMMA OpsEnd ==
  ASSUME ScheduleInv, Unmoved, slotRaces' = slotRaces, NEW o \in GigRequests, OpEnds(o)
  PROVE  ScheduleInv'
<1>1. gigOp' = [gigOp EXCEPT ![o] = Over] /\ Over \in OpRows /\ Over.at = "done" /\ Over.kind = "none"
  BY OverIsTyped DEF OpEnds
<1>2. gigOp'[o] = Over
  BY <1>1 DEF ScheduleInv, ScheduleTyped
<1>3. VerdictOf(o)' /\ RowOf(o)' /\ SlotOf(o)'
  BY <1>1, <1>2 DEF VerdictOf, RowOf, SlotOf, OpIs, Underway, Creating, Holding
<1>4. \A p \in GigRequests \ {o} : NotBoth(o, p)'
  BY <1>1, <1>2 DEF NotBoth, Underway, Creating, Holding
<1>5. slotRaces \subseteq slotRaces'
  OBVIOUS
<1> QED BY <1>1, <1>3, <1>4, <1>5, OpMoves

(* A step of a request that goes on with what it has in hand: what it has  *)
(* in hand is as good as before.                                           *)
LEMMA StillApart ==
  ASSUME OnlyOne, NEW o \in GigRequests, slotRaces' = slotRaces, NEW p \in GigRequests \ {o},
         gigOp'[p] = gigOp[p], gigOp'[o].of = gigOp[o].of, gigOp'[o].kind = gigOp[o].kind,
         Underway(o), Holding(o)' => Holding(o)
  PROVE  NotBoth(o, p)'
<1>1. NotBoth(o, p)
  BY DEF OnlyOne
<1> QED BY <1>1 DEF NotBoth, Holding, Creating, Underway, OpIs

LEMMA BeginGigKeeps ==
  ASSUME ScheduleInv, NEW o \in GigRequests, NEW g \in Gigs, BeginGig(o, g)
  PROVE  ScheduleInv'
<1>1. PICK kind \in schedulePlot.kinds \cap {"create", "edit", "confirm", "move"}, t \in Times :
        /\ kind = "create" <=> gigs[g].status = "NONE"
        /\ \A p \in GigRequests : Underway(p) /\ gigOp[p].kind = "create" => gigOp[p].of # g
        /\ kind = "confirm" => t = [week |-> gigs[g].week, start |-> gigs[g].start]
        /\ gigOp' = [gigOp EXCEPT ![o] = [NoOp EXCEPT !.kind = kind, !.of = g,
             !.gig = [status |-> "DRAFT", week |-> t.week, start |-> t.start],
             !.at = CASE kind = "create" -> "roster" [] kind = "edit" -> "read" [] OTHER -> "lock"]]
  BY DEF BeginGig
<1> kind \in {"create", "edit", "confirm", "move"}
  OBVIOUS
<1> USE DEF ScheduleInv
<1> DEFINE place == CASE kind = "create" -> "roster" [] kind = "edit" -> "read" [] OTHER -> "lock"
           row == [status |-> "DRAFT", week |-> t.week, start |-> t.start]
           new == [NoOp EXCEPT !.kind = kind, !.of = g, !.gig = row, !.at = place]
<1>2. row \in GigRows
  <2>1. t.week \in Nat /\ t.start \in Nat
    BY PlotTypes DEF Times, ScheduleTyped
  <2> QED BY <2>1 DEF GigRows
<1>3. /\ place \in GigPlaces /\ (place = "roster" <=> kind = "create") /\ (place = "read" <=> kind = "edit")
      /\ (place = "lock" <=> kind \in {"confirm", "move"}) /\ place \in {"roster", "read", "lock"}
  BY DEF GigPlaces
<1> HIDE DEF row, place
<1>4. NoOp \in OpRows
  <2>1. NoGig \in GigRows /\ NoTask \in TaskRows
    BY DEF NoGig, NoTask, GigRows, TaskRows
  <2> QED BY <2>1 DEF NoOp, OpRows, GigKinds, GigPlaces
<1>5. new \in OpRows
  BY <1>2, <1>3, <1>4 DEF OpRows, GigKinds
<1>6. new.kind = kind /\ new.of = g /\ new.at = place
  BY <1>4 DEF OpRows
<1>7. gigOp' = [gigOp EXCEPT ![o] = new]
  BY <1>1 DEF row, place
<1> HIDE DEF new
<1>8. gigOp'[o] = new /\ \A p \in GigRequests \ {o} : gigOp'[p] = gigOp[p]
  BY <1>7 DEF ScheduleTyped
<1>9. VerdictOf(o)'
  BY <1>3, <1>6, <1>8 DEF VerdictOf, OpIs
<1>10. Unmoved /\ slotRaces \subseteq slotRaces'
  BY DEF BeginGig, Unmoved
<1>11. RowOf(o)'
  BY <1>1, <1>3, <1>6, <1>8, <1>10 DEF RowOf, Creating, Holding, Underway, OpIs, Unmoved
<1>12. SlotOf(o)'
  BY <1>1, <1>3, <1>6, <1>8 DEF SlotOf, OpIs
<1>13. ASSUME NEW p \in GigRequests \ {o} PROVE NotBoth(o, p)'
  BY <1>1, <1>3, <1>6, <1>8 DEF NotBoth, Creating, Holding, Underway, OpIs
<1> QED BY <1>5, <1>7, <1>9, <1>10, <1>11, <1>12, <1>13, OpMoves

LEMMA ReadGigKeeps ==
  ASSUME ScheduleInv, NEW o \in GigRequests, ReadGig(o)
  PROVE  ScheduleInv'
<1> USE DEF ScheduleInv
<1>1. Unmoved /\ slotRaces' = slotRaces /\ gigOp[o].at = "read"
  BY DEF ReadGig, Unmoved, OpIs
<1>2. CASE ~MayRetime(gigs[gigOp[o].of])
  <2>1. OpEnds(o)
    BY <1>2 DEF ReadGig
  <2> QED BY <1>1, <2>1, OpsEnd
<1>3. CASE MayRetime(gigs[gigOp[o].of])
  <2> DEFINE new == [gigOp[o] EXCEPT !.at = "roster", !.behind = FALSE]
  <2>1. gigOp[o] \in OpRows
    BY ScheduleTypes
  <2>2. gigOp' = [gigOp EXCEPT ![o] = new]
    BY <1>3 DEF ReadGig
  <2>3. /\ new \in OpRows /\ new.at = "roster" /\ new.kind = gigOp[o].kind /\ new.of = gigOp[o].of
    BY <2>1 DEF OpRows, GigPlaces
  <2> HIDE DEF new
  <2>4. gigOp'[o] = new /\ \A p \in GigRequests \ {o} : gigOp'[p] = gigOp[p]
    BY <2>2 DEF ScheduleTyped
  <2>5. RowOf(o) /\ SlotOf(o) /\ gigOp[o].kind = "edit" /\ gigs[gigOp[o].of].status = "DRAFT"
    BY <1>1, <1>3 DEF RowOf, OpIs, MayRetime
  <2>6. VerdictOf(o)' /\ SlotOf(o)'
    BY <2>3, <2>4, <2>5 DEF VerdictOf, SlotOf, OpIs
  <2>7. RowOf(o)'
    BY <1>1, <2>3, <2>4, <2>5 DEF RowOf, Creating, Holding, Underway, OpIs, Unmoved
  <2>8. ASSUME NEW p \in GigRequests \ {o} PROVE NotBoth(o, p)'
    BY <2>3, <2>4, <2>5 DEF NotBoth, Creating, Holding
  <2>9. slotRaces \subseteq slotRaces'
    BY <1>1
  <2> QED BY <1>1, <2>2, <2>3, <2>6, <2>7, <2>8, <2>9, OpMoves
<1> QED BY <1>2, <1>3

LEMMA LockGigKeeps ==
  ASSUME ScheduleInv, NEW o \in GigRequests, LockGig(o)
  PROVE  ScheduleInv'
<1> USE DEF ScheduleInv
<1> DEFINE op == gigOp[o]
           row == gigs[op.of]
           legal == row.status = (IF op.kind = "confirm" THEN "DRAFT" ELSE "CONFIRMED")
<1>1. Unmoved /\ slotRaces' = slotRaces /\ gigOp[o].at = "lock" /\ RowFree(op.of)
  BY DEF LockGig, Unmoved, OpIs
<1>2. CASE ~legal
  <2>1. OpEnds(o)
    BY <1>2 DEF LockGig
  <2> QED BY <1>1, <2>1, OpsEnd
<1>3. CASE legal
  <2> DEFINE wanted == IF op.kind = "confirm" THEN row ELSE op.gig
             new == [op EXCEPT !.at = "roster", !.gig = wanted]
  <2>1. gigOp[o] \in OpRows
    BY ScheduleTypes
  <2>2. RowOf(o) /\ SlotOf(o) /\ op.kind \in {"confirm", "move"} /\ op.of \in Gigs
    BY <1>1 DEF RowOf, OpIs, Underway
  <2>3. wanted \in GigRows
    BY <2>1, <2>2 DEF OpRows, ScheduleTyped
  <2>4. gigOp' = [gigOp EXCEPT ![o] = new]
    BY <1>3 DEF LockGig
  <2> HIDE DEF wanted
  <2>5. new \in OpRows /\ new.at = "roster" /\ new.kind = op.kind /\ new.of = op.of
    BY <2>1, <2>3 DEF OpRows, GigPlaces
  <2> HIDE DEF new
  <2>6. gigOp'[o] = new /\ \A p \in GigRequests \ {o} : gigOp'[p] = gigOp[p]
    BY <2>4 DEF ScheduleTyped
  <2>7. VerdictOf(o)' /\ SlotOf(o)'
    BY <2>2, <2>5, <2>6 DEF VerdictOf, SlotOf, OpIs
  <2>8. RowOf(o)'
    BY <1>1, <1>3, <2>2, <2>5, <2>6 DEF RowOf, Creating, Holding, Underway, OpIs, Unmoved
  <2>9. ASSUME NEW p \in GigRequests \ {o} PROVE NotBoth(o, p)'
    <3>1. ~(Holding(p) /\ gigOp[p].of = op.of)
      BY <1>1 DEF RowFree, Holds, Holding
    <3> QED BY <2>2, <2>5, <2>6, <3>1 DEF NotBoth, Creating, Holding, Underway, OpIs
  <2>10. slotRaces \subseteq slotRaces'
    BY <1>1
  <2> QED BY <1>1, <2>4, <2>5, <2>7, <2>8, <2>9, <2>10, OpMoves
<1> QED BY <1>2, <1>3

LEMMA LookAtRosterKeeps ==
  ASSUME ScheduleInv, NEW o \in GigRequests, LookAtRoster(o)
  PROVE  ScheduleInv'
<1> USE DEF ScheduleInv
<1> DEFINE place == IF Cardinality(RosterOf(o)) < schedulePlot.required THEN "refused" ELSE "busy"
           new == [gigOp[o] EXCEPT !.at = place, !.free = RosterOf(o), !.stale = FALSE]
<1>1. Unmoved /\ slotRaces' = slotRaces /\ gigOp[o].at = "roster"
  BY DEF LookAtRoster, Unmoved, OpIs
<1>2. gigOp[o] \in OpRows /\ RowOf(o) /\ SlotOf(o) /\ RosterOf(o) \in SUBSET Staff
  BY ScheduleTypes, RosterIsFinite
<1>3. gigOp' = [gigOp EXCEPT ![o] = new]
  BY DEF LookAtRoster, RosterOf
<1>4. place \in GigPlaces /\ place \in {"refused", "busy"}
  BY DEF GigPlaces
<1>5. (place = "refused" <=> Cardinality(RosterOf(o)) < schedulePlot.required) /\ (place = "busy" <=> place # "refused")
  BY DEF GigPlaces
<1> HIDE DEF place
<1>6. /\ new \in OpRows /\ new.at = place /\ new.kind = gigOp[o].kind /\ new.of = gigOp[o].of
      /\ new.gig = gigOp[o].gig /\ new.free = RosterOf(o) /\ new.behind = gigOp[o].behind
  BY <1>2, <1>4 DEF OpRows
<1> HIDE DEF new
<1>7. gigOp'[o] = new /\ \A p \in GigRequests \ {o} : gigOp'[p] = gigOp[p]
  BY <1>3 DEF ScheduleTyped
<1>8. RosterOf(o)' = RosterOf(o)
  BY <1>1, <1>6, <1>7, SameWorld DEF Unmoved
<1>9. VerdictOf(o)'
  BY <1>1, <1>4, <1>5, <1>6, <1>7, <1>8 DEF VerdictOf, OpIs, Unmoved
<1>10. SlotOf(o)'
  BY <1>1, <1>2, <1>4, <1>6, <1>7 DEF SlotOf, OpIs
<1>11. RowOf(o)'
  BY <1>1, <1>2, <1>4, <1>6, <1>7 DEF RowOf, Creating, Holding, Underway, OpIs, Unmoved
<1>12. ASSUME NEW p \in GigRequests \ {o} PROVE NotBoth(o, p)'
  BY <1>1, <1>6, <1>7, StillApart DEF Underway, Holding, OpIs
<1>13. slotRaces \subseteq slotRaces'
  BY <1>1
<1> QED BY <1>1, <1>3, <1>6, <1>9, <1>10, <1>11, <1>12, <1>13, OpMoves

LEMMA LookAtBusyKeeps ==
  ASSUME ScheduleInv, NEW o \in GigRequests, LookAtBusy(o)
  PROVE  ScheduleInv'
<1> USE DEF ScheduleInv
<1> DEFINE free == gigOp[o].free \ BusyUsers(gigOp[o].free, gigOp[o].gig, But(o))
           place == IF Cardinality(free) < schedulePlot.required THEN "refused" ELSE "granted"
           new == [gigOp[o] EXCEPT !.at = place, !.free = free]
<1>1. Unmoved /\ slotRaces' = slotRaces /\ gigOp[o].at = "busy"
  BY DEF LookAtBusy, Unmoved, OpIs
<1>2. gigOp[o] \in OpRows /\ RowOf(o) /\ SlotOf(o) /\ VerdictOf(o) /\ free \in SUBSET Staff
  BY ScheduleTypes
<1>3. gigOp' = [gigOp EXCEPT ![o] = new]
  BY DEF LookAtBusy, But
<1>4. IsFiniteSet(free) /\ Cardinality(free) \in Nat /\ schedulePlot.required \in Nat
  BY <1>2, FS_Subset, FS_CardinalityType, ScheduleAssumption, PlotTypes DEF ScheduleTyped
<1>5. ~gigOp[o].stale => free = AbleOf(o)
  BY <1>1, <1>2 DEF VerdictOf, OpIs, AbleOf
<1> HIDE DEF free
<1>6. place \in GigPlaces /\ place \in {"refused", "granted"}
  BY DEF GigPlaces
<1>7. (place = "refused" <=> Cardinality(free) < schedulePlot.required) /\ (place = "granted" <=> place # "refused")
  BY DEF GigPlaces
<1> HIDE DEF place
<1>8. /\ new \in OpRows /\ new.at = place /\ new.kind = gigOp[o].kind /\ new.of = gigOp[o].of
      /\ new.gig = gigOp[o].gig /\ new.behind = gigOp[o].behind /\ new.stale = gigOp[o].stale
  BY <1>2, <1>6 DEF OpRows
<1> HIDE DEF new
<1>9. gigOp'[o] = new /\ \A p \in GigRequests \ {o} : gigOp'[p] = gigOp[p]
  BY <1>3 DEF ScheduleTyped
<1>10. AbleOf(o)' = AbleOf(o)
  BY <1>1, <1>8, <1>9, SameWorld DEF Unmoved
<1>11. VerdictOf(o)'
  BY <1>1, <1>4, <1>5, <1>6, <1>7, <1>8, <1>9, <1>10 DEF VerdictOf, OpIs, Unmoved
<1>12. SlotOf(o)'
  BY <1>1, <1>2, <1>6, <1>8, <1>9 DEF SlotOf, OpIs
<1>13. RowOf(o)'
  BY <1>1, <1>2, <1>6, <1>8, <1>9 DEF RowOf, Creating, Holding, Underway, OpIs, Unmoved
<1>14. ASSUME NEW p \in GigRequests \ {o} PROVE NotBoth(o, p)'
  BY <1>1, <1>8, <1>9, StillApart DEF Underway, Holding, OpIs
<1>15. slotRaces \subseteq slotRaces'
  BY <1>1
<1> QED BY <1>1, <1>3, <1>8, <1>11, <1>12, <1>13, <1>14, <1>15, OpMoves
LEMMA ReadTasksKeeps ==
  ASSUME ScheduleInv, NEW o \in GigRequests, ReadTasks(o)
  PROVE  ScheduleInv'
<1> USE DEF ScheduleInv
<1> DEFINE task == gigTask[gigOp[o].of]
<1>1. Unmoved /\ slotRaces' = slotRaces /\ gigOp[o].at = "granted" /\ gigOp[o].kind = "move"
  BY DEF ReadTasks, Unmoved, OpIs
<1>2. gigOp[o] \in OpRows /\ RowOf(o) /\ SlotOf(o) /\ gigOp[o].of \in Gigs
  BY <1>1, ScheduleTypes DEF RowOf, Underway, OpIs
<1>3. CASE ~Movable(task)
  <2>1. OpEnds(o)
    BY <1>3 DEF ReadTasks
  <2> QED BY <1>1, <2>1, OpsEnd
<1>4. CASE Movable(task)
  <2> DEFINE new == [gigOp[o] EXCEPT !.at = "save", !.task = task, !.behind = FALSE]
  <2>1. task \in TaskRows
    BY <1>2 DEF ScheduleTyped
  <2>2. gigOp' = [gigOp EXCEPT ![o] = new]
    BY <1>4 DEF ReadTasks
  <2>3. ~gigTask[gigOp[o].of].started
    BY <1>4 DEF Movable
  <2> HIDE DEF task
  <2>4. new \in OpRows /\ new.at = "save" /\ new.kind = gigOp[o].kind /\ new.of = gigOp[o].of
    BY <1>2, <2>1 DEF OpRows, GigPlaces
  <2> HIDE DEF new
  <2>5. gigOp'[o] = new /\ \A p \in GigRequests \ {o} : gigOp'[p] = gigOp[p]
    BY <2>2 DEF ScheduleTyped
  <2>6. VerdictOf(o)' /\ SlotOf(o)'
    BY <1>1, <1>2, <2>4, <2>5 DEF VerdictOf, SlotOf, OpIs
  <2>7. RowOf(o)'
    BY <1>1, <1>2, <2>3, <2>4, <2>5 DEF RowOf, Creating, Holding, Underway, OpIs, Unmoved
  <2>8. ASSUME NEW p \in GigRequests \ {o} PROVE NotBoth(o, p)'
    BY <1>1, <2>4, <2>5, StillApart DEF Underway, Holding, OpIs
  <2>9. slotRaces \subseteq slotRaces'
    BY <1>1
  <2> QED BY <1>1, <2>2, <2>4, <2>6, <2>7, <2>8, <2>9, OpMoves
<1> QED BY <1>3, <1>4

LEMMA BeginSlotKeeps ==
  ASSUME ScheduleInv, NEW o \in GigRequests, BeginSlot(o)
  PROVE  ScheduleInv'
<1> USE DEF ScheduleInv
<1>1. PICK shape \in schedulePlot.shapes :
        /\ shape.from < shape.till /\ shape.first <= shape.last
        /\ \/ \E u \in Staff : gigOp' = [gigOp EXCEPT ![o] = [NoOp EXCEPT !.kind = "slot", !.at = "compare",
                                                                         !.slot = NewSlot(o, u, shape)]]
           \/ \E s \in slots : gigOp' = [gigOp EXCEPT ![o] = [NoOp EXCEPT !.kind = "slot", !.at = "compare",
                                                               !.slot = [NewSlot(o, s.user, shape) EXCEPT !.id = s.id]]]
  BY DEF BeginSlot
<1>2. shape \in [from : Nat, till : Nat, first : Nat, last : Nat] /\ o \in Nat
  <2>1. schedulePlot.shapes \subseteq [from : Nat, till : Nat, first : Nat, last : Nat]
    BY PlotTypes DEF ScheduleTyped
  <2>2. GigRequests = 1..Cardinality(GigRequests) /\ Cardinality(GigRequests) \in Nat
    BY ScheduleAssumption, FS_CardinalityType
  <2>3. o \in Nat
    BY <2>2
  <2> QED BY <2>1, <2>3
<1>3. PICK mine \in SlotRows : /\ mine.by = o /\ mine.from < mine.till /\ mine.first <= mine.last
                               /\ gigOp' = [gigOp EXCEPT ![o] = [NoOp EXCEPT !.kind = "slot", !.at = "compare", !.slot = mine]]
  <2>1. ASSUME NEW u \in Staff, gigOp' = [gigOp EXCEPT ![o] = [NoOp EXCEPT !.kind = "slot", !.at = "compare",
                                                                         !.slot = NewSlot(o, u, shape)]]
        PROVE  NewSlot(o, u, shape) \in SlotRows /\ NewSlot(o, u, shape).by = o
               /\ NewSlot(o, u, shape).from < NewSlot(o, u, shape).till
               /\ NewSlot(o, u, shape).first <= NewSlot(o, u, shape).last
    BY <1>1, <1>2 DEF NewSlot, SlotRows, SlotIds
  <2>2. ASSUME NEW s \in slots PROVE
          LET mine == [NewSlot(o, s.user, shape) EXCEPT !.id = s.id] IN
            mine \in SlotRows /\ mine.by = o /\ mine.from < mine.till /\ mine.first <= mine.last
    <3>1. s.user \in Staff /\ s.id \in SlotIds
      BY DEF ScheduleTyped, SlotRows
    <3> QED BY <1>1, <1>2, <3>1 DEF NewSlot, SlotRows
  <2> QED BY <1>1, <2>1, <2>2
<1> DEFINE new == [NoOp EXCEPT !.kind = "slot", !.at = "compare", !.slot = mine]
<1>4. NoOp \in OpRows
  <2>1. NoGig \in GigRows /\ NoTask \in TaskRows
    BY DEF NoGig, NoTask, GigRows, TaskRows
  <2> QED BY <2>1 DEF NoOp, OpRows, GigKinds, GigPlaces
<1>5. new \in OpRows /\ new.kind = "slot" /\ new.at = "compare" /\ new.slot = mine
  BY <1>4 DEF OpRows, GigKinds, GigPlaces
<1>6. gigOp' = [gigOp EXCEPT ![o] = new]
  BY <1>3
<1> HIDE DEF new
<1>7. gigOp'[o] = new /\ \A p \in GigRequests \ {o} : gigOp'[p] = gigOp[p]
  BY <1>6 DEF ScheduleTyped
<1>8. VerdictOf(o)' /\ RowOf(o)'
  BY <1>5, <1>7 DEF VerdictOf, RowOf, Creating, Holding, Underway, OpIs
<1>9. SlotOf(o)'
  BY <1>3, <1>5, <1>7 DEF SlotOf, OpIs
<1>10. Unmoved /\ slotRaces \subseteq slotRaces'
  BY DEF BeginSlot, Unmoved
<1>11. ASSUME NEW p \in GigRequests \ {o} PROVE NotBoth(o, p)'
  <2>1. ~Holding(o)' /\ ~Creating(o)'
    BY <1>5, <1>7 DEF Holding, Creating
  <2>2. CASE gigOp[p].kind = "slot"
    <3>1. gigOp[p].at \in {"compare", "write"}
      BY <2>2 DEF SlotOf
    <3>2. {o, p} \in slotRaces'
      BY <3>1 DEF BeginSlot, Underway
    <3> QED BY <2>1, <3>2 DEF NotBoth
  <2>3. CASE gigOp[p].kind # "slot"
    BY <1>7, <2>1, <2>3 DEF NotBoth
  <2> QED BY <2>2, <2>3
<1> QED BY <1>5, <1>6, <1>8, <1>9, <1>10, <1>11, OpMoves

LEMMA CompareSlotsKeeps ==
  ASSUME ScheduleInv, NEW o \in GigRequests, CompareSlots(o)
  PROVE  ScheduleInv'
<1> USE DEF ScheduleInv
<1> DEFINE mine == gigOp[o].slot
           clash == \E s \in slots : s.id # mine.id /\ s.user = mine.user /\ SlotsMeet(mine, s)
<1>1. Unmoved /\ slotRaces' = slotRaces /\ gigOp[o].at = "compare"
  BY DEF CompareSlots, Unmoved, OpIs
<1>2. CASE clash
  <2>1. OpEnds(o)
    BY <1>2 DEF CompareSlots
  <2> QED BY <1>1, <2>1, OpsEnd
<1>3. CASE ~clash
  <2> DEFINE new == [gigOp[o] EXCEPT !.at = "write"]
  <2>1. gigOp[o] \in OpRows /\ SlotOf(o) /\ gigOp[o].kind = "slot"
    BY <1>1, ScheduleTypes DEF SlotOf
  <2>2. gigOp' = [gigOp EXCEPT ![o] = new]
    BY <1>3 DEF CompareSlots
  <2>3. new \in OpRows /\ new.at = "write" /\ new.kind = "slot" /\ new.of = gigOp[o].of /\ new.slot = mine
    BY <2>1 DEF OpRows, GigPlaces
  <2> HIDE DEF new
  <2>4. gigOp'[o] = new /\ \A p \in GigRequests \ {o} : gigOp'[p] = gigOp[p]
    BY <2>2 DEF ScheduleTyped
  <2>5. VerdictOf(o)' /\ RowOf(o)'
    BY <2>3, <2>4 DEF VerdictOf, RowOf, Creating, Holding, Underway, OpIs
  <2>6. SlotOf(o)'
    <3>1. slots' = slots /\ gigOp'[o].slot = mine /\ gigOp'[o].at = "write" /\ gigOp'[o].kind = "slot"
      BY <1>1, <2>3, <2>4 DEF Unmoved
    <3>2. mine \in SlotRows /\ mine.by = o /\ mine.from < mine.till /\ mine.first <= mine.last
      BY <2>1 DEF SlotOf
    <3> HIDE DEF mine
    <3>3. \A s \in slots : s.id # mine.id /\ s.user = mine.user => ~SlotsMeet(mine, s)
      BY <1>3
    <3> QED BY <3>1, <3>2, <3>3 DEF SlotOf, OpIs, SlotsMeet, Overlap
  <2>7. ASSUME NEW p \in GigRequests \ {o} PROVE NotBoth(o, p)'
    BY <1>1, <2>1, <2>3, <2>4, StillApart DEF Underway, Holding, OpIs
  <2>8. slotRaces \subseteq slotRaces'
    BY <1>1
  <2> QED BY <1>1, <2>2, <2>3, <2>5, <2>6, <2>7, <2>8, OpMoves
<1> QED BY <1>2, <1>3
LEMMA StirredIsTyped ==
  ASSUME ScheduleTyped
  PROVE  Stirred \in [GigRequests -> OpRows]
<1>1. ASSUME NEW o \in GigRequests
      PROVE  [gigOp[o] EXCEPT !.stale = Underway(o), !.behind = Underway(o)] \in OpRows
  <2>1. gigOp[o] \in OpRows
    BY ScheduleTypes
  <2> QED BY <2>1 DEF OpRows, Underway
<1> QED BY <1>1 DEF Stirred

LEMMA SaveGigKeeps ==
  ASSUME ScheduleInv, NEW o \in GigRequests, SaveGig(o)
  PROVE  ScheduleInv'
<1> USE DEF ScheduleInv
<1> DEFINE op == gigOp[o]
           g == op.of
           row == SavedGig(gigs[g], op)
           task == SavedTask(gigTask[g], op)
<1>1. /\ gigOp[o].at = (IF op.kind = "move" THEN "save" ELSE "granted")
      /\ op.kind \in {"create", "edit", "confirm", "move"}
      /\ op.kind \in {"create", "edit"} => RowFree(g)
      /\ gigs' = [gigs EXCEPT ![g] = row] /\ gigTask' = [gigTask EXCEPT ![g] = task]
      /\ gigOp' = [Stirred EXCEPT ![o] = Over]
      /\ onDuty' = onDuty /\ slots' = slots /\ slotRaces' = slotRaces /\ schedulePlot' = schedulePlot
  BY DEF SaveGig, OpIs
<1>2. /\ gigOp[o] \in OpRows /\ op.gig \in GigRows /\ op.task \in TaskRows
  BY ScheduleTypes
<1>3. /\ RowOf(o) /\ Underway(o) /\ g \in Gigs
  BY <1>1 DEF RowOf, Underway, OpIs
<1>4. gigs[g] \in GigRows /\ gigTask[g] \in TaskRows
  BY <1>3 DEF ScheduleTyped
<1>5. op.kind # "create" => gigs[g].status # "NONE"
  BY <1>1, <1>3 DEF RowOf
<1>6. row \in GigRows /\ row.status # "NONE"
  <2>1. \A st \in {"DRAFT", "CONFIRMED", gigs[g].status} :
          [op.gig EXCEPT !.status = st] \in GigRows /\ [op.gig EXCEPT !.status = st].status = st
    BY <1>2, <1>4 DEF GigRows
  <2> QED BY <1>1, <1>5, <2>1 DEF SavedGig
<1>7. task \in TaskRows
  BY <1>2, <1>4 DEF SavedTask, TaskRows
<1> HIDE DEF row, task
<1>8. ScheduleTyped'
  <2>1. gigs' \in [Gigs -> GigRows] /\ gigTask' \in [Gigs -> TaskRows]
    BY <1>1, <1>6, <1>7 DEF ScheduleTyped
  <2>2. gigOp' \in [GigRequests -> OpRows]
    BY <1>1, StirredIsTyped, OverIsTyped
  <2>3. SomePlot'
    BY <1>1 DEF SomePlot, ScheduleTyped
  <2> QED BY <1>1, <2>1, <2>2, <2>3 DEF ScheduleTyped
<1>9. SlotsApart'
  BY <1>1 DEF SlotsApart, SlotsMeet, Overlap
<1>10. \A p \in GigRequests : gigOp'[p] = IF p \in {o} THEN Over ELSE Stirred[p]
  BY <1>1, StirredIsTyped
<1>11. \A h \in Gigs : gigs'[h] = IF h = g THEN row ELSE gigs[h]
  BY <1>1 DEF ScheduleTyped
<1>12. ASSUME NEW p \in GigRequests \ {o}
       PROVE  /\ Creating(p) => gigs'[gigOp[p].of].status = "NONE"
              /\ Underway(p) /\ gigOp[p].kind \in {"edit", "confirm", "move"} => gigs'[gigOp[p].of].status # "NONE"
              /\ Holding(p) /\ gigOp[p].kind = "confirm" => gigs'[gigOp[p].of].status = "DRAFT"
  <2>1. RowOf(p) /\ NotBoth(o, p)
    BY DEF OnlyOne
  <2>2. Underway(p) /\ gigOp[p].kind # "slot" => gigOp[p].of \in Gigs
    BY <2>1 DEF RowOf
  <2>3. Creating(p) => gigs'[gigOp[p].of].status = "NONE"
    <3>1. ASSUME Creating(p) PROVE gigOp[p].of # g
      <4>1. gigs[gigOp[p].of].status = "NONE"
        BY <2>1, <3>1 DEF RowOf
      <4>2. op.kind = "create" => gigOp[p].of # g
        BY <1>3, <2>1, <3>1 DEF NotBoth, Creating
      <4> QED BY <1>5, <4>1, <4>2
    <3> QED BY <1>11, <2>1, <2>2, <3>1 DEF RowOf, Creating
  <2>4. Underway(p) /\ gigOp[p].kind \in {"edit", "confirm", "move"} => gigs'[gigOp[p].of].status # "NONE"
    BY <1>6, <1>11, <2>1, <2>2 DEF RowOf
  <2>5. Holding(p) /\ gigOp[p].kind = "confirm" => gigs'[gigOp[p].of].status = "DRAFT"
    <3>1. ASSUME Holding(p) PROVE gigOp[p].of # g
      <4>1. op.kind \in {"create", "edit"} => gigOp[p].of # g
        BY <1>1, <3>1 DEF RowFree, Holds, Holding
      <4>2. op.kind \in {"confirm", "move"} => gigOp[p].of # g
        BY <1>1, <1>3, <2>1, <3>1 DEF NotBoth, Holding, OpIs
      <4> QED BY <1>1, <4>1, <4>2
    <3> QED BY <1>11, <2>1, <2>2, <3>1 DEF RowOf, Holding
  <2> QED BY <2>3, <2>4, <2>5
<1>13. \A p \in GigRequests \ {o} : OpIs(p, "write") =>
           \A s \in slots' \ slots : s.id # gigOp[p].slot.id /\ s.user = gigOp[p].slot.user =>
             ~SlotsMeet(gigOp[p].slot, s) \/ {p, s.by} \in slotRaces
  BY <1>1
<1>14. {o} \in SUBSET GigRequests /\ slotRaces' = slotRaces
  BY <1>1
<1> QED BY <1>8, <1>9, <1>10, <1>12, <1>13, <1>14, WorldMoves

LEMMA OneChangeLess ==
  ASSUME ScheduleTyped, NEW kind, Changes(kind)
  PROVE  SomePlot' /\ gigOp' = Stirred /\ gigOp' \in [GigRequests -> OpRows]
<1>1. PICK plot \in SchedulePlots : \E n \in Nat : schedulePlot = [plot EXCEPT !.changes = n]
  BY DEF ScheduleTyped, SomePlot
<1>2. PICK n \in Nat : schedulePlot = [plot EXCEPT !.changes = n]
  BY <1>1
<1>3. schedulePlot' = [schedulePlot EXCEPT !.changes = schedulePlot.changes - 1] /\ schedulePlot.changes > 0
  BY DEF Changes
<1>4. plot \in [kinds : SUBSET {"create", "edit", "confirm", "move", "createSlot", "updateSlot"}, requests : Nat,
                    drafts : SUBSET Gigs, times : [weeks : SUBSET Nat, starts : SUBSET Nat], hours : Nat \ {0},
                    required : Nat, slots : {plot.slots}, shapes : SUBSET [from : Nat, till : Nat, first : Nat, last : Nat],
                    others : SUBSET {"team", "assign", "start", "close", "duty", "slots"}, changes : Nat]
  BY ScheduleAssumption
<1>5. schedulePlot.changes = n
  BY <1>2, <1>4
<1>6. n - 1 \in Nat
  BY <1>3, <1>5
<1>7. schedulePlot' = [plot EXCEPT !.changes = n - 1]
  <2> HIDE <1>4
  <2>1. schedulePlot' = [[plot EXCEPT !.changes = n] EXCEPT !.changes = n - 1]
    BY <1>2, <1>3, <1>5
  <2>2. \A m : [[plot EXCEPT !.changes = n] EXCEPT !.changes = m] = [plot EXCEPT !.changes = m]
    OBVIOUS
  <2> QED BY <2>1, <2>2
<1>8. SomePlot'
  BY <1>6, <1>7 DEF SomePlot
<1> QED BY <1>8, StirredIsTyped DEF Changes

(* What others change: bookings stay bookings, drafts stay drafts for whom *)
(* holds them.                                                             *)
LEMMA OthersChange ==
  ASSUME ScheduleInv, NEW kind, Changes(kind), slotRaces' = slotRaces,
         onDuty' \subseteq Staff, slots' \subseteq slots, gigs' \in [Gigs -> GigRows], gigTask' \in [Gigs -> TaskRows],
         \A g \in Gigs : gigs'[g] # gigs[g] => gigs[g].status = "CONFIRMED" /\ gigs'[g].status = "CLOSED"
  PROVE  ScheduleInv'
<1> USE DEF ScheduleInv
<1>1. SomePlot' /\ gigOp' = Stirred /\ gigOp' \in [GigRequests -> OpRows]
  BY OneChangeLess
<1>2. ScheduleTyped'
  <2>1. slots' \subseteq SlotRows /\ \A s \in slots' : s.from < s.till /\ s.first <= s.last
    BY DEF ScheduleTyped
  <2> QED BY <1>1, <2>1 DEF ScheduleTyped
<1>3. SlotsApart'
  BY DEF SlotsApart, SlotsMeet, Overlap
<1>4. \A p \in GigRequests : gigOp'[p] = IF p \in {} THEN Over ELSE Stirred[p]
  BY <1>1
<1>5. ASSUME NEW p \in GigRequests \ {}
       PROVE  /\ Creating(p) => gigs'[gigOp[p].of].status = "NONE"
              /\ Underway(p) /\ gigOp[p].kind \in {"edit", "confirm", "move"} => gigs'[gigOp[p].of].status # "NONE"
              /\ Holding(p) /\ gigOp[p].kind = "confirm" => gigs'[gigOp[p].of].status = "DRAFT"
  <2>1. RowOf(p)
    OBVIOUS
  <2>2. Underway(p) /\ gigOp[p].kind # "slot" => gigOp[p].of \in Gigs
    BY <2>1 DEF RowOf
  <2>3. gigOp[p].of \in Gigs =>
          \/ gigs'[gigOp[p].of] = gigs[gigOp[p].of]
          \/ gigs[gigOp[p].of].status = "CONFIRMED" /\ gigs'[gigOp[p].of].status = "CLOSED"
    OBVIOUS
  <2> QED BY <2>1, <2>2, <2>3 DEF RowOf, Creating, Holding
<1>6. \A p \in GigRequests \ {} : OpIs(p, "write") =>
           \A s \in slots' \ slots : s.id # gigOp[p].slot.id /\ s.user = gigOp[p].slot.user =>
             ~SlotsMeet(gigOp[p].slot, s) \/ {p, s.by} \in slotRaces
  OBVIOUS
<1>7. {} \in SUBSET GigRequests
  OBVIOUS
<1> QED BY <1>2, <1>3, <1>4, <1>5, <1>6, <1>7, WorldMoves
LEMMA TasksChange ==
  ASSUME ScheduleInv, NEW kind, Changes(kind), UNCHANGED <<onDuty, slots, gigs, slotRaces>>,
         NEW g \in Gigs, NEW task \in TaskRows, gigTask' = [gigTask EXCEPT ![g] = task]
  PROVE  ScheduleInv'
<1>1. gigTask' \in [Gigs -> TaskRows] /\ gigs' \in [Gigs -> GigRows] /\ onDuty' \subseteq Staff /\ slots' \subseteq slots
  BY DEF ScheduleInv, ScheduleTyped
<1>2. \A h \in Gigs : gigs'[h] # gigs[h] => gigs[h].status = "CONFIRMED" /\ gigs'[h].status = "CLOSED"
  OBVIOUS
<1>3. slotRaces' = slotRaces
  OBVIOUS
<1> QED BY <1>1, <1>2, <1>3, OthersChange

LEMMA OthersKeep ==
  ASSUME ScheduleInv,
         \/ \E g \in Gigs, u \in Staff : AssignTo(g, u) \/ AddToTeam(g, u, TRUE) \/ AddToTeam(g, u, FALSE) \/ LeaveTeam(g, u)
         \/ \E g \in Gigs : StartWork(g) \/ CloseGig(g)
         \/ \E u \in Staff : ChangeDuty(u)
         \/ \E s \in slots : RemoveSlot(s)
  PROVE  ScheduleInv'
<1>1. \A g \in Gigs : /\ gigTask[g] \in TaskRows /\ gigs[g] \in GigRows
                      /\ gigTask[g].lead \in Staff \cup {NoEmployee} /\ gigTask[g].team \subseteq Staff
                      /\ gigTask[g].chief \in Staff \cup {NoEmployee}
  BY DEF ScheduleInv, ScheduleTyped, TaskRows
<1>2. ASSUME NEW g \in Gigs, NEW u \in Staff, AssignTo(g, u) PROVE ScheduleInv'
  <2>1. [gigTask[g] EXCEPT !.lead = u] \in TaskRows
    BY <1>1 DEF TaskRows
  <2>2. gigTask' = [gigTask EXCEPT ![g] = [gigTask[g] EXCEPT !.lead = u]]
    BY <1>2 DEF AssignTo
  <2> QED BY <1>2, <2>1, <2>2, TasksChange DEF AssignTo
<1>3. ASSUME NEW g \in Gigs, NEW u \in Staff, NEW isChief \in BOOLEAN, AddToTeam(g, u, isChief) PROVE ScheduleInv'
  <2> DEFINE chief == IF isChief THEN u ELSE gigTask[g].chief
             task == [gigTask[g] EXCEPT !.team = gigTask[g].team \cup {u}, !.chief = chief, !.lead = chief]
  <2>1. chief \in Staff \cup {NoEmployee}
    BY <1>1
  <2>2. gigTask' = [gigTask EXCEPT ![g] = task]
    BY <1>3 DEF AddToTeam
  <2> HIDE DEF chief
  <2>3. task \in TaskRows
    BY <1>1, <2>1 DEF TaskRows
  <2> QED BY <1>3, <2>2, <2>3, TasksChange DEF AddToTeam
<1>4. ASSUME NEW g \in Gigs, NEW u \in Staff, LeaveTeam(g, u) PROVE ScheduleInv'
  <2> DEFINE chief == IF gigTask[g].chief = u THEN NoEmployee ELSE gigTask[g].chief
             task == [gigTask[g] EXCEPT !.team = gigTask[g].team \ {u}, !.chief = chief, !.lead = chief]
  <2>1. chief \in Staff \cup {NoEmployee}
    BY <1>1
  <2>2. gigTask' = [gigTask EXCEPT ![g] = task]
    BY <1>4 DEF LeaveTeam
  <2> HIDE DEF chief
  <2>3. task \in TaskRows
    BY <1>1, <2>1 DEF TaskRows
  <2> QED BY <1>4, <2>2, <2>3, TasksChange DEF LeaveTeam
<1>5. ASSUME NEW g \in Gigs, StartWork(g) PROVE ScheduleInv'
  <2>1. [gigTask[g] EXCEPT !.started = TRUE] \in TaskRows
    BY <1>1 DEF TaskRows
  <2>2. gigTask' = [gigTask EXCEPT ![g] = [gigTask[g] EXCEPT !.started = TRUE]]
    BY <1>5 DEF StartWork
  <2> QED BY <1>5, <2>1, <2>2, TasksChange DEF StartWork
<1>6. ASSUME NEW g \in Gigs, CloseGig(g) PROVE ScheduleInv'
  <2>1. Changes("close") /\ slotRaces' = slotRaces /\ gigs[g].status = "CONFIRMED"
    BY <1>6 DEF CloseGig
  <2>2. gigs' = [gigs EXCEPT ![g] = [gigs[g] EXCEPT !.status = "CLOSED"]]
    BY <1>6 DEF CloseGig
  <2>3. [gigs[g] EXCEPT !.status = "CLOSED"] \in GigRows /\ [gigs[g] EXCEPT !.status = "CLOSED"].status = "CLOSED"
    BY <1>1 DEF GigRows
  <2>4. gigs' \in [Gigs -> GigRows] /\ gigTask' \in [Gigs -> TaskRows] /\ onDuty' \subseteq Staff /\ slots' \subseteq slots
    BY <1>6, <2>2, <2>3 DEF CloseGig, ScheduleInv, ScheduleTyped
  <2>5. \A h \in Gigs : gigs'[h] # gigs[h] => gigs[h].status = "CONFIRMED" /\ gigs'[h].status = "CLOSED"
    BY <2>1, <2>2, <2>3 DEF ScheduleInv, ScheduleTyped
  <2> QED BY <2>1, <2>4, <2>5, OthersChange
<1>7. ASSUME NEW u \in Staff, ChangeDuty(u) PROVE ScheduleInv'
  <2>1. Changes("duty") /\ slotRaces' = slotRaces
    BY <1>7 DEF ChangeDuty
  <2>2. gigs' \in [Gigs -> GigRows] /\ gigTask' \in [Gigs -> TaskRows] /\ onDuty' \subseteq Staff /\ slots' \subseteq slots
    BY <1>7 DEF ChangeDuty, ScheduleInv, ScheduleTyped
  <2>3. \A h \in Gigs : gigs'[h] # gigs[h] => gigs[h].status = "CONFIRMED" /\ gigs'[h].status = "CLOSED"
    BY <1>7 DEF ChangeDuty
  <2> QED BY <2>1, <2>2, <2>3, OthersChange
<1>8. ASSUME NEW s \in slots, RemoveSlot(s) PROVE ScheduleInv'
  <2>1. Changes("slots") /\ slotRaces' = slotRaces
    BY <1>8 DEF RemoveSlot
  <2>2. gigs' \in [Gigs -> GigRows] /\ gigTask' \in [Gigs -> TaskRows] /\ onDuty' \subseteq Staff /\ slots' \subseteq slots
    BY <1>8 DEF RemoveSlot, ScheduleInv, ScheduleTyped
  <2>3. \A h \in Gigs : gigs'[h] # gigs[h] => gigs[h].status = "CONFIRMED" /\ gigs'[h].status = "CLOSED"
    BY <1>8 DEF RemoveSlot
  <2> QED BY <2>1, <2>2, <2>3, OthersChange
<1> QED BY <1>2, <1>3, <1>4, <1>5, <1>6, <1>7, <1>8

LEMMA SlotsMeetBothWays ==
  \A s, t : SlotsMeet(s, t) <=> SlotsMeet(t, s)
BY DEF SlotsMeet, Overlap

LEMMA WriteSlotKeeps ==
  ASSUME ScheduleInv, NEW o \in GigRequests, WriteSlot(o)
  PROVE  ScheduleInv'
<1> USE DEF ScheduleInv
<1> DEFINE mine == gigOp[o].slot
<1>1. /\ gigOp[o].at = "write" /\ slots' = {s \in slots : s.id # mine.id} \cup {mine}
      /\ gigOp' = [Stirred EXCEPT ![o] = Over]
      /\ UNCHANGED <<onDuty, gigs, gigTask, slotRaces, schedulePlot>>
  BY DEF WriteSlot, OpIs
<1>2. /\ gigOp[o].kind = "slot"
      /\ mine \in SlotRows /\ mine.by = o /\ mine.from < mine.till /\ mine.first <= mine.last
      /\ \A s \in slots : s.id # mine.id /\ s.user = mine.user => ~SlotsMeet(mine, s) \/ {o, s.by} \in slotRaces
  BY <1>1 DEF SlotOf, OpIs
<1>3. ScheduleTyped'
  <2>1. slots' \subseteq SlotRows /\ \A s \in slots' : s.from < s.till /\ s.first <= s.last
    BY <1>1, <1>2 DEF ScheduleTyped
  <2>2. gigOp' \in [GigRequests -> OpRows]
    BY <1>1, StirredIsTyped, OverIsTyped
  <2>3. SomePlot'
    BY <1>1 DEF SomePlot, ScheduleTyped
  <2>4. onDuty' \subseteq Staff /\ gigs' \in [Gigs -> GigRows] /\ gigTask' \in [Gigs -> TaskRows]
    BY <1>1 DEF ScheduleTyped
  <2> QED BY <2>1, <2>2, <2>3, <2>4 DEF ScheduleTyped
<1> HIDE DEF mine
<1>4. SlotsApart'
  <2> SUFFICES ASSUME NEW s \in slots', NEW t \in slots', s.id # t.id, s.user = t.user, {s.by, t.by} \notin slotRaces
               PROVE  ~SlotsMeet(s, t)
    BY <1>1 DEF SlotsApart, SlotsMeet, Overlap
  <2>1. CASE s \in slots /\ t \in slots
    BY <2>1 DEF SlotsApart
  <2>2. CASE s = mine /\ t \in slots
    BY <1>2, <2>2
  <2>3. CASE t = mine /\ s \in slots
    <3>1. {s.by, t.by} = {t.by, s.by}
      OBVIOUS
    <3>2. ~SlotsMeet(t, s)
      BY <1>2, <2>3, <3>1
    <3> QED BY <3>2, SlotsMeetBothWays
  <2>4. s \in slots \/ s = mine
    BY <1>1
  <2>5. t \in slots \/ t = mine
    BY <1>1
  <2> QED BY <2>1, <2>2, <2>3, <2>4, <2>5
<1>5. \A p \in GigRequests : gigOp'[p] = IF p \in {o} THEN Over ELSE Stirred[p]
  BY <1>1, StirredIsTyped
<1>6. ASSUME NEW p \in GigRequests \ {o}
      PROVE  /\ Creating(p) => gigs'[gigOp[p].of].status = "NONE"
             /\ Underway(p) /\ gigOp[p].kind \in {"edit", "confirm", "move"} => gigs'[gigOp[p].of].status # "NONE"
             /\ Holding(p) /\ gigOp[p].kind = "confirm" => gigs'[gigOp[p].of].status = "DRAFT"
  BY <1>1 DEF RowOf
<1>7. ASSUME NEW p \in GigRequests \ {o}, OpIs(p, "write"), NEW s \in slots' \ slots
      PROVE  {p, s.by} \in slotRaces
  <2>1. gigOp[p].kind = "slot"
    BY <1>7 DEF SlotOf, OpIs
  <2>2. {p, o} \in slotRaces
    BY <1>2, <2>1 DEF OnlyOne, NotBoth
  <2>3. s = mine
    BY <1>1, <1>7
  <2> QED BY <1>2, <2>2, <2>3
<1>8. \A p \in GigRequests \ {o} : OpIs(p, "write") =>
           \A s \in slots' \ slots : s.id # gigOp[p].slot.id /\ s.user = gigOp[p].slot.user =>
             ~SlotsMeet(gigOp[p].slot, s) \/ {p, s.by} \in slotRaces
  BY <1>7
<1>9. {o} \in SUBSET GigRequests /\ slotRaces' = slotRaces
  BY <1>1
<1> QED BY <1>3, <1>4, <1>5, <1>6, <1>8, <1>9, WorldMoves

LEMMA RefuseGigKeeps ==
  ASSUME ScheduleInv, NEW o \in GigRequests, RefuseGig(o)
  PROVE  ScheduleInv'
BY OpsEnd DEF RefuseGig, Unmoved

LEMMA ScheduleStep ==
  ASSUME ScheduleInv, [ScheduleNext]_scheduleVars
  PROVE  ScheduleInv'
<1>1. CASE UNCHANGED scheduleVars
  <2> USE <1>1 DEF scheduleVars, ScheduleInv
  <2>1. ScheduleTyped'
    BY DEF ScheduleTyped, SomePlot
  <2>2. OnlyOne' /\ SlotsApart'
    BY DEF OnlyOne, NotBoth, SlotsApart, Holding, Creating, Underway, OpIs, SlotsMeet, Overlap
  <2>3. ASSUME NEW o \in GigRequests PROVE VerdictOf(o)' /\ RowOf(o)' /\ SlotOf(o)'
    <3>1. RosterOf(o)' = RosterOf(o) /\ AbleOf(o)' = AbleOf(o)
      BY SameWorld
    <3>2. VerdictOf(o)'
      BY <3>1 DEF VerdictOf, OpIs
    <3>3. RowOf(o)' /\ SlotOf(o)'
      BY DEF RowOf, SlotOf, Holding, Creating, Underway, OpIs, SlotsMeet, Overlap
    <3> QED BY <3>2, <3>3
  <2> QED BY <2>1, <2>2, <2>3
<1>2. CASE ScheduleNext
  BY <1>2, BeginGigKeeps, ReadGigKeeps, LockGigKeeps, LookAtRosterKeeps, LookAtBusyKeeps, RefuseGigKeeps, ReadTasksKeeps,
     SaveGigKeeps, BeginSlotKeeps, CompareSlotsKeeps, WriteSlotKeeps, OthersKeep DEF ScheduleNext
<1> QED BY <1>1, <1>2

LEMMA ScheduleStart ==
  ASSUME ScheduleInit
  PROVE  ScheduleInv
<1>1. PICK plot \in SchedulePlots :
        /\ schedulePlot = plot /\ onDuty = Staff /\ slots = plot.slots
        /\ gigs = [g \in Gigs |-> IF g \in plot.drafts THEN [status |-> "DRAFT", week |-> 1, start |-> 1] ELSE NoGig]
        /\ gigTask = [g \in Gigs |-> NoTask]
        /\ gigOp = [o \in GigRequests |-> NoOp]
        /\ slotRaces = {}
  BY DEF ScheduleInit
<1>2. NoGig \in GigRows /\ NoTask \in TaskRows /\ [status |-> "DRAFT", week |-> 1, start |-> 1] \in GigRows
  BY DEF NoGig, NoTask, GigRows, TaskRows
<1>3. NoOp \in OpRows /\ NoOp.at = "idle" /\ NoOp.kind = "none"
  BY <1>2 DEF NoOp, OpRows, GigKinds, GigPlaces
<1>4. ScheduleTyped
  <2>1. slots \subseteq SlotRows
    <3> SUFFICES ASSUME NEW s \in plot.slots PROVE s \in SlotRows
      BY <1>1
    <3>1. s \in [id : {s.id}, user : Staff, from : Nat, till : Nat, first : Nat, last : Nat, by : {0}]
      BY ScheduleAssumption
    <3>2. s.id \in SlotIds
      BY DEF SlotIds
    <3> QED BY <3>1, <3>2 DEF SlotRows
  <2>2. \A s \in slots : s.from < s.till /\ s.first <= s.last
    BY <1>1, ScheduleAssumption
  <2>3. SomePlot
    <3>1. plot \in [kinds : SUBSET {"create", "edit", "confirm", "move", "createSlot", "updateSlot"}, requests : Nat,
                    drafts : SUBSET Gigs, times : [weeks : SUBSET Nat, starts : SUBSET Nat], hours : Nat \ {0},
                    required : Nat, slots : {plot.slots}, shapes : SUBSET [from : Nat, till : Nat, first : Nat, last : Nat],
                    others : SUBSET {"team", "assign", "start", "close", "duty", "slots"}, changes : Nat]
      BY ScheduleAssumption
    <3>2. plot.changes \in Nat /\ schedulePlot = [plot EXCEPT !.changes = plot.changes]
      BY <1>1, <3>1
    <3> QED BY <3>2 DEF SomePlot
  <2>4. gigs \in [Gigs -> GigRows] /\ gigTask \in [Gigs -> TaskRows] /\ gigOp \in [GigRequests -> OpRows]
    BY <1>1, <1>2, <1>3
  <2> QED BY <1>1, <2>1, <2>2, <2>3, <2>4 DEF ScheduleTyped
<1>5. SlotsApart
  <2>1. \A s \in slots : s.from \in Nat /\ s.till \in Nat /\ s.first \in Nat /\ s.last \in Nat
    BY <1>4 DEF ScheduleTyped, SlotRows
  <2>2. \A s, t \in slots : s.id # t.id /\ s.user = t.user =>
          s.till <= t.from \/ t.till <= s.from \/ s.last < t.first \/ t.last < s.first
    BY <1>1, ScheduleAssumption
  <2> QED BY <2>1, <2>2 DEF SlotsApart, SlotsMeet, Overlap
<1>6. ASSUME NEW o \in GigRequests PROVE VerdictOf(o) /\ RowOf(o) /\ SlotOf(o)
  BY <1>1, <1>3 DEF VerdictOf, RowOf, SlotOf, Holding, Creating, Underway, OpIs
<1>7. OnlyOne
  BY <1>1, <1>3 DEF OnlyOne, NotBoth, Holding, Creating, Underway, OpIs
<1> QED BY <1>4, <1>5, <1>6, <1>7 DEF ScheduleInv
(* Two stretches of hours share an hour when each begins before the other  *)
(* ends; one lies within another when its first and its last hour do.      *)
LEMMA HoursShared ==
  ASSUME NEW a \in Nat, NEW b \in Nat, NEW c \in Nat, NEW d \in Nat, a < b, c < d
  PROVE  (\E h \in a..(b - 1) : h \in c..(d - 1)) <=> a < d /\ c < b
<1>1. ASSUME a < d, c < b PROVE \E h \in a..(b - 1) : h \in c..(d - 1)
  <2>1. CASE a <= c
    <3>1. c \in a..(b - 1) /\ c \in c..(d - 1)
      BY <1>1, <2>1
    <3> QED BY <3>1
  <2>2. CASE c < a
    <3>1. a \in a..(b - 1) /\ a \in c..(d - 1)
      BY <1>1, <2>2
    <3> QED BY <3>1
  <2> QED BY <2>1, <2>2
<1> QED BY <1>1

LEMMA HoursWithin ==
  ASSUME NEW a \in Nat, NEW b \in Nat, NEW c \in Nat, NEW d \in Nat, a < b
  PROVE  (\A h \in a..(b - 1) : h \in c..(d - 1)) <=> c <= a /\ b <= d
<1>1. ASSUME \A h \in a..(b - 1) : h \in c..(d - 1) PROVE c <= a /\ b <= d
  <2>1. a \in a..(b - 1) /\ b - 1 \in a..(b - 1)
    OBVIOUS
  <2> QED BY <1>1, <2>1
<1> QED BY <1>1

LEMMA RowTypes ==
  ASSUME NEW g \in GigRows, SomePlot
  PROVE  g.week \in Nat /\ g.start \in Nat /\ Till(g) \in Nat /\ g.start < Till(g)
<1>1. g.week \in Nat /\ g.start \in Nat
  BY DEF GigRows
<1> QED BY <1>1, PlotTypes DEF Till

LEMMA HoursMeet ==
  ASSUME NEW g \in GigRows, NEW h \in GigRows, SomePlot
  PROVE  (HoursOf(g) \cap HoursOf(h) = {}) <=> ~Clash(g, h)
<1>1. /\ g.week \in Nat /\ g.start \in Nat /\ Till(g) \in Nat /\ g.start < Till(g)
      /\ h.week \in Nat /\ h.start \in Nat /\ Till(h) \in Nat /\ h.start < Till(h)
  BY RowTypes
<1>2. (\E x \in g.start..(Till(g) - 1) : x \in h.start..(Till(h) - 1)) <=> g.start < Till(h) /\ h.start < Till(g)
  BY <1>1, HoursShared
<1>3. ASSUME Clash(g, h) PROVE HoursOf(g) \cap HoursOf(h) # {}
  <2>1. PICK x \in g.start..(Till(g) - 1) : x \in h.start..(Till(h) - 1)
    BY <1>2, <1>3 DEF Clash, Overlap
  <2>2. <<g.week, x>> \in HoursOf(g) /\ <<g.week, x>> \in HoursOf(h)
    BY <1>3, <2>1 DEF HoursOf, Clash
  <2> QED BY <2>2
<1>4. ASSUME HoursOf(g) \cap HoursOf(h) # {} PROVE Clash(g, h)
  <2>1. PICK e \in HoursOf(g) : e \in HoursOf(h)
    BY <1>4
  <2>2. PICK x \in g.start..(Till(g) - 1) : e = <<g.week, x>>
    BY <2>1 DEF HoursOf
  <2>3. PICK y \in h.start..(Till(h) - 1) : e = <<h.week, y>>
    BY <2>1 DEF HoursOf
  <2>4. x = y /\ g.week = h.week
    BY <2>2, <2>3
  <2> QED BY <1>2, <2>2, <2>3, <2>4 DEF Clash, Overlap
<1> QED BY <1>3, <1>4

LEMMA SlotCovers ==
  ASSUME NEW g \in GigRows, NEW s \in SlotRows, SomePlot
  PROVE  /\ g.week \in s.first..s.last <=> SlotOnDay(s, g.week)
         /\ HoursOf(g) \subseteq {<<g.week, h>> : h \in s.from..(s.till - 1)} <=> s.from <= g.start /\ Till(g) <= s.till
<1>1. g.week \in Nat /\ g.start \in Nat /\ Till(g) \in Nat /\ g.start < Till(g)
  BY RowTypes
<1>2. s.from \in Nat /\ s.till \in Nat /\ s.first \in Nat /\ s.last \in Nat
  BY DEF SlotRows
<1>3. (\A h \in g.start..(Till(g) - 1) : h \in s.from..(s.till - 1)) <=> s.from <= g.start /\ Till(g) <= s.till
  BY <1>1, <1>2, HoursWithin
<1>4. HoursOf(g) \subseteq {<<g.week, h>> : h \in s.from..(s.till - 1)}
        <=> \A h \in g.start..(Till(g) - 1) : h \in s.from..(s.till - 1)
  <2>1. \A A, B : {<<g.week, h>> : h \in A} \subseteq {<<g.week, h>> : h \in B} <=> A \subseteq B
    <3> SUFFICES ASSUME NEW A, NEW B PROVE {<<g.week, h>> : h \in A} \subseteq {<<g.week, h>> : h \in B} <=> A \subseteq B
      OBVIOUS
    <3>1. ASSUME {<<g.week, h>> : h \in A} \subseteq {<<g.week, h>> : h \in B}, NEW h \in A PROVE h \in B
      <4>1. <<g.week, h>> \in {<<g.week, x>> : x \in B}
        BY <3>1
      <4> QED BY <4>1
    <3> QED BY <3>1
  <2> QED BY <2>1 DEF HoursOf
<1> QED BY <1>1, <1>2, <1>3, <1>4 DEF SlotOnDay

LEMMA FreeIsAble ==
  ASSUME ScheduleTyped, NEW o \in GigRequests
  PROVE  {u \in Staff : FreeAllHours(u, gigOp[o].gig, But(o))} = AbleOf(o)
<1> DEFINE g == gigOp[o].gig
<1>1. g \in GigRows /\ SomePlot
  BY ScheduleTypes DEF ScheduleTyped
<1> HIDE DEF g
<1>2. ASSUME NEW u \in Staff PROVE FreeAllHours(u, g, But(o)) <=> u \in ScheduledUsers(g) /\ u \notin BusyUsers(ScheduledUsers(g), g, But(o))
  <2>1. \A s \in slots : /\ g.week \in s.first..s.last <=> SlotOnDay(s, g.week)
                         /\ HoursOf(g) \subseteq {<<g.week, h>> : h \in s.from..(s.till - 1)}
                              <=> s.from <= g.start /\ Till(g) <= s.till
    BY <1>1, SlotCovers DEF ScheduleTyped
  <2>2. \A h \in Gigs : HoursOf(g) \cap HoursOf(gigs[h]) = {} <=> ~Clash(g, gigs[h])
    BY <1>1, HoursMeet DEF ScheduleTyped
  <2>3. \A h \in Gigs : u \in gigTask[h].team \cup {gigTask[h].lead} <=> u \in Assigned(gigTask[h])
    BY ScheduleAssumption DEF Assigned
  <2> DEFINE today == {s \in slots : s.user = u /\ SlotOnDay(s, g.week)}
  <2>4. {s \in slots : s.user = u /\ g.week \in s.first..s.last} = today
    BY <2>1
  <2>5. u \in ScheduledUsers(g) <=> u \in onDuty /\ (today # {} => \E s \in today : s.from <= g.start /\ Till(g) <= s.till)
    BY DEF ScheduledUsers
  <2>6. (\E s \in today : HoursOf(g) \subseteq {<<g.week, h>> : h \in s.from..(s.till - 1)})
          <=> \E s \in today : s.from <= g.start /\ Till(g) <= s.till
    BY <2>1
  <2> HIDE DEF today
  <2>7. u \in ScheduledUsers(g) =>
          (u \in BusyUsers(ScheduledUsers(g), g, But(o)) <=>
             \E h \in Gigs \ {But(o)} : gigs[h].status = "CONFIRMED" /\ u \in Assigned(gigTask[h]) /\ Clash(g, gigs[h]))
    BY DEF BusyUsers, Others
  <2>8. FreeAllHours(u, g, But(o)) <=>
          /\ u \in onDuty
          /\ today = {} \/ \E s \in today : HoursOf(g) \subseteq {<<g.week, h>> : h \in s.from..(s.till - 1)}
          /\ \A other \in Gigs \ {But(o)} :
               gigs[other].status = "CONFIRMED" /\ u \in gigTask[other].team \cup {gigTask[other].lead}
                 => HoursOf(g) \cap HoursOf(gigs[other]) = {}
    BY <2>4 DEF FreeAllHours
  <2> QED BY <2>2, <2>3, <2>5, <2>6, <2>7, <2>8
<1>3. ScheduledUsers(g) \subseteq Staff
  BY DEF ScheduledUsers, ScheduleTyped
<1>4. AbleOf(o) = ScheduledUsers(g) \ BusyUsers(ScheduledUsers(g), g, But(o))
  BY DEF AbleOf, RosterOf, g
<1>5. {u \in Staff : FreeAllHours(u, g, But(o))} = AbleOf(o)
  BY <1>2, <1>3, <1>4
<1> QED BY <1>5 DEF g

LEMMA VerdictsFollow ==
  ScheduleInv => VerdictsAreRight
<1> SUFFICES ASSUME ScheduleInv, NEW o \in GigRequests, ~gigOp[o].stale
             PROVE  LET free == {u \in Staff : FreeAllHours(u, gigOp[o].gig, But(o))} IN
                      /\ OpIs(o, "granted") => Cardinality(free) >= schedulePlot.required
                      /\ OpIs(o, "refused") => Cardinality(free) < schedulePlot.required
  BY DEF VerdictsAreRight, But
<1>1. {u \in Staff : FreeAllHours(u, gigOp[o].gig, But(o))} = AbleOf(o)
  BY FreeIsAble DEF ScheduleInv
<1>2. Cardinality(AbleOf(o)) <= Cardinality(RosterOf(o)) /\ Cardinality(AbleOf(o)) \in Nat /\ Cardinality(RosterOf(o)) \in Nat
  BY RosterIsFinite, FS_Subset DEF ScheduleInv
<1>3. schedulePlot.required \in Nat
  BY PlotTypes DEF ScheduleInv, ScheduleTyped
<1> QED BY <1>1, <1>2, <1>3 DEF ScheduleInv, VerdictOf

LEMMA DisjointFollow ==
  ScheduleInv => SlotsDisjoint
<1> SUFFICES ASSUME ScheduleInv, NEW s \in slots, NEW t \in slots, ~SlotsMeet(s, t)
             PROVE  SlotHours(s) \cap SlotHours(t) = {}
  BY DEF ScheduleInv, SlotsApart, SlotsDisjoint
<1>1. /\ s.from \in Nat /\ s.till \in Nat /\ s.first \in Nat /\ s.last \in Nat /\ s.from < s.till
      /\ t.from \in Nat /\ t.till \in Nat /\ t.first \in Nat /\ t.last \in Nat /\ t.from < t.till
  BY DEF ScheduleInv, ScheduleTyped, SlotRows
<1> SUFFICES ASSUME NEW e \in SlotHours(s), e \in SlotHours(t) PROVE FALSE
  OBVIOUS
<1>2. PICK w \in s.first..s.last, h \in s.from..(s.till - 1) : e = <<w, h>>
  BY DEF SlotHours
<1>3. w \in t.first..t.last /\ h \in t.from..(t.till - 1)
  BY <1>2 DEF SlotHours
<1> QED BY <1>1, <1>2, <1>3 DEF SlotsMeet, Overlap

LEMMA ScheduleTypesFollow ==
  ScheduleInv => ScheduleTypeOK
<1> SUFFICES ASSUME ScheduleInv PROVE ScheduleTypeOK
  OBVIOUS
<1> USE DEF ScheduleInv, ScheduleTyped
<1>1. \A s \in slots : s.user \in Staff /\ s.from < s.till /\ s.first <= s.last
  BY DEF SlotRows
<1>2. \A g \in Gigs : gigs[g].status \in {"NONE", "DRAFT", "CONFIRMED", "CLOSED"}
  BY DEF GigRows
<1>3. \A g \in Gigs : gigTask[g].team \subseteq Staff /\ {gigTask[g].lead, gigTask[g].chief} \subseteq Staff \cup {NoEmployee}
  <2>1. \A g \in Gigs : gigTask[g] \in TaskRows
    OBVIOUS
  <2> QED BY <2>1 DEF TaskRows
<1>4. \A o \in GigRequests : gigOp[o].free \subseteq Staff
  BY DEF OpRows
<1> QED BY <1>1, <1>2, <1>3, <1>4 DEF ScheduleTypeOK

(* The slots, the bookings and the verdicts on them (StaffSchedule):       *)
(* whenever a request was granted or refused and nothing it read changed   *)
(* since, that is what the staff's hours say, and two slots of a user      *)
(* share an hour only when the requests that wrote them overlapped.        *)
THEOREM ScheduleAlwaysSound == ScheduleSpec => [](ScheduleTypeOK /\ VerdictsAreRight /\ SlotsDisjoint)
<1>1. ScheduleInv => ScheduleTypeOK /\ VerdictsAreRight /\ SlotsDisjoint
  BY VerdictsFollow, DisjointFollow, ScheduleTypesFollow
<1> QED BY <1>1, ScheduleStart, ScheduleStep, PTL DEF ScheduleSpec

(* What a step does to the time of a booking and to a task that started.   *)
LEMMA CommitmentsKept ==
  ASSUME ScheduleInv, ScheduleNext, NEW g \in Gigs
  PROVE  /\ (gigs[g].status = "CONFIRMED" /\ <<gigs[g].week, gigs[g].start>> # <<gigs'[g].week, gigs'[g].start>>)
              => Keeps(g, {"move"})
         /\ (gigTask[g].started /\ ~gigTask'[g].started) => Keeps(g, {})
<1>1. gigs[g] \in GigRows /\ gigTask[g] \in TaskRows
  BY DEF ScheduleInv, ScheduleTyped
<1> DEFINE Row == gigs'[g].week = gigs[g].week /\ gigs'[g].start = gigs[g].start
           Work == gigTask'[g].started = gigTask[g].started \/ gigTask'[g].started
<1>2. ASSUME NEW o \in GigRequests, SaveGig(o), ~(Row /\ Work) PROVE
        /\ (gigs[g].status = "CONFIRMED" /\ ~Row) => Keeps(g, {"move"})
        /\ (gigTask[g].started /\ ~gigTask'[g].started) => Keeps(g, {})
  <2> DEFINE op == gigOp[o]
  <2>1. /\ op.at = (IF op.kind = "move" THEN "save" ELSE "granted")
        /\ op.kind \in {"create", "edit", "confirm", "move"}
        /\ gigs' = [gigs EXCEPT ![op.of] = SavedGig(gigs[op.of], op)]
        /\ gigTask' = [gigTask EXCEPT ![op.of] = SavedTask(gigTask[op.of], op)]
        /\ gigOp' = [Stirred EXCEPT ![o] = Over]
    BY <1>2 DEF SaveGig, OpIs
  <2>2. op \in OpRows /\ RowOf(o) /\ op.behind \in BOOLEAN
    BY ScheduleTypes DEF ScheduleInv
  <2>3. op.of = g
    BY <1>2, <2>1
  <2>4. gigOp'[o].at = "done" /\ op.at # "done"
    BY <2>1, StirredIsTyped, OverIsTyped DEF ScheduleInv
  <2>5. (op.kind = "move" \/ op.behind) => Keeps(g, {"move"})
    BY <2>3, <2>4 DEF Keeps
  <2>6. op.behind => Keeps(g, {})
    BY <2>3, <2>4 DEF Keeps
  <2>7. op.kind # "move" => gigTask'[g] = gigTask[g]
    BY <2>1, <2>3 DEF SavedTask, ScheduleInv, ScheduleTyped
  <2>8. gigTask[g].started /\ ~gigTask'[g].started => op.behind
    BY <2>1, <2>2, <2>3, <2>7 DEF RowOf, OpIs
  <2>9. gigs[g].status = "CONFIRMED" => op.kind \in {"edit", "move"}
    BY <2>1, <2>2, <2>3 DEF RowOf, OpIs, Holding, Creating, Underway
  <2>10. gigs[g].status = "CONFIRMED" /\ op.kind = "edit" => op.behind
    BY <2>1, <2>2, <2>3 DEF RowOf, OpIs, Underway
  <2> QED BY <2>5, <2>6, <2>8, <2>9, <2>10
<1>3. ASSUME ~(Row /\ Work) PROVE \E o \in GigRequests : SaveGig(o)
  <2>1. ASSUME UNCHANGED <<gigs, gigTask>> PROVE FALSE
    BY <1>3, <2>1
  <2>2. ASSUME NEW h \in Gigs, NEW u \in Staff,
               AssignTo(h, u) \/ AddToTeam(h, u, TRUE) \/ AddToTeam(h, u, FALSE) \/ LeaveTeam(h, u)
        PROVE  FALSE
    <3>1. gigs' = gigs /\ gigTask'[g].started = gigTask[g].started
      BY <1>1, <2>2 DEF AssignTo, AddToTeam, LeaveTeam, ScheduleInv, ScheduleTyped, TaskRows
    <3> QED BY <1>3, <3>1
  <2>3. ASSUME NEW h \in Gigs, StartWork(h) PROVE FALSE
    <3>1. gigs' = gigs /\ (gigTask'[g] = gigTask[g] \/ gigTask'[g].started)
      BY <1>1, <2>3 DEF StartWork, ScheduleInv, ScheduleTyped, TaskRows
    <3> QED BY <1>3, <3>1
  <2>4. ASSUME NEW h \in Gigs, CloseGig(h) PROVE FALSE
    <3>1. gigTask' = gigTask /\ gigs'[g].week = gigs[g].week /\ gigs'[g].start = gigs[g].start
      BY <1>1, <2>4 DEF CloseGig, ScheduleInv, ScheduleTyped, GigRows
    <3> QED BY <1>3, <3>1
  <2> QED BY <2>1, <2>2, <2>3, <2>4 DEF ScheduleNext, BeginGig, ReadGig, LockGig, LookAtRoster, LookAtBusy, RefuseGig,
             ReadTasks, BeginSlot, CompareSlots, WriteSlot, ChangeDuty, RemoveSlot
<1> QED BY <1>2, <1>3

(* What was promised stands (StaffSchedule): a confirmed booking changes   *)
(* its time, a started task goes back, only by the request that may, or by *)
(* one that read the booking before.                                       *)
THEOREM CommitmentsAlwaysStand == ScheduleSpec => CommitmentsStand
<1>1. ASSUME ScheduleInv, [ScheduleNext]_scheduleVars
      PROVE  [\A g \in Gigs :
                /\ (gigs[g].status = "CONFIRMED" /\ <<gigs[g].week, gigs[g].start>> # <<gigs'[g].week, gigs'[g].start>>)
                     => Keeps(g, {"move"})
                /\ (gigTask[g].started /\ ~gigTask'[g].started) => Keeps(g, {})]_scheduleVars
  BY <1>1, CommitmentsKept
<1> QED BY <1>1, ScheduleStart, ScheduleStep, PTL DEF ScheduleSpec, CommitmentsStand
------------------------------------------------------------------------------
(* The chain of AuditChain is unbroken for any number of logs, workers,    *)
(* attempts and faults, as long as no dead letter was stored.  The         *)
(* strengthening says who holds the advisory lock and that the one who has *)
(* read under it knows the end of the chain.                               *)
Inside(w) == writerAt[w] \in {"locked", "read"}

LockFits ==
  /\ \A w \in Writers : Inside(w) => auditLock = w
  /\ auditLock # NoWriter => Inside(auditLock)

ReadersKnowTheEnd ==
  NoDeadLetter => \A w \in Writers : writerAt[w] = "read" =>
                     lastLog[w].seq = Len(auditRows) /\ lastLog[w].hash = Len(auditRows)

AttemptsLeft ==
  \A w \in Writers : writerAt[w] \in {"off", "due", "locked", "read"} => attemptsOf[w] < AuditAttempts

AuditInv == AuditTypeOK /\ LockFits /\ ReadersKnowTheEnd /\ AttemptsLeft /\ ChainUnbroken
----------------------------------------------------------------------------
(* The element at an index of a sequence is of the type of its elements.   *)
LEMMA ElementOfSeq ==
  ASSUME NEW S, NEW seq \in Seq(S), NEW i \in DOMAIN seq
  PROVE  seq[i] \in S
OBVIOUS

(* Under the invariant the entry an aggregate over the numbers finds last  *)
(* is the last one written.                                                *)
LEMMA LastIsTheEnd ==
  ASSUME AuditTypeOK, ChainUnbroken, NoDeadLetter, NEW i \in DOMAIN auditRows, IsLast(i)
  PROVE  i = Len(auditRows) /\ auditRows[i].seq = Len(auditRows)
<1>1. DOMAIN auditRows = 1..Len(auditRows) /\ Len(auditRows) \in Nat
  BY DEF AuditTypeOK
<1>2. \A j \in DOMAIN auditRows : auditRows[j].seq = j
  BY DEF ChainUnbroken
<1>3. Unnumbered = {}
  BY <1>1, <1>2 DEF Unnumbered
<1>4. Len(auditRows) \in DOMAIN auditRows /\ auditRows[Len(auditRows)].seq <= auditRows[i].seq
  BY <1>1, <1>3 DEF IsLast
<1> QED BY <1>1, <1>2, <1>4

(* The entry of a writer that knows the end continues the chain.           *)
LEMMA EntryContinues ==
  ASSUME AuditInv, NEW w \in Writers, writerAt[w] = "read", auditRows' = Append(auditRows, Entry(w))
  PROVE  /\ AuditTypeOK => auditRows' \in Seq([seq : Nat, prev : Nat, log : Logs, dead : BOOLEAN])
         /\ ChainUnbroken'
<1> DEFINE E == Entry(w)
<1>1. E = [seq |-> lastLog[w].seq + 1, prev |-> lastLog[w].hash, log |-> w[1], dead |-> FALSE]
  BY DEF Entry
<1>2. E \in [seq : Nat, prev : Nat, log : Logs, dead : BOOLEAN]
  BY <1>1 DEF AuditInv, AuditTypeOK, Writers, Routes
<1>3. auditRows \in Seq([seq : Nat, prev : Nat, log : Logs, dead : BOOLEAN])
  BY DEF AuditInv, AuditTypeOK
<1>4. auditRows' = Append(auditRows, E)
  OBVIOUS
<1> HIDE DEF E
<1>5. auditRows' \in Seq([seq : Nat, prev : Nat, log : Logs, dead : BOOLEAN])
  BY <1>2, <1>3, <1>4
<1>6. /\ DOMAIN auditRows' = 1..(Len(auditRows) + 1) /\ DOMAIN auditRows = 1..Len(auditRows)
      /\ \A i \in DOMAIN auditRows : auditRows'[i] = auditRows[i]
      /\ auditRows'[Len(auditRows) + 1] = E
      /\ Len(auditRows) \in Nat
  BY <1>2, <1>3, <1>4
<1>7. ASSUME NoDeadLetter' PROVE \A i \in DOMAIN auditRows' : auditRows'[i].seq = i /\ auditRows'[i].prev = i - 1
  <2>1. NoDeadLetter
    BY <1>6, <1>7 DEF NoDeadLetter
  <2>2. E.seq = Len(auditRows) + 1 /\ E.prev = Len(auditRows)
    BY <1>1, <2>1 DEF AuditInv, ReadersKnowTheEnd
  <2>3. \A i \in DOMAIN auditRows : auditRows[i].seq = i /\ auditRows[i].prev = i - 1
    BY <2>1 DEF AuditInv, ChainUnbroken
  <2> QED BY <1>6, <2>2, <2>3
<1> QED BY <1>5, <1>7 DEF ChainUnbroken
----------------------------------------------------------------------------
(* The invariant holds of an empty trail nobody writes to yet.             *)
THEOREM AuditInitially == AuditInit => AuditInv
<1> SUFFICES ASSUME AuditInit PROVE AuditInv
  OBVIOUS
<1>1. AuditTypeOK
  BY AuditAssumption DEF AuditInit, AuditTypeOK, NoEntry
<1> QED BY <1>1, AuditAssumption DEF AuditInit, AuditInv, LockFits, ReadersKnowTheEnd, AttemptsLeft, ChainUnbroken, Inside

(* A step that moves writers between places at which they neither hold the *)
(* lock nor know anything, and leaves rows and lock alone, keeps the rest. *)
LEMMA BesideTheLock ==
  ASSUME AuditInv, AuditTypeOK', AttemptsLeft', UNCHANGED <<auditRows, auditLock, lastLog>>,
         \A w \in Writers : Inside(w)' => writerAt'[w] = writerAt[w],
         \A w \in Writers : Inside(w) => writerAt'[w] = writerAt[w]
  PROVE  AuditInv'
<1>1. ChainUnbroken'
  BY DEF AuditInv, ChainUnbroken, NoDeadLetter
<1>2. ReadersKnowTheEnd'
  BY DEF AuditInv, ReadersKnowTheEnd, NoDeadLetter, Inside
<1>3. LockFits'
  BY DEF AuditInv, AuditTypeOK, LockFits, Inside
<1> QED BY <1>1, <1>2, <1>3 DEF AuditInv

(* A log enters: its writers are due and hold nothing.                     *)
LEMMA LogStep ==
  ASSUME AuditInv, NEW l, LogByQueue(l) \/ LogWithoutQueue(l) \/ QueueAddFails(l) \/ RequestDies(l)
  PROVE  AuditInv'
<1> USE DEF AuditInv, Fine, Trouble, WriterGoes, Unlogged
<1>1. AuditTypeOK'
  <2>1. CASE LogByQueue(l) \/ LogWithoutQueue(l)
    BY <2>1 DEF LogByQueue, LogWithoutQueue, AuditTypeOK
  <2>2. ASSUME QueueAddFails(l) PROVE AuditTypeOK'
    <3>1. \A w \in Writers : writerAt'[w] \in {"due", writerAt[w]}
      BY <2>2 DEF QueueAddFails
    <3>2. writerAt' \in [Writers -> {"off", "due", "locked", "read", "done", "failed", "lost"}]
      BY <2>2, <3>1 DEF QueueAddFails, AuditTypeOK
    <3>3. troubles' \in Nat /\ UNCHANGED <<auditRows, auditLock, attemptsOf, lastLog>>
      BY <2>2 DEF QueueAddFails, AuditTypeOK
    <3> QED BY <3>2, <3>3 DEF AuditTypeOK
  <2>3. ASSUME RequestDies(l) PROVE AuditTypeOK'
    <3>1. writerAt' \in [Writers -> {"off", "due", "locked", "read", "done", "failed", "lost"}]
      BY <2>3 DEF RequestDies, AuditTypeOK
    <3>2. troubles' \in Nat /\ UNCHANGED <<auditRows, auditLock, attemptsOf, lastLog>>
      BY <2>3 DEF RequestDies, AuditTypeOK
    <3> QED BY <3>1, <3>2 DEF AuditTypeOK
  <2> QED BY <2>1, <2>2, <2>3
<1>2. /\ \A w \in Writers : writerAt'[w] \in {writerAt[w], "due", "lost"}
      /\ \A w \in Writers : writerAt'[w] # writerAt[w] => writerAt[w] = "off"
      /\ UNCHANGED <<auditRows, auditLock, attemptsOf, lastLog>>
  BY DEF LogByQueue, LogWithoutQueue, QueueAddFails, RequestDies, AuditTypeOK, Writers, Routes
<1>3. AttemptsLeft'
  BY <1>2 DEF AttemptsLeft
<1> QED BY <1>1, <1>2, <1>3, BesideTheLock DEF Inside

(* pg_advisory_xact_lock is granted to one writer when no one else has it. *)
LEMMA TakeLockStep ==
  ASSUME AuditInv, NEW w \in Writers, TakeLock(w)
  PROVE  AuditInv'
<1> USE DEF AuditInv, TakeLock, Fine, WriterGoes, LockIsFree
<1>1. AuditTypeOK' /\ AttemptsLeft'
  BY DEF AuditTypeOK, AttemptsLeft
<1>2. \A v \in Writers : writerAt'[v] = IF v = w THEN "locked" ELSE writerAt[v]
  BY DEF AuditTypeOK
<1>3. \A v \in Writers : ~Inside(v)
  <2>1. NoWriter \notin Writers
    BY DEF NoWriter, Writers, Routes
  <2> QED BY <2>1 DEF LockFits
<1>4. LockFits'
  BY <1>2, <1>3 DEF LockFits, Inside
<1>5. ReadersKnowTheEnd' /\ ChainUnbroken'
  BY <1>2, <1>3 DEF ReadersKnowTheEnd, ChainUnbroken, NoDeadLetter, Inside
<1> QED BY <1>1, <1>4, <1>5

(* What a writer reads under the lock is the end of the trail.             *)
LEMMA ReadLastStep ==
  ASSUME AuditInv, NEW w \in Writers, ReadLast(w)
  PROVE  AuditInv'
<1> USE DEF AuditInv, ReadLast, Fine, WriterGoes
<1>1. AuditTypeOK
  OBVIOUS
<1>2. \A v \in Writers : writerAt'[v] = IF v = w THEN "read" ELSE writerAt[v]
  BY DEF AuditTypeOK
<1>3. auditRows \in Seq([seq : Nat, prev : Nat, log : Logs, dead : BOOLEAN]) /\ DOMAIN auditRows = 1..Len(auditRows)
      /\ Len(auditRows) \in Nat
  BY DEF AuditTypeOK
<1>4. /\ lastLog' \in [Writers -> [seq : Nat, hash : Nat]]
      /\ NoDeadLetter => lastLog'[w].seq = Len(auditRows) /\ lastLog'[w].hash = Len(auditRows)
  <2>1. CASE auditRows = <<>> /\ lastLog' = [lastLog EXCEPT ![w] = NoEntry]
    BY <2>1 DEF AuditTypeOK, NoEntry
  <2>2. ASSUME NEW i \in DOMAIN auditRows, IsLast(i),
               lastLog' = [lastLog EXCEPT ![w] = [seq |-> auditRows[i].seq, hash |-> i]]
        PROVE  <1>4!1 /\ <1>4!2
    <3>1. auditRows[i] \in [seq : Nat, prev : Nat, log : Logs, dead : BOOLEAN]
      BY <1>3, ElementOfSeq
    <3>2. i \in Nat /\ auditRows[i].seq \in Nat
      BY <1>3, <3>1
    <3>3. NoDeadLetter => i = Len(auditRows) /\ auditRows[i].seq = Len(auditRows)
      BY <2>2, LastIsTheEnd
    <3> QED BY <2>2, <3>2, <3>3 DEF AuditTypeOK
  <2> QED BY <2>1, <2>2
<1>5. AuditTypeOK' /\ AttemptsLeft'
  BY <1>4 DEF AuditTypeOK, AttemptsLeft
<1>6. LockFits'
  BY <1>2 DEF LockFits, Inside
<1>7. ReadersKnowTheEnd'
  <2>1. \A v \in Writers : writerAt'[v] = "read" => v = w
    BY <1>2 DEF LockFits, Inside
  <2> QED BY <1>4, <2>1 DEF ReadersKnowTheEnd, NoDeadLetter
<1> QED BY <1>5, <1>6, <1>7 DEF ChainUnbroken, NoDeadLetter

(* The commit, whether or not its writer learns of it.                     *)
LEMMA AuditCommitStep ==
  ASSUME AuditInv, NEW w \in Writers, WriteEntry(w) \/ CommitUnanswered(w)
  PROVE  AuditInv'
<1> USE DEF AuditInv, Fine, Trouble, WriterGoes
<1>1. /\ writerAt[w] = "read" /\ auditLock' = NoWriter /\ lastLog' = lastLog
      /\ auditRows' = Append(auditRows, Entry(w))
  BY DEF WriteEntry, CommitUnanswered
<1>2. auditRows' \in Seq([seq : Nat, prev : Nat, log : Logs, dead : BOOLEAN]) /\ ChainUnbroken'
  BY <1>1, EntryContinues
<1>3. /\ \A v \in Writers : v # w => writerAt'[v] = writerAt[v] /\ attemptsOf'[v] = attemptsOf[v]
      /\ writerAt'[w] \in {"done", "lost", "failed"} \/ (writerAt'[w] = "due" /\ attemptsOf[w] + 1 < AuditAttempts /\ attemptsOf'[w] = attemptsOf[w] + 1)
      /\ attemptsOf' \in [Writers -> 0..AuditAttempts]
      /\ writerAt' \in [Writers -> {"off", "due", "locked", "read", "done", "failed", "lost"}]
      /\ troubles' \in Nat
  <2>1. CASE WriteEntry(w)
    BY <2>1 DEF WriteEntry, AuditTypeOK
  <2>2. CASE CommitUnanswered(w)
    <3>1. attemptsOf[w] < AuditAttempts /\ attemptsOf[w] \in Nat
      BY <1>1 DEF AttemptsLeft, AuditTypeOK
    <3>2. attemptsOf' = [attemptsOf EXCEPT ![w] = attemptsOf[w] + 1] /\ writerAt' = [writerAt EXCEPT ![w] = AfterTrouble(w)]
      BY <2>2 DEF CommitUnanswered
    <3>3. AfterTrouble(w) \in {"lost", "failed"} \/ (AfterTrouble(w) = "due" /\ attemptsOf[w] + 1 < AuditAttempts)
      BY DEF AfterTrouble
    <3> QED BY <2>2, <3>1, <3>2, <3>3, AuditAssumption DEF CommitUnanswered, AuditTypeOK
  <2> QED BY <2>1, <2>2
<1>4. AuditTypeOK'
  BY <1>1, <1>2, <1>3 DEF AuditTypeOK
<1>5. AttemptsLeft'
  BY <1>3 DEF AttemptsLeft
<1>6. \A v \in Writers : ~Inside(v)'
  BY <1>1, <1>3 DEF LockFits, Inside
<1> QED BY <1>1, <1>2, <1>4, <1>5, <1>6 DEF LockFits, ReadersKnowTheEnd, Inside

(* A failed attempt or a crash gives the lock back and writes nothing.     *)
LEMMA FailStep ==
  ASSUME AuditInv, NEW w \in Writers, TransactionFails(w)
  PROVE  AuditInv'
<1> USE DEF AuditInv, TransactionFails, Trouble, WriterGoes
<1>1. attemptsOf[w] < AuditAttempts /\ attemptsOf[w] \in Nat
  BY DEF AttemptsLeft, AuditTypeOK
<1>2. AfterTrouble(w) \in {"lost", "failed"} \/ (AfterTrouble(w) = "due" /\ attemptsOf[w] + 1 < AuditAttempts)
  BY DEF AfterTrouble
<1>3. /\ \A v \in Writers : writerAt'[v] = IF v = w THEN AfterTrouble(w) ELSE writerAt[v]
      /\ \A v \in Writers : attemptsOf'[v] = IF v = w THEN attemptsOf[w] + 1 ELSE attemptsOf[v]
  BY DEF AuditTypeOK
<1>4. AuditTypeOK'
  BY <1>1, <1>2, AuditAssumption DEF AuditTypeOK, Releases
<1>5. AttemptsLeft'
  BY <1>1, <1>2, <1>3 DEF AttemptsLeft
<1>6. LockFits'
  BY <1>2, <1>3 DEF LockFits, Inside, Releases, AuditTypeOK
<1>7. ReadersKnowTheEnd' /\ ChainUnbroken'
  BY <1>2, <1>3 DEF ReadersKnowTheEnd, ChainUnbroken, NoDeadLetter
<1> QED BY <1>4, <1>5, <1>6, <1>7

(* With a dead letter in the log there is nothing left to claim.           *)
LEMMA DeadLetterStep ==
  ASSUME AuditInv, NEW w \in Writers, StoreDeadLetter(w) \/ DeadLetterFails(w)
  PROVE  AuditInv'
<1> USE DEF AuditInv, Fine, Trouble, WriterGoes
<1>1. CASE StoreDeadLetter(w)
  <2> DEFINE E == [seq |-> 0, prev |-> 0, log |-> w[1], dead |-> TRUE]
  <2>1. E \in [seq : Nat, prev : Nat, log : Logs, dead : BOOLEAN] /\ E.dead
    BY DEF Writers, Routes
  <2>2. auditRows \in Seq([seq : Nat, prev : Nat, log : Logs, dead : BOOLEAN]) /\ auditRows' = Append(auditRows, E)
    BY <1>1 DEF StoreDeadLetter, AuditTypeOK
  <2> HIDE DEF E
  <2>3. /\ auditRows' \in Seq([seq : Nat, prev : Nat, log : Logs, dead : BOOLEAN])
        /\ Len(auditRows) + 1 \in DOMAIN auditRows' /\ auditRows'[Len(auditRows) + 1] = E
    BY <2>1, <2>2
  <2>4. ~NoDeadLetter'
    BY <2>1, <2>3 DEF NoDeadLetter
  <2>5. AuditTypeOK' /\ AttemptsLeft' /\ LockFits'
    BY <1>1, <2>3 DEF StoreDeadLetter, AuditTypeOK, AttemptsLeft, LockFits, Inside
  <2> QED BY <2>4, <2>5 DEF ReadersKnowTheEnd, ChainUnbroken
<1>2. CASE DeadLetterFails(w)
  <2>1. AuditTypeOK' /\ AttemptsLeft'
    BY <1>2 DEF DeadLetterFails, AuditTypeOK, AttemptsLeft
  <2>2. \A v \in Writers : writerAt'[v] = IF v = w THEN "lost" ELSE writerAt[v]
    BY <1>2 DEF DeadLetterFails, AuditTypeOK
  <2> QED BY <1>2, <2>1, <2>2, BesideTheLock DEF DeadLetterFails, Inside
<1> QED BY <1>1, <1>2
----------------------------------------------------------------------------
(* The invariant is inductive: each step of a writer, its queue or a crash *)
(* keeps it.                                                               *)
THEOREM AuditStep == AuditInv /\ [AuditNext]_auditVars => AuditInv'
<1> SUFFICES ASSUME AuditInv, [AuditNext]_auditVars PROVE AuditInv'
  OBVIOUS
<1>1. ASSUME NEW l \in auditPlot.logs, LogByQueue(l) \/ LogWithoutQueue(l) \/ QueueAddFails(l) \/ RequestDies(l)
      PROVE  AuditInv'
  BY <1>1, LogStep
<1>2. ASSUME NEW w \in Writers, TakeLock(w) PROVE AuditInv'
  BY <1>2, TakeLockStep
<1>3. ASSUME NEW w \in Writers, ReadLast(w) PROVE AuditInv'
  BY <1>3, ReadLastStep
<1>4. ASSUME NEW w \in Writers, WriteEntry(w) \/ CommitUnanswered(w) PROVE AuditInv'
  BY <1>4, AuditCommitStep
<1>5. ASSUME NEW w \in Writers, TransactionFails(w) PROVE AuditInv'
  BY <1>5, FailStep
<1>6. ASSUME NEW w \in Writers, StoreDeadLetter(w) \/ DeadLetterFails(w) PROVE AuditInv'
  BY <1>6, DeadLetterStep
<1>7. ASSUME UNCHANGED auditVars PROVE AuditInv'
  BY <1>7 DEF auditVars, AuditInv, AuditTypeOK, LockFits, ReadersKnowTheEnd, AttemptsLeft, ChainUnbroken,
              NoDeadLetter, Inside
<1> QED BY <1>1, <1>2, <1>3, <1>4, <1>5, <1>6, <1>7 DEF AuditNext

(* verifyChainIntegrity follows an unbroken chain from its first entry on. *)
LEMMA UnbrokenVerifies == AuditTypeOK /\ ChainUnbroken => VerifiesUnlessReordered
<1> SUFFICES ASSUME AuditTypeOK, ChainUnbroken, NoDeadLetter, NEW i \in Checked
             PROVE  Follows(i)
  BY DEF VerifiesUnlessReordered, Verified
<1>1. DOMAIN auditRows = 1..Len(auditRows) /\ Len(auditRows) \in Nat /\ i \in DOMAIN auditRows
  BY DEF AuditTypeOK, Checked, Numbered
<1>2. \A j \in DOMAIN auditRows : auditRows[j].seq = j /\ auditRows[j].prev = j - 1
  BY DEF ChainUnbroken
<1>3. Numbered = DOMAIN auditRows
  BY <1>1, <1>2 DEF Numbered
<1>4. \A k \in DOMAIN auditRows : NumberedBefore(k) = 1..(k - 1)
  BY <1>1, <1>2, <1>3 DEF NumberedBefore
<1>5. CASE i = 1
  BY <1>1, <1>2, <1>4, <1>5 DEF Follows
<1>6. CASE i # 1
  <2>1. i - 1 \in DOMAIN auditRows /\ NumberedBefore(i - 1) = 1..(i - 2) /\ NumberedBefore(i) = 1..(i - 1)
    BY <1>1, <1>4, <1>6
  <2>2. i - 1 \in NumberedBefore(i) /\ NumberedBefore(i) \subseteq NumberedBefore(i - 1) \cup {i - 1}
    BY <1>1, <2>1
  <2> QED BY <1>1, <1>2, <2>2 DEF Follows
<1> QED BY <1>5, <1>6

(* Every reachable state is well typed, and no job has more attempts than  *)
(* the queue gives it (audit.processor.ts, audit.service.ts).              *)
THEOREM AuditTypeCorrect == AuditSpec => []AuditTypeOK
<1>1. AuditInv => AuditTypeOK
  BY DEF AuditInv
<1> QED BY <1>1, AuditInitially, AuditStep, PTL DEF AuditSpec

(* The advisory lock makes the chain: whatever workers and requests write  *)
(* beside one another, fail and repeat, the entries are numbered without a *)
(* gap, each follows the one before it, and verification finds it so.      *)
THEOREM ChainAlwaysHolds == AuditSpec => []AuditChainHolds
<1>1. AuditInv => AuditChainHolds
  BY UnbrokenVerifies DEF AuditInv, AuditChainHolds
<1> QED BY <1>1, AuditInitially, AuditStep, PTL DEF AuditSpec
------------------------------------------------------------------------------
(* TrailHolds: an entry that is missing, or there twice, had trouble on    *)
(* its way.  A log that nobody has written down yet, a writer that may     *)
(* still write and an entry count alike; only trouble adds to their number.*)
Alive(l, r) == IF writerAt[<<l, r>>] \in {"due", "locked", "read", "failed"} THEN 1 ELSE 0
ToLog(l) == IF Unlogged(l) THEN 1 ELSE 0
EntriesOf(l) == {i \in DOMAIN auditRows : auditRows[i].log = l}

EntriesCounted ==
  \A l \in Logs : Cardinality(EntriesOf(l)) + Alive(l, "job") + Alive(l, "sync") + ToLog(l) <= 1 + troubles

AuditRow == [seq : Nat, prev : Nat, log : Logs, dead : BOOLEAN]

WritersLeaveATrace ==
  \A l \in Logs, r \in Routes : /\ writerAt[<<l, r>>] = "done" => EntriesOf(l) # {}
                                /\ writerAt[<<l, r>>] = "lost" => troubles > 0

TrailInv == EntriesCounted /\ WritersLeaveATrace

LEMMA TrailNumbers ==
  ASSUME AuditTypeOK, NEW l
  PROVE  /\ IsFiniteSet(EntriesOf(l)) /\ Cardinality(EntriesOf(l)) \in Nat
         /\ \A r : Alive(l, r) \in {0, 1}
         /\ ToLog(l) \in {0, 1} /\ troubles \in Nat
<1>1. IsFiniteSet(DOMAIN auditRows)
  <2>1. DOMAIN auditRows = 1..Len(auditRows) /\ Len(auditRows) \in Nat
    BY DEF AuditTypeOK
  <2> QED BY <2>1, FS_Interval
<1>2. IsFiniteSet(EntriesOf(l))
  BY <1>1, FS_Subset DEF EntriesOf
<1> QED BY <1>2, FS_CardinalityType DEF Alive, ToLog, AuditTypeOK

LEMMA TrailInitially == AuditInit => TrailInv
<1> SUFFICES ASSUME AuditInit PROVE TrailInv
  OBVIOUS
<1>1. /\ auditRows = <<>> /\ troubles = 0 /\ DOMAIN auditRows = {}
      /\ \A l \in Logs, r \in Routes : writerAt[<<l, r>>] = "off"
  BY DEF AuditInit, Writers
<1>2. ASSUME NEW l \in Logs
      PROVE  Cardinality(EntriesOf(l)) = 0 /\ Alive(l, "job") = 0 /\ Alive(l, "sync") = 0 /\ ToLog(l) = 1
  BY <1>1, FS_EmptySet DEF EntriesOf, Alive, ToLog, Unlogged, Routes
<1> QED BY <1>1, <1>2 DEF TrailInv, EntriesCounted, WritersLeaveATrace

(* A log is written down, by one writer or, with trouble, by two. *)
LEMMA LogTrail ==
  ASSUME AuditInv, AuditInv', TrailInv, NEW l, LogByQueue(l) \/ LogWithoutQueue(l) \/ QueueAddFails(l) \/ RequestDies(l)
  PROVE  TrailInv'
<1> USE DEF TrailInv
<1>1. AuditTypeOK /\ AuditTypeOK'
  BY DEF AuditInv
<1>2. /\ Unlogged(l) /\ auditRows' = auditRows /\ troubles \in Nat
      /\ troubles' = troubles \/ troubles' = troubles + 1
  BY <1>1 DEF LogByQueue, LogWithoutQueue, QueueAddFails, RequestDies, Fine, Trouble, AuditTypeOK
<1>3. \A m \in Logs, r \in Routes : m # l => writerAt'[<<m, r>>] = writerAt[<<m, r>>]
  BY <1>1 DEF LogByQueue, LogWithoutQueue, QueueAddFails, RequestDies, WriterGoes, AuditTypeOK, Writers
<1>4. ASSUME l \in Logs
      PROVE  /\ Alive(l, "job")' + Alive(l, "sync")' + ToLog(l)' + troubles <= 1 + troubles'
             /\ \A r \in Routes : writerAt'[<<l, r>>] \in {"off", "due"} \/ (writerAt'[<<l, r>>] = "lost" /\ troubles' > 0)
  <2>1. /\ <<l, "job">> \in Writers /\ <<l, "sync">> \in Writers /\ <<l, "job">> # <<l, "sync">>
        /\ Routes = {"job", "sync"}
    BY <1>4 DEF Writers, Routes
  <2>2. writerAt[<<l, "job">>] = "off" /\ writerAt[<<l, "sync">>] = "off"
    BY <1>2, <2>1 DEF Unlogged
  <2>3. CASE LogByQueue(l)
    <3>1. writerAt'[<<l, "job">>] = "due" /\ writerAt'[<<l, "sync">>] = "off" /\ troubles' = troubles
      BY <1>1, <2>1, <2>2, <2>3 DEF LogByQueue, WriterGoes, Fine, AuditTypeOK
    <3> QED BY <1>2, <2>1, <3>1 DEF Alive, ToLog, Unlogged
  <2>4. CASE LogWithoutQueue(l)
    <3>1. writerAt'[<<l, "job">>] = "off" /\ writerAt'[<<l, "sync">>] = "due" /\ troubles' = troubles
      BY <1>1, <2>1, <2>2, <2>4 DEF LogWithoutQueue, WriterGoes, Fine, AuditTypeOK
    <3> QED BY <1>2, <2>1, <3>1 DEF Alive, ToLog, Unlogged
  <2>5. CASE QueueAddFails(l)
    <3>1. writerAt'[<<l, "job">>] \in {"off", "due"} /\ writerAt'[<<l, "sync">>] = "due" /\ troubles' = troubles + 1
      BY <2>1, <2>2, <2>5 DEF QueueAddFails, Trouble
    <3> QED BY <1>2, <2>1, <3>1 DEF Alive, ToLog, Unlogged
  <2>6. CASE RequestDies(l)
    <3>1. writerAt'[<<l, "job">>] = "off" /\ writerAt'[<<l, "sync">>] = "lost" /\ troubles' = troubles + 1
      BY <1>1, <2>1, <2>2, <2>6 DEF RequestDies, WriterGoes, Trouble, AuditTypeOK
    <3> QED BY <1>2, <2>1, <3>1 DEF Alive, ToLog, Unlogged
  <2> QED BY <2>3, <2>4, <2>5, <2>6
<1>5. \A m : EntriesOf(m)' = EntriesOf(m)
  BY <1>2 DEF EntriesOf
<1>6. EntriesCounted'
  <2> SUFFICES ASSUME NEW m \in Logs
               PROVE  (Cardinality(EntriesOf(m)) + Alive(m, "job") + Alive(m, "sync") + ToLog(m) <= 1 + troubles)'
    BY DEF EntriesCounted
  <2>1. Cardinality(EntriesOf(m)) + Alive(m, "job") + Alive(m, "sync") + ToLog(m) <= 1 + troubles
    BY DEF EntriesCounted
  <2>2. /\ Cardinality(EntriesOf(m)) \in Nat /\ Alive(m, "job") \in {0, 1} /\ Alive(m, "sync") \in {0, 1}
        /\ ToLog(m) \in {0, 1}
    BY <1>1, TrailNumbers
  <2>3. Alive(m, "job")' \in {0, 1} /\ Alive(m, "sync")' \in {0, 1} /\ ToLog(m)' \in {0, 1}
    BY DEF Alive, ToLog
  <2>4. CASE m = l
    <3>1. ToLog(m) = 1
      BY <1>2, <2>4 DEF ToLog
    <3> QED BY <1>2, <1>4, <1>5, <2>1, <2>2, <2>3, <2>4, <3>1
  <2>5. CASE m # l
    <3>1. Alive(m, "job")' = Alive(m, "job") /\ Alive(m, "sync")' = Alive(m, "sync") /\ ToLog(m)' = ToLog(m)
      BY <1>3, <2>5 DEF Alive, ToLog, Unlogged, Routes
    <3> QED BY <1>2, <1>5, <2>1, <2>2, <3>1
  <2> QED BY <2>4, <2>5
<1>7. WritersLeaveATrace'
  <2> SUFFICES ASSUME NEW m \in Logs, NEW r \in Routes
               PROVE  /\ writerAt'[<<m, r>>] = "done" => EntriesOf(m)' # {}
                      /\ writerAt'[<<m, r>>] = "lost" => troubles' > 0
    BY DEF WritersLeaveATrace
  <2>1. CASE m = l
    BY <1>4, <2>1
  <2>2. CASE m # l
    BY <1>2, <1>3, <1>5, <2>2 DEF WritersLeaveATrace
  <2> QED BY <2>1, <2>2
<1> QED BY <1>6, <1>7

(* A writer moves on, and may leave an entry of its log. *)
LEMMA WriterTrail ==
  ASSUME AuditInv, AuditInv', TrailInv, NEW w \in Writers, NEW to \in {"due", "locked", "read", "done", "failed", "lost"},
         NEW wrote \in BOOLEAN,
         WriterGoes(w, to), writerAt[w] \in {"due", "locked", "read", "failed"},
         IF wrote THEN \E e \in AuditRow : e.log = w[1] /\ auditRows' = Append(auditRows, e) ELSE auditRows' = auditRows,
         troubles' = troubles + 1 \/ (troubles' = troubles /\ to # "lost" /\ (wrote => to = "done")),
         to = "done" => wrote
  PROVE  TrailInv'
<1> USE DEF TrailInv
<1>1. AuditTypeOK /\ AuditTypeOK' /\ troubles \in Nat
  BY DEF AuditInv, AuditTypeOK
<1>2. PICK k \in Logs, q \in Routes : w = <<k, q>>
  BY DEF Writers
<1>3. \A l \in Logs, r \in Routes :
        writerAt'[<<l, r>>] = IF l = k /\ r = q THEN to ELSE writerAt[<<l, r>>]
  BY <1>1, <1>2 DEF WriterGoes, AuditTypeOK, Writers
<1>4. \A l : IF wrote /\ l = k
               THEN EntriesOf(l)' = EntriesOf(l) \cup {Len(auditRows) + 1} ELSE EntriesOf(l)' = EntriesOf(l)
  <2> SUFFICES ASSUME NEW l
               PROVE  IF wrote /\ l = k
                        THEN EntriesOf(l)' = EntriesOf(l) \cup {Len(auditRows) + 1} ELSE EntriesOf(l)' = EntriesOf(l)
    OBVIOUS
  <2>1. CASE ~wrote
    BY <2>1 DEF EntriesOf
  <2>2. CASE wrote
    <3>1. PICK e \in AuditRow : e.log = k /\ auditRows' = Append(auditRows, e)
      BY <1>2, <2>2
    <3> DEFINE n == Len(auditRows) + 1
    <3>2. /\ DOMAIN auditRows = 1..Len(auditRows) /\ Len(auditRows) \in Nat
          /\ DOMAIN auditRows' = DOMAIN auditRows \cup {n} /\ auditRows'[n] = e
          /\ \A i \in DOMAIN auditRows : auditRows'[i] = auditRows[i]
      <4>1. auditRows \in Seq(AuditRow)
        BY <1>1 DEF AuditTypeOK, AuditRow
      <4>2. DOMAIN auditRows = 1..Len(auditRows) /\ Len(auditRows) \in Nat
        BY <4>1
      <4>3. Len(auditRows') = n /\ auditRows' \in Seq(AuditRow) /\ auditRows'[n] = e
        BY <3>1, <4>1
      <4>4. DOMAIN auditRows' = 1..n
        BY <4>3
      <4>5. \A i \in 1..Len(auditRows) : auditRows'[i] = auditRows[i]
        BY <3>1, <4>1
      <4> QED BY <4>2, <4>3, <4>4, <4>5
    <3> HIDE DEF n
    <3>3. IF l = k THEN EntriesOf(l)' = EntriesOf(l) \cup {n} ELSE EntriesOf(l)' = EntriesOf(l)
      BY <3>1, <3>2 DEF EntriesOf
    <3> QED BY <2>2, <3>3 DEF n
  <2> QED BY <2>1, <2>2
<1>5. EntriesCounted'
  <2> SUFFICES ASSUME NEW l \in Logs
               PROVE  (Cardinality(EntriesOf(l)) + Alive(l, "job") + Alive(l, "sync") + ToLog(l) <= 1 + troubles)'
    BY DEF EntriesCounted
  <2>1. Cardinality(EntriesOf(l)) + Alive(l, "job") + Alive(l, "sync") + ToLog(l) <= 1 + troubles
    BY DEF EntriesCounted
  <2>2. /\ IsFiniteSet(EntriesOf(l)) /\ Cardinality(EntriesOf(l)) \in Nat
        /\ Alive(l, "job") \in {0, 1} /\ Alive(l, "sync") \in {0, 1} /\ ToLog(l) \in {0, 1}
    BY <1>1, TrailNumbers
  <2>3. Routes = {"job", "sync"}
    BY DEF Routes
  <2>4. CASE l # k
    <3>1. \A r \in Routes : writerAt'[<<l, r>>] = writerAt[<<l, r>>]
      BY <1>3, <2>4
    <3>2. Alive(l, "job")' = Alive(l, "job") /\ Alive(l, "sync")' = Alive(l, "sync") /\ ToLog(l)' = ToLog(l)
      BY <2>3, <3>1 DEF Alive, ToLog, Unlogged
    <3>3. EntriesOf(l)' = EntriesOf(l)
      BY <1>4, <2>4
    <3> QED BY <1>1, <2>1, <2>2, <3>2, <3>3
  <2>5. CASE l = k
    <3>1. ToLog(l)' = 0
      BY <1>3, <2>5 DEF ToLog, Unlogged
    <3>2. PICK other \in Routes : other # q
      BY <2>3
    <3>3. /\ Alive(l, other)' = Alive(l, other) /\ Alive(l, q) = 1
          /\ Alive(l, q)' = IF to \in {"due", "locked", "read", "failed"} THEN 1 ELSE 0
      BY <1>2, <1>3, <2>5, <3>2 DEF Alive
    <3>4. Alive(l, "job") + Alive(l, "sync") = Alive(l, other) + 1
      BY <2>2, <2>3, <3>2, <3>3
    <3>5. Alive(l, "job")' + Alive(l, "sync")' = Alive(l, other) + (IF to \in {"due", "locked", "read", "failed"} THEN 1 ELSE 0)
      <4>1. Alive(l, "job")' \in {0, 1} /\ Alive(l, "sync")' \in {0, 1}
        BY DEF Alive
      <4> QED BY <2>2, <2>3, <3>2, <3>3, <4>1
    <3>6. /\ Cardinality(EntriesOf(l)') <= Cardinality(EntriesOf(l)) + (IF wrote THEN 1 ELSE 0)
          /\ Cardinality(EntriesOf(l)') \in Nat
      <4> DEFINE n == Len(auditRows) + 1
                 C == Cardinality(EntriesOf(l))
                 N == Cardinality(EntriesOf(l) \cup {n})
      <4>1. /\ IsFiniteSet(EntriesOf(l) \cup {n})
            /\ N = IF n \in EntriesOf(l) THEN C ELSE C + 1
        BY <2>2, FS_AddElement
      <4>2. N \in Nat
        BY <4>1, FS_CardinalityType
      <4>3. Cardinality(EntriesOf(l)') = IF wrote THEN N ELSE C
        BY <1>4, <2>5
      <4>4. C \in Nat
        BY <2>2
      <4> HIDE DEF N, C
      <4> QED BY <4>1, <4>2, <4>3, <4>4 DEF C
    <3>7. /\ Alive(l, "job") \in Nat /\ Alive(l, "sync") \in Nat /\ Alive(l, other) \in Nat
          /\ Alive(l, "job")' \in Nat /\ Alive(l, "sync")' \in Nat
      BY DEF Alive
    <3>8. troubles' = troubles \/ troubles' = troubles + 1
      BY DEF TrailInv
    <3>9. troubles' = troubles => (wrote => to = "done")
      BY <1>1
    <3> DEFINE goes == IF to \in {"due", "locked", "read", "failed"} THEN 1 ELSE 0
               adds == IF wrote THEN 1 ELSE 0
    <3>10. /\ goes \in {0, 1} /\ adds \in {0, 1}
           /\ troubles' = troubles => goes + adds <= 1
      BY <3>9
    <3> HIDE DEF goes, adds
    <3> DEFINE C == Cardinality(EntriesOf(l))
               CC == Cardinality(EntriesOf(l)')
               J == Alive(l, "job")
               S == Alive(l, "sync")
               JJ == Alive(l, "job")'
               SS == Alive(l, "sync")'
               O == Alive(l, other)
    <3>11. C + J + S + ToLog(l) <= 1 + troubles /\ J + S = O + 1 /\ JJ + SS = O + goes /\ CC <= C + adds
      BY <2>1, <3>4, <3>5, <3>6 DEF goes, adds
    <3>12. C \in Nat /\ CC \in Nat /\ J \in Nat /\ S \in Nat /\ JJ \in Nat /\ SS \in Nat /\ O \in Nat /\ ToLog(l) \in {0, 1}
      BY <2>2, <3>6, <3>7
    <3> HIDE DEF C, CC, J, S, JJ, SS, O
    <3>13. CC + JJ + SS <= C + J + S - 1 + goes + adds
      BY <3>10, <3>11, <3>12
    <3>14. CC + JJ + SS + 0 <= 1 + troubles'
      BY <1>1, <3>8, <3>10, <3>11, <3>12, <3>13
    <3> QED BY <3>1, <3>14 DEF CC, JJ, SS
  <2> QED BY <2>4, <2>5
<1>6. WritersLeaveATrace'
  <2>1. \A l : EntriesOf(l) \subseteq EntriesOf(l)'
    BY <1>4
  <2>2. wrote => EntriesOf(k)' # {}
    BY <1>4
  <2> SUFFICES ASSUME NEW m \in Logs, NEW r \in Routes
               PROVE  /\ writerAt'[<<m, r>>] = "done" => EntriesOf(m)' # {}
                      /\ writerAt'[<<m, r>>] = "lost" => troubles' > 0
    BY DEF WritersLeaveATrace
  <2>3. troubles' > 0 \/ (troubles' = troubles /\ to # "lost")
    BY <1>1
  <2>4. CASE m = k /\ r = q
    BY <1>3, <2>2, <2>3, <2>4
  <2>5. CASE ~(m = k /\ r = q)
    BY <1>1, <1>3, <2>1, <2>3, <2>5 DEF WritersLeaveATrace
  <2> QED BY <2>4, <2>5
<1> QED BY <1>5, <1>6

LEMMA TrailStep == AuditInv /\ AuditInv' /\ TrailInv /\ [AuditNext]_auditVars => TrailInv'
<1> SUFFICES ASSUME AuditInv, AuditInv', TrailInv, [AuditNext]_auditVars PROVE TrailInv'
  OBVIOUS
<1>0. AuditTypeOK
  BY DEF AuditInv
<1>1. ASSUME NEW l, LogByQueue(l) \/ LogWithoutQueue(l) \/ QueueAddFails(l) \/ RequestDies(l)
      PROVE  TrailInv'
  BY <1>1, LogTrail
<1>2. ASSUME NEW w \in Writers, TakeLock(w) PROVE TrailInv'
  <2>1. WriterGoes(w, "locked") /\ writerAt[w] = "due" /\ auditRows' = auditRows /\ troubles' = troubles
    BY <1>2 DEF TakeLock, Fine
  <2> QED BY <2>1, WriterTrail
<1>3. ASSUME NEW w \in Writers, ReadLast(w) PROVE TrailInv'
  <2>1. WriterGoes(w, "read") /\ writerAt[w] = "locked" /\ auditRows' = auditRows /\ troubles' = troubles
    BY <1>3 DEF ReadLast, Fine
  <2> QED BY <2>1, WriterTrail
<1>4. ASSUME NEW w \in Writers, WriteEntry(w) PROVE TrailInv'
  <2>1. /\ WriterGoes(w, "done") /\ writerAt[w] = "read" /\ auditRows' = Append(auditRows, Entry(w)) /\ troubles' = troubles
        /\ Entry(w).log = w[1] /\ Entry(w) \in AuditRow
    BY <1>4, <1>0 DEF WriteEntry, Fine, Entry, AuditRow, AuditTypeOK, Writers
  <2>2. \E e \in AuditRow : e.log = w[1] /\ auditRows' = Append(auditRows, e)
    BY <2>1
  <2> QED BY <2>1, <2>2, WriterTrail
<1>5. \A w \in Writers : AfterTrouble(w) \in {"due", "failed", "lost"}
  BY DEF AfterTrouble
<1>6. ASSUME NEW w \in Writers, TransactionFails(w) PROVE TrailInv'
  <2>1. /\ WriterGoes(w, AfterTrouble(w)) /\ writerAt[w] \in {"due", "locked", "read"} /\ auditRows' = auditRows
        /\ troubles' = troubles + 1
    BY <1>6 DEF TransactionFails, Trouble
  <2> QED BY <1>5, <2>1, WriterTrail
<1>7. ASSUME NEW w \in Writers, CommitUnanswered(w) PROVE TrailInv'
  <2>1. /\ WriterGoes(w, AfterTrouble(w)) /\ writerAt[w] = "read" /\ auditRows' = Append(auditRows, Entry(w))
        /\ troubles' = troubles + 1 /\ Entry(w).log = w[1] /\ Entry(w) \in AuditRow
    BY <1>7, <1>0 DEF CommitUnanswered, Trouble, Entry, AuditRow, AuditTypeOK, Writers
  <2>2. \E e \in AuditRow : e.log = w[1] /\ auditRows' = Append(auditRows, e)
    BY <2>1
  <2> QED BY <1>5, <2>1, <2>2, WriterTrail
<1>8. ASSUME NEW w \in Writers, StoreDeadLetter(w) PROVE TrailInv'
  <2> DEFINE e == [seq |-> 0, prev |-> 0, log |-> w[1], dead |-> TRUE]
  <2>1. WriterGoes(w, "done") /\ writerAt[w] = "failed" /\ auditRows' = Append(auditRows, e) /\ troubles' = troubles
    BY <1>8 DEF StoreDeadLetter, Fine
  <2>2. e.log = w[1] /\ e \in AuditRow
    BY DEF AuditRow, Writers
  <2> HIDE DEF e
  <2>3. \E x \in AuditRow : x.log = w[1] /\ auditRows' = Append(auditRows, x)
    BY <2>1, <2>2
  <2> QED BY <2>1, <2>3, WriterTrail
<1>9. ASSUME NEW w \in Writers, DeadLetterFails(w) PROVE TrailInv'
  <2>1. WriterGoes(w, "lost") /\ writerAt[w] = "failed" /\ auditRows' = auditRows /\ troubles' = troubles + 1
    BY <1>9 DEF DeadLetterFails, Trouble
  <2> QED BY <2>1, WriterTrail
<1>10. CASE UNCHANGED auditVars
  BY <1>10 DEF TrailInv, EntriesCounted, WritersLeaveATrace, EntriesOf, Alive, ToLog, Unlogged, auditVars
<1> QED BY <1>1, <1>2, <1>3, <1>4, <1>6, <1>7, <1>8, <1>9, <1>10 DEF AuditNext

LEMMA TrailInvSuffices == AuditInv /\ TrailInv => TrailHolds
<1> SUFFICES ASSUME AuditInv, TrailInv, NEW l \in Logs
             PROVE  /\ (\E r \in Routes : writerAt[<<l, r>>] # "off") /\ (\A r \in Routes : writerAt[<<l, r>>] \in {"off", "done", "lost"}) =>
                         troubles > 0 \/ \E i \in DOMAIN auditRows : auditRows[i].log = l
                    /\ Cardinality({i \in DOMAIN auditRows : auditRows[i].log = l}) <= 1 + troubles
  BY DEF TrailHolds
<1>1. AuditTypeOK
  BY DEF AuditInv
<1>2. \A r \in Routes : /\ writerAt[<<l, r>>] = "done" => \E i \in DOMAIN auditRows : auditRows[i].log = l
                        /\ writerAt[<<l, r>>] = "lost" => troubles > 0
  BY DEF TrailInv, WritersLeaveATrace, EntriesOf
<1>3. Cardinality(EntriesOf(l)) + Alive(l, "job") + Alive(l, "sync") + ToLog(l) <= 1 + troubles
  BY DEF TrailInv, EntriesCounted
<1>4. /\ Cardinality(EntriesOf(l)) \in Nat /\ Alive(l, "job") \in {0, 1} /\ Alive(l, "sync") \in {0, 1}
      /\ ToLog(l) \in {0, 1} /\ troubles \in Nat
  BY <1>1, TrailNumbers
<1>5. Cardinality(EntriesOf(l)) <= 1 + troubles
  BY <1>3, <1>4
<1> QED BY <1>2, <1>5 DEF EntriesOf

(* A log that was asked for has an entry, and only one, unless something   *)
(* went wrong on its way to the table; every further entry has trouble of  *)
(* its own behind it, however workers and requests interleave.             *)
THEOREM TrailAlwaysHolds == AuditSpec => []TrailHolds
<1>1. AuditInit => AuditInv /\ TrailInv
  BY AuditInitially, TrailInitially
<1>2. (AuditInv /\ TrailInv) /\ [AuditNext]_auditVars => (AuditInv /\ TrailInv)'
  BY AuditStep, TrailStep
<1>3. AuditInv /\ TrailInv => TrailHolds
  BY TrailInvSuffices
<1> QED BY <1>1, <1>2, <1>3, PTL DEF AuditSpec
------------------------------------------------------------------------------
(* HandledOnce of IdempotentRequests for any number of retries, crashes    *)
(* and faults.  While nothing has slipped, a request that is running or    *)
(* has just committed owns the mark, and a committed one that ended owns   *)
(* the response: two commits would have to own the same entry.             *)
Entries == [is : {"none", "fresh", "stale", "body"}, by : Retries \cup {Unkeyed}]

\* Only a committed request stores a response, and only stored responses are repeated.
ResponsesAreReal ==
  /\ \A r \in Retries : retry[r] = "storing" => r \in effects
  /\ entry.is = "body" => entry.by \in effects
  /\ \A r \in Retries : reply[r].is = "replayed" => reply[r].of \in effects

LookedSawNoAnswer == \A r \in Retries : retry[r] = "looked" => saw[r].is \in {"none", "stale"}

Owned ==
  ~slipped =>
    /\ \A r \in Retries : retry[r] \in {"running", "storing"} => entry.is = "fresh" /\ entry.by = r
    /\ \A r \in effects : entry.by = r /\ (retry[r] = "storing" \/ (retry[r] = "ended" /\ entry.is = "body"))

KeyInv == KeyTypeOK /\ ResponsesAreReal /\ LookedSawNoAnswer /\ Owned
----------------------------------------------------------------------------
\* A set no two elements of which differ has at most one.
LEMMA AtMostOne ==
  ASSUME NEW S, \A a, b \in S : a = b
  PROVE  Cardinality(S) <= 1
<1>1. CASE S = {}
  BY <1>1, FS_EmptySet
<1>2. ASSUME NEW a \in S PROVE Cardinality(S) <= 1
  <2>1. S = {a}
    OBVIOUS
  <2> QED BY <2>1, FS_Singleton
<1> QED BY <1>1, <1>2

\* The invariant holds of a key nobody has used.
THEOREM KeyInitially == KeyInit => KeyInv
<1> SUFFICES ASSUME KeyInit PROVE KeyInv
  OBVIOUS
<1> USE DEF KeyInit, Nobody, NoReply
<1>1. KeyTypeOK
  BY DEF KeyTypeOK
<1>2. ResponsesAreReal /\ LookedSawNoAnswer /\ Owned
  BY DEF ResponsesAreReal, LookedSawNoAnswer, Owned
<1> QED BY <1>1, <1>2 DEF KeyInv

\* The look-up of the key: what a request saw is the entry or an older one.
LEMMA LookStep ==
  ASSUME KeyInv, NEW r \in Retries, Look(r)
  PROVE  KeyInv'
<1> USE DEF KeyInv, Step, Answer
<1> DEFINE to == IF entry.is \in {"fresh", "body"} THEN "ended" ELSE "looked"
<1>0. retry' = [retry EXCEPT ![r] = to]
  <2>1. CASE entry.is = "fresh"
    BY <2>1 DEF Look
  <2>2. CASE entry.is = "body"
    BY <2>2 DEF Look
  <2>3. CASE entry.is \notin {"fresh", "body"}
    BY <2>3 DEF Look
  <2> QED BY <2>1, <2>2, <2>3
<1>1. /\ \A q \in Retries : retry'[q] = IF q = r THEN to ELSE retry[q]
      /\ retry' \in [Retries -> {"new", "looked", "running", "storing", "clearing", "ended"}]
      /\ retry[r] = "new" /\ to \in {"ended", "looked"}
      /\ to = "looked" => entry.is \in {"none", "stale"}
      /\ saw' = [saw EXCEPT ![r] = entry]
      /\ UNCHANGED <<entry, effects, keyPlot, slipped>>
  BY <1>0 DEF Look, KeyTypeOK
<1> HIDE DEF to
<1>2. /\ reply' \in [Retries -> [is : {"none", "refused", "failed", "done", "replayed"}, of : Retries \cup {Unkeyed}]]
      /\ \A q \in Retries : reply'[q] = reply[q] \/ reply'[q].is = "refused" \/ (entry.is = "body" /\ reply'[q].of = entry.by)
  BY DEF Look, KeyTypeOK
<1>3. KeyTypeOK'
  BY <1>1, <1>2 DEF KeyTypeOK
<1>4. ResponsesAreReal'
  BY <1>1, <1>2 DEF ResponsesAreReal, KeyTypeOK
<1>5. LookedSawNoAnswer'
  BY <1>1 DEF LookedSawNoAnswer, KeyTypeOK
<1>6. Owned'
  BY <1>1 DEF Owned, KeyTypeOK
<1> QED BY <1>3, <1>4, <1>5, <1>6

\* Marking the key: the request is the only one that runs, or two crossed.
LEMMA MarkStep ==
  ASSUME KeyInv, NEW r \in Retries, Mark(r)
  PROVE  KeyInv'
<1> USE DEF KeyInv, Step, Mark
<1>1. KeyTypeOK'
  BY DEF KeyTypeOK
<1>2. ResponsesAreReal' /\ LookedSawNoAnswer'
  BY DEF ResponsesAreReal, LookedSawNoAnswer, KeyTypeOK
<1>3. Owned'
  <2>1. ASSUME ~slipped' PROVE ~slipped /\ entry.is \in {"none", "stale"}
    BY <2>1 DEF LookedSawNoAnswer
  <2>2. ASSUME ~slipped' PROVE effects = {} /\ \A q \in Retries : retry[q] \notin {"running", "storing"}
    BY <2>1, <2>2 DEF Owned, KeyTypeOK
  <2> QED BY <2>2 DEF Owned, KeyTypeOK
<1> QED BY <1>1, <1>2, <1>3

\* Steps that end a request and touch nothing but its own place, reply and the bounds.
LEMMA EndStep ==
  ASSUME KeyInv, NEW r \in Retries, CacheDown(r) \/ HandlerFails(r) \/ CacheWriteFails(r) \/ RequestCrashes(r)
  PROVE  KeyInv'
<1> USE DEF KeyInv
<1>1. /\ retry' = [retry EXCEPT ![r] = retry'[r]] /\ retry'[r] \in {"ended", "clearing"} /\ retry[r] # "ended"
      /\ reply' = reply \/ reply' = [reply EXCEPT ![r] = [is |-> "failed", of |-> Unkeyed]]
      /\ UNCHANGED <<entry, saw, effects>>
      /\ slipped' = (slipped \/ retry[r] = "storing")
  BY DEF CacheDown, HandlerFails, CacheWriteFails, RequestCrashes, Step, Answer, KeyTypeOK
<1>2. KeyTypeOK'
  BY <1>1 DEF KeyTypeOK
<1>3. ResponsesAreReal' /\ LookedSawNoAnswer'
  BY <1>1 DEF ResponsesAreReal, LookedSawNoAnswer, KeyTypeOK
<1>4. Owned'
  <2>1. ASSUME ~slipped' PROVE ~slipped /\ retry[r] \notin {"storing", "ended"} /\ r \notin effects
    BY <1>1, <2>1 DEF Owned
  <2>2. \A q \in Retries : q # r => retry'[q] = retry[q]
    BY <1>1 DEF KeyTypeOK
  <2> QED BY <1>1, <2>1, <2>2 DEF Owned, KeyTypeOK
<1> QED BY <1>2, <1>3, <1>4

\* The handler commits: no other request of the key has, or something slipped.
LEMMA KeyCommitStep ==
  ASSUME KeyInv, NEW r \in Retries, HandlerSucceeds(r)
  PROVE  KeyInv'
<1> USE DEF KeyInv, Step, Answer, HandlerSucceeds
<1>1. KeyTypeOK'
  BY DEF KeyTypeOK
<1>2. ResponsesAreReal' /\ LookedSawNoAnswer'
  BY DEF ResponsesAreReal, LookedSawNoAnswer, KeyTypeOK
<1>3. Owned'
  <2>1. ASSUME ~slipped PROVE effects = {} /\ entry.is = "fresh" /\ entry.by = r
    BY <2>1 DEF Owned, KeyTypeOK
  <2> QED BY <2>1 DEF Owned, KeyTypeOK
<1> QED BY <1>1, <1>2, <1>3

\* The response that is stored is that of a request that committed.
LEMMA StoreStep ==
  ASSUME KeyInv, NEW r \in Retries, StoreResponse(r)
  PROVE  KeyInv'
<1> USE DEF KeyInv, Step, StoreResponse, Stored
<1>1. KeyTypeOK'
  BY DEF KeyTypeOK
<1>2. ResponsesAreReal' /\ LookedSawNoAnswer'
  BY DEF ResponsesAreReal, LookedSawNoAnswer, KeyTypeOK
<1>3. Owned'
  <2>1. ASSUME ~slipped PROVE /\ \A q \in Retries : q # r => retry[q] \notin {"running", "storing"}
                              /\ effects \subseteq {r}
    BY <2>1 DEF Owned, KeyTypeOK
  <2> QED BY <2>1 DEF Owned, KeyTypeOK
<1> QED BY <1>1, <1>2, <1>3

\* What ClearMark may take is its own mark, or it slips.
LEMMA ClearStep ==
  ASSUME KeyInv, NEW r \in Retries, ClearMark(r)
  PROVE  KeyInv'
<1> USE DEF KeyInv, Step, ClearMark, Nobody
<1>1. KeyTypeOK'
  BY DEF KeyTypeOK
<1>2. ResponsesAreReal' /\ LookedSawNoAnswer'
  BY DEF ResponsesAreReal, LookedSawNoAnswer, KeyTypeOK
<1>3. Owned'
  <2>1. ASSUME ~slipped' PROVE /\ \A q \in Retries : q # r => retry[q] \notin {"running", "storing"}
                               /\ effects = {}
    BY <2>1, RetriesAssumption DEF Owned, KeyTypeOK
  <2> QED BY <2>1 DEF Owned, KeyTypeOK
<1> QED BY <1>1, <1>2, <1>3

\* An entry that grows old under a running request slips.
LEMMA AgeStep ==
  ASSUME KeyInv, NEW from, NEW to, Ages(from, to),
         <<from, to>> \in {<<"fresh", "stale">>, <<"stale", "none">>, <<"body", "none">>}
  PROVE  KeyInv'
<1> USE DEF KeyInv, Ages
<1>1. entry' \in Entries /\ entry'.is = to /\ entry'.by = entry.by /\ to \in {"stale", "none"}
  BY DEF KeyTypeOK, Entries
<1>2. KeyTypeOK'
  BY <1>1 DEF KeyTypeOK, Entries
<1>3. ResponsesAreReal' /\ LookedSawNoAnswer'
  BY <1>1 DEF ResponsesAreReal, LookedSawNoAnswer
<1>4. Owned'
  <2>1. ASSUME ~slipped' PROVE ~slipped /\ entry.is # "body" /\ retry[entry.by] \notin {"running", "storing"}
    BY <2>1 DEF Entries
  <2> QED BY <1>1, <2>1 DEF Owned, KeyTypeOK
<1> QED BY <1>2, <1>3, <1>4

\* The invariant is inductive: every step of every retry keeps it.
THEOREM KeyStep == KeyInv /\ [KeyNext]_keyVars => KeyInv'
<1> SUFFICES ASSUME KeyInv, [KeyNext]_keyVars PROVE KeyInv'
  OBVIOUS
<1>1. ASSUME NEW r \in Retries, Look(r) PROVE KeyInv'
  BY <1>1, LookStep
<1>2. ASSUME NEW r \in Retries, Mark(r) PROVE KeyInv'
  BY <1>2, MarkStep
<1>3. ASSUME NEW r \in Retries, CacheDown(r) \/ HandlerFails(r) \/ CacheWriteFails(r) \/ RequestCrashes(r) PROVE KeyInv'
  BY <1>3, EndStep
<1>4. ASSUME NEW r \in Retries, HandlerSucceeds(r) PROVE KeyInv'
  BY <1>4, KeyCommitStep
<1>5. ASSUME NEW r \in Retries, StoreResponse(r) PROVE KeyInv'
  BY <1>5, StoreStep
<1>6. ASSUME NEW r \in Retries, ClearMark(r) PROVE KeyInv'
  BY <1>6, ClearStep
<1>7. ASSUME Ages("fresh", "stale") \/ Ages("stale", "none") \/ Ages("body", "none") PROVE KeyInv'
  BY <1>7, AgeStep
<1>8. ASSUME UNCHANGED keyVars PROVE KeyInv'
  BY <1>8 DEF keyVars, KeyInv, KeyTypeOK, ResponsesAreReal, LookedSawNoAnswer, Owned
<1> QED BY <1>1, <1>2, <1>3, <1>4, <1>5, <1>6, <1>7, <1>8 DEF KeyNext

(* Unless a mark slipped, a key's handler commits at most once, and a      *)
(* repeated response is one of a request that committed: for any number of *)
(* retries, crashes and faults of the cache (idempotency.interceptor.ts).  *)
THEOREM KeysHandledOnce == KeySpec => []HandledOnce
<1>1. KeyInv => HandledOnce
  <2> SUFFICES ASSUME KeyInv PROVE HandledOnce
    OBVIOUS
  <2>1. ASSUME ~slipped PROVE Cardinality(effects) <= 1
    <3>1. \A a, b \in effects : a = b
      BY <2>1 DEF KeyInv, Owned
    <3> QED BY <3>1, AtMostOne
  <2> QED BY <2>1 DEF KeyInv, ResponsesAreReal, HandledOnce
<1> QED BY <1>1, KeyInitially, KeyStep, PTL DEF KeySpec

LEMMA KeysTyped == KeySpec => []KeyTypeOK
<1>1. KeyInv => KeyTypeOK
  BY DEF KeyInv
<1> QED BY <1>1, KeyInitially, KeyStep, PTL DEF KeySpec
------------------------------------------------------------------------------
(* ProfilesFollowUsers of StaffRecords for any number of requests and      *)
(* faults.  While a deleted user has a live profile, some event or handler *)
(* is still to catch this very profile, unless a misfit let it through.    *)
Profiles == [is : {"none", "live", "deleted"}, id : StaffRequests \cup {0, Hired}]
Persons == [user : {"none", "active", "deleted"}, wallet : BOOLEAN, profile : Profiles]
Ops == [kind : StaffKinds \cup {""}, at : {"new", "read", "announce", "ended"},
        profile : StaffRequests \cup {0, Hired}, early : BOOLEAN]
Handlers == [at : {"none", "due", "found", "over"}, profile : StaffRequests \cup {0, Hired}]

WellTyped ==
  /\ person \in Persons
  /\ staffOp \in [StaffRequests -> Ops]
  /\ leaving \in [StaffRequests -> Handlers]
  /\ misfits \subseteq {"lost", "late", "revived"}
  /\ staffPlot \in StaffPlots

\* There is a row exactly when it has a number.
NumberedRow ==
  /\ person.profile.is = "none" <=> person.profile.id = 0
  /\ \A r \in StaffRequests : leaving[r].at = "found" => leaving[r].profile # 0

\* What a request found: the user was active, and whose profile it was had a wallet.
FoundWhatItNeeds ==
  \A r \in StaffRequests : staffOp[r].at = "read" =>
    /\ staffOp[r].early /\ person.user # "none"
    /\ staffOp[r].kind = "updateProfile" => person.wallet /\ staffOp[r].profile # 0

\* The event of r is to come, or its handler has the very profile that is there.
Catches(r) ==
  \/ IsAt(r, "removeUser", "announce")
  \/ leaving[r].at = "due"
  \/ leaving[r].at = "found" /\ leaving[r].profile = person.profile.id
Leaves(r) == IsAt(r, "removeUser", "announce") \/ leaving[r].at \in {"due", "found"}

LiveIsCaught ==
  person.user = "deleted" /\ person.profile.is = "live" =>
    (\E r \in StaffRequests : Catches(r)) \/ misfits \cap {"lost", "late"} # {}

\* Events and deleted profiles are those of a user who was deleted.
OnlyAfterDeletion ==
  /\ \A r \in StaffRequests : Leaves(r) => person.user = "deleted" \/ "revived" \in misfits
  /\ person.profile.is = "deleted" => person.user = "deleted" \/ "revived" \in misfits

WalletComesFirst == person.profile.is = "live" => person.wallet

StaffInv == /\ WellTyped /\ NumberedRow /\ FoundWhatItNeeds
            /\ LiveIsCaught /\ OnlyAfterDeletion /\ WalletComesFirst
----------------------------------------------------------------------------
\* What the invariant is for.
LEMMA InvSuffices == StaffInv => StaffRecordsTypeOK /\ ProfilesFollowUsers
<1> SUFFICES ASSUME StaffInv PROVE StaffRecordsTypeOK /\ ProfilesFollowUsers
  OBVIOUS
<1>1. StaffRecordsTypeOK
  BY DEF StaffInv, WellTyped, Persons, Profiles, StaffRecordsTypeOK
<1>2. (\E r \in StaffRequests : Catches(r)) => UnderWay
  BY DEF Catches, UnderWay
<1>3. ProfilesFollowUsers
  BY <1>2 DEF StaffInv, LiveIsCaught, OnlyAfterDeletion, WalletComesFirst, ProfilesFollowUsers
<1> QED BY <1>1, <1>3

\* The invariant holds of the row an instance begins with.
LEMMA InvInitially == StaffRecordsInit => StaffInv
<1> SUFFICES ASSUME StaffRecordsInit PROVE StaffInv
  OBVIOUS
<1>0. PICK plot \in StaffPlots : /\ staffPlot = plot /\ person = plot.person /\ misfits = {}
                              /\ staffOp = [r \in StaffRequests |-> [kind |-> "", at |-> "new", profile |-> 0, early |-> FALSE]]
                              /\ leaving = [r \in StaffRequests |-> [at |-> "none", profile |-> 0]]
  BY DEF StaffRecordsInit
<1>1. person \in {NoAccount, Account, Member}
  BY <1>0, StaffAssumption
<1>2. /\ person \in Persons
      /\ person.user \in {"none", "active"} /\ person.profile.is \in {"none", "live"}
      /\ person.profile.is = "none" <=> person.profile.id = 0
      /\ person.profile.is = "live" => person.wallet
  <2> USE DEF Employed, NoProfile, Live, Hired, Persons, Profiles
  <2>1. CASE person = NoAccount
    BY <2>1 DEF NoAccount
  <2>2. CASE person = Account
    BY <2>2 DEF Account
  <2>3. CASE person = Member
    BY <2>3 DEF Member
  <2> QED BY <1>1, <2>1, <2>2, <2>3
<1>3. WellTyped
  BY <1>0, <1>2 DEF WellTyped, Ops, Handlers
<1>4. NumberedRow /\ FoundWhatItNeeds
  BY <1>0, <1>2 DEF NumberedRow, FoundWhatItNeeds
<1>5. LiveIsCaught /\ OnlyAfterDeletion /\ WalletComesFirst
  BY <1>0, <1>2 DEF LiveIsCaught, OnlyAfterDeletion, WalletComesFirst, Leaves, IsAt
<1> QED BY <1>3, <1>4, <1>5 DEF StaffInv
----------------------------------------------------------------------------
\* A request that goes on leaves the others, its kind and what it read alone.
LEMMA GetsOn ==
  ASSUME StaffInv, NEW r \in StaffRequests, NEW step \in {"read", "announce", "ended"}, Gets(r, step)
  PROVE  /\ staffOp' \in [StaffRequests -> Ops]
         /\ staffOp'[r].kind = staffOp[r].kind /\ staffOp'[r].at = step
         /\ staffOp'[r].early = staffOp[r].early /\ staffOp'[r].profile = staffOp[r].profile
         /\ \A q \in StaffRequests \ {r} : staffOp'[q] = staffOp[q]
BY DEF StaffInv, WellTyped, Ops, Gets

\* A live profile of a deleted user stays caught as long as whoever catches it does.
LEMMA CaughtOn ==
  ASSUME StaffInv, misfits \subseteq misfits', person' = person,
         (\A q \in StaffRequests : Catches(q) => Catches(q)') \/ "lost" \in misfits'
  PROVE  LiveIsCaught'
BY DEF StaffInv, LiveIsCaught

\* A request that begins finds what it needs, or ends.
LEMMA LookUpStep ==
  ASSUME StaffInv, NEW r \in StaffRequests, NEW kind, LookUp(r, kind)
  PROVE  StaffInv'
<1> DEFINE found == IF Found(kind) THEN "read" ELSE "ended"
           early == person.user # "deleted" \/ UnderWay
           now == [kind |-> kind, at |-> found, profile |-> person.profile.id, early |-> early]
<1>0. staffOp' = [staffOp EXCEPT ![r] = now] /\ UNCHANGED <<person, leaving, misfits, staffPlot>>
  BY DEF LookUp
<1>1. kind \in StaffKinds /\ kind # "createStaff" /\ staffOp[r].at = "new"
  BY StaffAssumption DEF StaffInv, WellTyped, LookUp, Begins
<1>2. early \in BOOLEAN /\ found \in {"read", "ended"}
  BY DEF UnderWay
<1>3. now \in Ops
  BY <1>1, <1>2 DEF StaffInv, WellTyped, Persons, Profiles, Ops
<1>4. found = "read" => person.user = "active" /\ (kind = "updateProfile" => person.profile.is = "live")
  BY <1>1 DEF Found, StaffKinds, MayHaveProfile
<1>5. found = "read" => early /\ person.user # "none" /\ (kind = "updateProfile" => person.wallet /\ person.profile.id # 0)
  BY <1>4 DEF StaffInv, NumberedRow, WalletComesFirst
<1>6. /\ staffOp'[r].kind = kind /\ staffOp'[r].at = found
      /\ staffOp'[r].early = early /\ staffOp'[r].profile = person.profile.id
      /\ \A q \in StaffRequests \ {r} : staffOp'[q] = staffOp[q]
  <2> HIDE DEF found, early
  <2> QED BY <1>0 DEF StaffInv, WellTyped
<1>7. staffOp' \in [StaffRequests -> Ops]
  BY <1>0, <1>3 DEF StaffInv, WellTyped
<1> HIDE DEF found, early, now
<1>8. WellTyped'
  BY <1>0, <1>7 DEF StaffInv, WellTyped
<1>9. NumberedRow' /\ WalletComesFirst'
  BY <1>0 DEF StaffInv, NumberedRow, WalletComesFirst
<1>10. FoundWhatItNeeds'
  BY <1>0, <1>5, <1>6 DEF StaffInv, FoundWhatItNeeds
<1>11. \A q \in StaffRequests : Leaves(q) <=> Leaves(q)'
  BY <1>0, <1>1, <1>2, <1>6 DEF Leaves, IsAt
<1>12. OnlyAfterDeletion'
  BY <1>0, <1>11 DEF StaffInv, OnlyAfterDeletion
<1>13. \A q \in StaffRequests : Catches(q) => Catches(q)'
  BY <1>0, <1>1, <1>6 DEF Catches, IsAt
<1>14. LiveIsCaught'
  BY <1>0, <1>13, CaughtOn
<1> QED BY <1>8, <1>9, <1>10, <1>12, <1>14 DEF StaffInv

\* createStaff: only where there is nobody.
LEMMA CreateStaffStep ==
  ASSUME StaffInv, NEW r \in StaffRequests, CreateStaff(r)
  PROVE  StaffInv'
<1> DEFINE now == [kind |-> "createStaff", at |-> "ended", profile |-> r, early |-> TRUE]
<1>0. staffOp' = [staffOp EXCEPT ![r] = now] /\ UNCHANGED <<leaving, misfits, staffPlot>> /\ staffOp[r].at = "new"
  BY DEF CreateStaff, Begins
<1>1. now \in Ops
  BY DEF Ops, StaffKinds
<1>2. staffOp'[r].at = "ended" /\ \A q \in StaffRequests \ {r} : staffOp'[q] = staffOp[q]
  BY <1>0 DEF StaffInv, WellTyped
<1>3. staffOp' \in [StaffRequests -> Ops]
  BY <1>0, <1>1 DEF StaffInv, WellTyped
<1> HIDE DEF now
<1>4. CASE person.user = "none"
  <2>1. /\ person'.user = "active" /\ person'.wallet /\ person'.profile.is = "live" /\ person'.profile.id = r
        /\ person' \in Persons
    BY <1>4 DEF CreateStaff, Employed, Live, Persons, Profiles
  <2>2. WellTyped' /\ NumberedRow'
    BY <1>0, <1>3, <2>1, StaffAssumption DEF StaffInv, WellTyped, NumberedRow
  <2>3. FoundWhatItNeeds'
    BY <1>2, <1>4, <2>1 DEF StaffInv, FoundWhatItNeeds
  <2>4. \A q \in StaffRequests : ~ Leaves(q)' \/ "revived" \in misfits
    BY <1>0, <1>2, <1>4 DEF StaffInv, OnlyAfterDeletion, Leaves, IsAt
  <2>5. LiveIsCaught' /\ OnlyAfterDeletion' /\ WalletComesFirst'
    BY <1>0, <2>1, <2>4 DEF LiveIsCaught, OnlyAfterDeletion, WalletComesFirst
  <2> QED BY <2>2, <2>3, <2>5 DEF StaffInv
<1>5. CASE person.user # "none"
  <2>1. person' = person
    BY <1>5 DEF CreateStaff
  <2>2. WellTyped' /\ NumberedRow' /\ WalletComesFirst'
    BY <1>0, <1>3, <2>1 DEF StaffInv, WellTyped, NumberedRow, WalletComesFirst
  <2>3. FoundWhatItNeeds'
    BY <1>2, <2>1 DEF StaffInv, FoundWhatItNeeds
  <2>4. \A q \in StaffRequests : (Leaves(q)' => Leaves(q)) /\ (Catches(q) => Catches(q)')
    BY <1>0, <1>2, <2>1 DEF Leaves, Catches, IsAt
  <2>5. LiveIsCaught' /\ OnlyAfterDeletion'
    BY <1>0, <2>1, <2>4, CaughtOn DEF StaffInv, OnlyAfterDeletion
  <2> QED BY <2>2, <2>3, <2>5 DEF StaffInv
<1> QED BY <1>4, <1>5

\* A request that writes a profile for a user deleted meanwhile makes a late one.
LEMMA WrittenStep ==
  ASSUME StaffInv, NEW r \in StaffRequests, NEW id \in (StaffRequests \cup {0, Hired}) \ {0},
         staffOp[r].at = "read", staffOp[r].kind # "removeUser",
         Gets(r, "ended"), UNCHANGED <<leaving, staffPlot>>,
         \/ /\ person' = Employed(person.user, TRUE, Live(id))
            /\ Misfit("late", person.user = "deleted" /\ staffOp[r].early)
         \/ UNCHANGED <<person, misfits>>
  PROVE  StaffInv'
<1>1. /\ staffOp' \in [StaffRequests -> Ops] /\ staffOp'[r].at = "ended"
      /\ \A q \in StaffRequests \ {r} : staffOp'[q] = staffOp[q]
  BY GetsOn
<1>2. staffOp[r].early
  BY DEF StaffInv, FoundWhatItNeeds
<1>3. \A q \in StaffRequests : Leaves(q) <=> Leaves(q)'
  BY <1>1 DEF Leaves, IsAt
<1>4. ASSUME UNCHANGED <<person, misfits>> PROVE StaffInv'
  <2>1. WellTyped' /\ NumberedRow' /\ WalletComesFirst'
    BY <1>1, <1>4 DEF StaffInv, WellTyped, NumberedRow, WalletComesFirst
  <2>2. FoundWhatItNeeds'
    BY <1>1, <1>4 DEF StaffInv, FoundWhatItNeeds
  <2>3. \A q \in StaffRequests : Catches(q) => Catches(q)'
    BY <1>1, <1>4 DEF Catches, IsAt
  <2>4. LiveIsCaught' /\ OnlyAfterDeletion'
    BY <1>3, <1>4, <2>3, CaughtOn DEF StaffInv, OnlyAfterDeletion
  <2> QED BY <2>1, <2>2, <2>4 DEF StaffInv
<1>5. ASSUME person' = Employed(person.user, TRUE, Live(id)),
             Misfit("late", person.user = "deleted" /\ staffOp[r].early)
      PROVE  StaffInv'
  <2>1. /\ person'.user = person.user /\ person'.wallet
        /\ person'.profile.is = "live" /\ person'.profile.id = id /\ person' \in Persons
    BY <1>5 DEF StaffInv, WellTyped, Persons, Profiles, Employed, Live
  <2>2. /\ misfits' \subseteq misfits \cup {"late"} /\ misfits \subseteq misfits'
        /\ person.user = "deleted" => "late" \in misfits'
    BY <1>2, <1>5 DEF Misfit
  <2>3. WellTyped' /\ NumberedRow'
    BY <1>1, <2>1, <2>2 DEF StaffInv, WellTyped, NumberedRow
  <2>4. FoundWhatItNeeds'
    BY <1>1, <2>1 DEF StaffInv, FoundWhatItNeeds
  <2>5. LiveIsCaught' /\ OnlyAfterDeletion' /\ WalletComesFirst'
    BY <1>3, <2>1, <2>2 DEF StaffInv, LiveIsCaught, OnlyAfterDeletion, WalletComesFirst
  <2> QED BY <2>3, <2>4, <2>5 DEF StaffInv
<1> QED BY <1>4, <1>5

\* createProfile gives the profile the number of its request.
LEMMA InsertProfileStep ==
  ASSUME StaffInv, NEW r \in StaffRequests, InsertProfile(r)
  PROVE  StaffInv'
<1>1. r \in (StaffRequests \cup {0, Hired}) \ {0}
  BY StaffAssumption
<1> QED BY <1>1, WrittenStep DEF InsertProfile, IsAt

\* updateProfile found a profile, and so a wallet.
LEMMA SaveProfileStep ==
  ASSUME StaffInv, NEW r \in StaffRequests, SaveProfile(r)
  PROVE  StaffInv'
<1>1. staffOp[r].profile \in (StaffRequests \cup {0, Hired}) \ {0}
  BY DEF StaffInv, WellTyped, Ops, FoundWhatItNeeds, SaveProfile, IsAt
<1>2. person.wallet = TRUE
  BY DEF StaffInv, WellTyped, Persons, FoundWhatItNeeds, SaveProfile, IsAt
<1> QED BY <1>1, <1>2, WrittenStep DEF SaveProfile, IsAt

\* A profile that is removed is nobody's.
LEMMA RemoveProfileStep ==
  ASSUME StaffInv, NEW r \in StaffRequests, RemoveProfile(r)
  PROVE  StaffInv'
<1>1. /\ staffOp' \in [StaffRequests -> Ops] /\ staffOp'[r].at = "ended"
      /\ \A q \in StaffRequests \ {r} : staffOp'[q] = staffOp[q]
  BY GetsOn DEF RemoveProfile
<1>2. UNCHANGED <<leaving, misfits, staffPlot>>
  BY DEF RemoveProfile
<1>3. \A q \in StaffRequests : Leaves(q) <=> Leaves(q)'
  BY <1>1, <1>2 DEF Leaves, IsAt, RemoveProfile
<1>4. \/ person' = person
      \/ /\ person'.user = person.user /\ person'.wallet = person.wallet
         /\ person'.profile.is = "none" /\ person'.profile.id = 0 /\ person' \in Persons
  BY DEF RemoveProfile, Employed, NoProfile, StaffInv, WellTyped, Persons, Profiles
<1>5. WellTyped' /\ NumberedRow' /\ WalletComesFirst'
  BY <1>1, <1>2, <1>4 DEF StaffInv, WellTyped, NumberedRow, WalletComesFirst
<1>6. FoundWhatItNeeds'
  BY <1>1, <1>4 DEF StaffInv, FoundWhatItNeeds
<1>7. OnlyAfterDeletion'
  BY <1>2, <1>3, <1>4 DEF StaffInv, OnlyAfterDeletion
<1>8. person' = person => \A q \in StaffRequests : Catches(q) => Catches(q)'
  BY <1>1, <1>2 DEF Catches, IsAt, RemoveProfile
<1>9. LiveIsCaught'
  <2>1. CASE person' = person
    BY <1>2, <1>8, <2>1, CaughtOn
  <2>2. CASE person'.profile.is = "none"
    BY <2>2 DEF LiveIsCaught
  <2> QED BY <1>4, <2>1, <2>2
<1> QED BY <1>5, <1>6, <1>7, <1>9 DEF StaffInv

\* A save that takes the deletion of the user back says so.
LEMMA SaveUserStep ==
  ASSUME StaffInv, NEW r \in StaffRequests, SaveUser(r)
  PROVE  StaffInv'
<1>1. /\ staffOp' \in [StaffRequests -> Ops] /\ staffOp'[r].at = "ended"
      /\ \A q \in StaffRequests \ {r} : staffOp'[q] = staffOp[q]
  BY GetsOn DEF SaveUser
<1>2. /\ UNCHANGED <<leaving, staffPlot>> /\ misfits \subseteq misfits'
      /\ misfits' \subseteq misfits \cup {"revived"}
      /\ person.user = "deleted" => "revived" \in misfits'
  BY DEF SaveUser, Misfit
<1>3. \A q \in StaffRequests : Leaves(q) <=> Leaves(q)'
  BY <1>1, <1>2 DEF Leaves, IsAt, SaveUser
<1>4. /\ person'.user = "active" /\ person'.wallet = person.wallet
      /\ person'.profile = person.profile /\ person' \in Persons
  BY DEF SaveUser, Employed, StaffInv, WellTyped, Persons
<1>5. WellTyped' /\ NumberedRow' /\ WalletComesFirst'
  BY <1>1, <1>2, <1>4 DEF StaffInv, WellTyped, NumberedRow, WalletComesFirst
<1>6. FoundWhatItNeeds'
  BY <1>1, <1>4 DEF StaffInv, FoundWhatItNeeds
<1>7. OnlyAfterDeletion' /\ LiveIsCaught'
  BY <1>2, <1>3, <1>4 DEF StaffInv, OnlyAfterDeletion, LiveIsCaught
<1> QED BY <1>5, <1>6, <1>7 DEF StaffInv

\* The event of a deleted user is to come.
LEMMA SoftRemoveUserStep ==
  ASSUME StaffInv, NEW r \in StaffRequests, SoftRemoveUser(r)
  PROVE  StaffInv'
<1>1. /\ staffOp' \in [StaffRequests -> Ops] /\ staffOp'[r].at = "announce" /\ staffOp'[r].kind = "removeUser"
      /\ \A q \in StaffRequests \ {r} : staffOp'[q] = staffOp[q]
  BY GetsOn DEF SoftRemoveUser, IsAt
<1>2. UNCHANGED <<leaving, misfits, staffPlot>>
  BY DEF SoftRemoveUser
<1>3. /\ person'.user = "deleted" /\ person'.wallet = person.wallet
      /\ person'.profile = person.profile /\ person' \in Persons
  BY DEF SoftRemoveUser, Employed, StaffInv, WellTyped, Persons
<1>4. WellTyped' /\ NumberedRow' /\ WalletComesFirst'
  BY <1>1, <1>2, <1>3 DEF StaffInv, WellTyped, NumberedRow, WalletComesFirst
<1>5. FoundWhatItNeeds'
  BY <1>1, <1>3 DEF StaffInv, FoundWhatItNeeds
<1>6. Catches(r)'
  BY <1>1 DEF Catches, IsAt
<1>7. OnlyAfterDeletion' /\ LiveIsCaught'
  BY <1>3, <1>6 DEF OnlyAfterDeletion, LiveIsCaught
<1> QED BY <1>4, <1>5, <1>7 DEF StaffInv

\* A handler's step changes that handler only.
LEMMA HandlerGoesOn ==
  ASSUME StaffInv, NEW r \in StaffRequests, NEW at \in {"none", "due", "found", "over"},
         leaving' = [leaving EXCEPT ![r].at = at]
  PROVE  /\ leaving' \in [StaffRequests -> Handlers] /\ leaving'[r].at = at
         /\ leaving'[r].profile = leaving[r].profile
         /\ \A q \in StaffRequests \ {r} : leaving'[q] = leaving[q]
BY DEF StaffInv, WellTyped, Handlers

\* The published event is due.
LEMMA PublishStep ==
  ASSUME StaffInv, NEW r \in StaffRequests, PublishUserDeleted(r)
  PROVE  StaffInv'
<1>1. /\ staffOp' \in [StaffRequests -> Ops] /\ staffOp'[r].at = "ended"
      /\ \A q \in StaffRequests \ {r} : staffOp'[q] = staffOp[q]
  BY GetsOn DEF PublishUserDeleted
<1>2. /\ leaving' \in [StaffRequests -> Handlers] /\ leaving'[r].at = "due"
      /\ \A q \in StaffRequests \ {r} : leaving'[q] = leaving[q]
  BY HandlerGoesOn DEF PublishUserDeleted
<1>3. UNCHANGED <<person, misfits, staffPlot>> /\ Leaves(r)
  BY DEF PublishUserDeleted, Leaves
<1>4. WellTyped' /\ NumberedRow' /\ WalletComesFirst'
  BY <1>1, <1>2, <1>3 DEF StaffInv, WellTyped, NumberedRow, WalletComesFirst
<1>5. FoundWhatItNeeds'
  BY <1>1, <1>3 DEF StaffInv, FoundWhatItNeeds
<1>6. \A q \in StaffRequests : (Leaves(q)' => Leaves(q)) /\ (Catches(q) => Catches(q)')
  BY <1>1, <1>2, <1>3 DEF Leaves, Catches, IsAt
<1>7. OnlyAfterDeletion' /\ LiveIsCaught'
  BY <1>3, <1>6, CaughtOn DEF StaffInv, OnlyAfterDeletion
<1> QED BY <1>4, <1>5, <1>7 DEF StaffInv

\* The handler finds the live profile if there is one.
LEMMA FindLeaverStep ==
  ASSUME StaffInv, NEW r \in StaffRequests, FindLeaver(r)
  PROVE  StaffInv'
<1> DEFINE at == IF person.profile.is = "live" THEN "found" ELSE "over"
           now == [at |-> at, profile |-> person.profile.id]
<1>0. /\ leaving' = [leaving EXCEPT ![r] = now] /\ leaving[r].at = "due"
      /\ UNCHANGED <<person, staffOp, misfits, staffPlot>>
  BY DEF FindLeaver
<1>1. now \in Handlers /\ at \in {"found", "over"}
  BY DEF StaffInv, WellTyped, Persons, Profiles, Handlers
<1>2. /\ leaving'[r].at = at /\ leaving'[r].profile = person.profile.id
      /\ \A q \in StaffRequests \ {r} : leaving'[q] = leaving[q]
  <2> HIDE DEF at
  <2> QED BY <1>0 DEF StaffInv, WellTyped
<1>3. leaving' \in [StaffRequests -> Handlers]
  BY <1>0, <1>1 DEF StaffInv, WellTyped
<1>4. at = "found" <=> person.profile.is = "live"
  OBVIOUS
<1> HIDE DEF at, now
<1>5. WellTyped' /\ WalletComesFirst' /\ FoundWhatItNeeds'
  BY <1>0, <1>3 DEF StaffInv, WellTyped, WalletComesFirst, FoundWhatItNeeds
<1>6. NumberedRow'
  BY <1>0, <1>2, <1>4 DEF StaffInv, NumberedRow
<1>7. \A q \in StaffRequests : Leaves(q)' => Leaves(q)
  BY <1>0, <1>2 DEF Leaves, IsAt
<1>8. OnlyAfterDeletion'
  BY <1>0, <1>7 DEF StaffInv, OnlyAfterDeletion
<1>9. person.profile.is = "live" => \A q \in StaffRequests : Catches(q) => Catches(q)'
  BY <1>0, <1>2, <1>4 DEF Catches, IsAt
<1>10. LiveIsCaught'
  BY <1>0, <1>9 DEF StaffInv, LiveIsCaught
<1> QED BY <1>5, <1>6, <1>8, <1>10 DEF StaffInv

\* The handler deletes the profile it found, or it was another one.
LEMMA SoftRemoveProfileStep ==
  ASSUME StaffInv, NEW r \in StaffRequests, SoftRemoveProfile(r)
  PROVE  StaffInv'
<1>1. /\ leaving' \in [StaffRequests -> Handlers] /\ leaving'[r].at = "over"
      /\ \A q \in StaffRequests \ {r} : leaving'[q] = leaving[q]
  BY HandlerGoesOn DEF SoftRemoveProfile
<1>2. UNCHANGED <<staffOp, misfits, staffPlot>> /\ leaving[r].at = "found" /\ Leaves(r)
  BY DEF SoftRemoveProfile, Leaves
<1>3. \A q \in StaffRequests : Leaves(q)' => Leaves(q)
  BY <1>1, <1>2 DEF Leaves, IsAt
<1>4. CASE person.profile.id = leaving[r].profile
  <2>1. /\ person'.user = person.user /\ person'.wallet = person.wallet
        /\ person'.profile.is = "deleted" /\ person'.profile.id = person.profile.id /\ person' \in Persons
    BY <1>4 DEF SoftRemoveProfile, Employed, StaffInv, WellTyped, Persons, Profiles
  <2>2. WellTyped' /\ WalletComesFirst' /\ LiveIsCaught'
    BY <1>1, <1>2, <2>1 DEF StaffInv, WellTyped, WalletComesFirst, LiveIsCaught
  <2>3. FoundWhatItNeeds'
    BY <1>2, <2>1 DEF StaffInv, FoundWhatItNeeds
  <2>4. NumberedRow'
    BY <1>1, <1>2, <1>4, <2>1 DEF StaffInv, NumberedRow
  <2>5. OnlyAfterDeletion'
    BY <1>2, <1>3, <2>1 DEF StaffInv, OnlyAfterDeletion
  <2> QED BY <2>2, <2>3, <2>4, <2>5 DEF StaffInv
<1>5. CASE person.profile.id # leaving[r].profile
  <2>1. person' = person
    BY <1>5 DEF SoftRemoveProfile
  <2>2. WellTyped' /\ WalletComesFirst' /\ FoundWhatItNeeds'
    BY <1>1, <1>2, <2>1 DEF StaffInv, WellTyped, WalletComesFirst, FoundWhatItNeeds
  <2>3. NumberedRow'
    BY <1>1, <2>1 DEF StaffInv, NumberedRow
  <2>4. \A q \in StaffRequests : Catches(q) => Catches(q)'
    BY <1>1, <1>2, <1>5, <2>1 DEF Catches, IsAt
  <2>5. OnlyAfterDeletion' /\ LiveIsCaught'
    BY <1>2, <1>3, <2>1, <2>4, CaughtOn DEF StaffInv, OnlyAfterDeletion
  <2> QED BY <2>2, <2>3, <2>5 DEF StaffInv
<1> QED BY <1>4, <1>5

\* A lost event is a misfit.
LEMMA LoseLeaverStep ==
  ASSUME StaffInv, NEW r \in StaffRequests, LoseLeaver(r)
  PROVE  StaffInv'
<1>1. /\ misfits' = misfits \cup {"lost"} /\ UNCHANGED <<person, staffPlot>>
      /\ \/ leaving' = [leaving EXCEPT ![r].at = "over"] /\ UNCHANGED staffOp
         \/ IsAt(r, "removeUser", "announce") /\ Gets(r, "ended") /\ UNCHANGED leaving
  BY DEF LoseLeaver
<1>2. /\ leaving' \in [StaffRequests -> Handlers]
      /\ \A q \in StaffRequests : leaving'[q] = leaving[q] \/ leaving'[q].at = "over"
  BY <1>1, HandlerGoesOn DEF StaffInv, WellTyped
<1>3. /\ staffOp' \in [StaffRequests -> Ops]
      /\ \A q \in StaffRequests : staffOp'[q] = staffOp[q] \/ staffOp'[q].at = "ended"
  BY <1>1, GetsOn DEF StaffInv, WellTyped
<1>4. WellTyped' /\ WalletComesFirst'
  BY <1>1, <1>2, <1>3 DEF StaffInv, WellTyped, WalletComesFirst
<1>5. NumberedRow'
  BY <1>1, <1>2 DEF StaffInv, NumberedRow
<1>6. FoundWhatItNeeds'
  BY <1>1, <1>3 DEF StaffInv, FoundWhatItNeeds
<1>7. \A q \in StaffRequests : Leaves(q)' => Leaves(q)
  BY <1>2, <1>3 DEF Leaves, IsAt
<1>8. OnlyAfterDeletion' /\ LiveIsCaught'
  BY <1>1, <1>7, CaughtOn DEF StaffInv, OnlyAfterDeletion
<1> QED BY <1>4, <1>5, <1>6, <1>8 DEF StaffInv

\* A request that fails wrote nothing.
LEMMA RequestFailsStep ==
  ASSUME StaffInv, NEW r \in StaffRequests, StaffRequestFails(r)
  PROVE  StaffInv'
<1>1. /\ staffOp' \in [StaffRequests -> Ops] /\ staffOp'[r].at = "ended" /\ staffOp[r].at = "read"
      /\ \A q \in StaffRequests \ {r} : staffOp'[q] = staffOp[q]
  BY GetsOn DEF StaffRequestFails
<1>2. UNCHANGED <<person, leaving, misfits, staffPlot>>
  BY DEF StaffRequestFails
<1>3. WellTyped' /\ NumberedRow' /\ WalletComesFirst'
  BY <1>1, <1>2 DEF StaffInv, WellTyped, NumberedRow, WalletComesFirst
<1>4. FoundWhatItNeeds'
  BY <1>1, <1>2 DEF StaffInv, FoundWhatItNeeds
<1>5. \A q \in StaffRequests : (Leaves(q)' => Leaves(q)) /\ (Catches(q) => Catches(q)')
  BY <1>1, <1>2 DEF Leaves, Catches, IsAt
<1>6. OnlyAfterDeletion' /\ LiveIsCaught'
  BY <1>2, <1>5, CaughtOn DEF StaffInv, OnlyAfterDeletion
<1> QED BY <1>3, <1>4, <1>6 DEF StaffInv
----------------------------------------------------------------------------
\* Every step keeps the invariant.
LEMMA StepKeepsInv == StaffInv /\ [StaffRecordsNext]_staffRecordVars => StaffInv'
<1> SUFFICES ASSUME StaffInv, [StaffRecordsNext]_staffRecordVars PROVE StaffInv'
  OBVIOUS
<1>1. ASSUME NEW r \in StaffRequests, NEW kind, LookUp(r, kind) PROVE StaffInv'
  BY <1>1, LookUpStep
<1>2. ASSUME NEW r \in StaffRequests,
             CreateStaff(r) \/ InsertProfile(r) \/ SaveProfile(r) \/ RemoveProfile(r)
      PROVE  StaffInv'
  BY <1>2, CreateStaffStep, InsertProfileStep, SaveProfileStep, RemoveProfileStep
<1>3. ASSUME NEW r \in StaffRequests,
             SaveUser(r) \/ SoftRemoveUser(r) \/ PublishUserDeleted(r) \/ StaffRequestFails(r)
      PROVE  StaffInv'
  BY <1>3, SaveUserStep, SoftRemoveUserStep, PublishStep, RequestFailsStep
<1>4. ASSUME NEW r \in StaffRequests, FindLeaver(r) \/ SoftRemoveProfile(r) \/ LoseLeaver(r)
      PROVE  StaffInv'
  BY <1>4, FindLeaverStep, SoftRemoveProfileStep, LoseLeaverStep
<1>5. ASSUME UNCHANGED staffRecordVars PROVE StaffInv'
  BY <1>5 DEF staffRecordVars, StaffInv, WellTyped, NumberedRow, FoundWhatItNeeds,
              LiveIsCaught, Catches, OnlyAfterDeletion, Leaves, IsAt, WalletComesFirst
<1> QED BY <1>1, <1>2, <1>3, <1>4, <1>5 DEF StaffRecordsNext

\* A deleted user has no profile that payroll would pay unless the event is under way or lost or
\* a late request wrote it, a user who was not deleted keeps the profile, and whoever has one has
\* a wallet: for any number of requests of any kind, events and faults.
THEOREM ProfilesAlwaysFollow == StaffRecordsSpec => [](StaffRecordsTypeOK /\ ProfilesFollowUsers)
<1>1. StaffRecordsSpec => []StaffInv
  BY InvInitially, StepKeepsInv, PTL DEF StaffRecordsSpec
<1> QED BY <1>1, InvSuffices, PTL
------------------------------------------------------------------------------
(* The timers.  A start that found no timer running still finds none as    *)
(* long as no entry was added beside it and none was saved from an old     *)
(* copy; and a copy's minutes add up as its row's did, so that the saves   *)
(* keep that whatever they overwrite.                                      *)
EntryTimes == Instants \cup {NoTime}
TimerRows == [status : {"RUNNING", "STOPPED", "GONE"}, from : EntryTimes, to : EntryTimes, minutes : Int]
Copied(r) == timeOp[r].at = "looked" /\ timePlot[r] \in {"stop", "edit"}

TimersTyped ==
  /\ timers \in Seq(TimerRows)
  /\ timeOp \in [TimeRequests -> [at : {"new", "looked", "ended"}, entry : Nat, copy : TimerRows]]
  /\ \A r \in TimeRequests : timeOp[r].entry <= Len(timers)
  /\ \A r \in TimeRequests : Copied(r) => timeOp[r].entry \in DOMAIN timers
  /\ crossed \in BOOLEAN /\ outOfDate \subseteq DOMAIN timers

AddsUp(timer) == timer.status = "STOPPED" => timer.minutes = timer.to - timer.from

MinutesAddUp ==
  /\ \A e \in DOMAIN timers : AddsUp(timers[e])
  /\ \A r \in TimeRequests : AddsUp(timeOp[r].copy)

OneTimerRuns ==
  ~crossed /\ outOfDate = {} =>
    /\ \A d, e \in RunningTimers : d = e
    /\ \A r \in TimeRequests : Is(r, "start", "looked") /\ timeOp[r].entry = Len(timers) => NoneRunning

TimeInv == TimersTyped /\ MinutesAddUp /\ OneTimerRuns

\* The invariant implies the two things the runs check.
LEMMA TimeInvSuffices == TimeInv => TimeTypeOK /\ TimesAddUp
<1> SUFFICES ASSUME TimeInv PROVE TimeTypeOK /\ TimesAddUp
  OBVIOUS
<1> USE DEF TimeInv, TimersTyped
<1>1. ASSUME NEW e \in DOMAIN timers PROVE timers[e] \in TimerRows
  <2>1. e \in 1..Len(timers)
    OBVIOUS
  <2> QED BY <2>1
<1>2. TimeTypeOK
  BY <1>1 DEF TimeTypeOK, TimerRows, EntryTimes
<1>3. ~crossed /\ outOfDate = {} => Cardinality(RunningTimers) <= 1
  BY AtMostOne DEF OneTimerRuns
<1>4. TimesAddUp
  BY <1>3 DEF TimesAddUp, MinutesAddUp, AddsUp
<1> QED BY <1>2, <1>4

LEMMA TimesAreInts == \A from, to \in EntryTimes : to - from \in Int
<1>1. NoTime \in Int
  BY DEF NoTime
<1>2. \A t \in EntryTimes : t \in Int
  BY <1>1, InstantsAssumption DEF EntryTimes
<1> QED BY <1>2

LEMMA TimeInitially == TimeInit => TimeInv
<1> SUFFICES ASSUME TimeInit PROVE TimeInv
  OBVIOUS
<1> USE DEF TimeInit, IdleOp, NoTimer
<1>1. TimersTyped
  <2>1. NoTimer \in TimerRows
    BY DEF TimerRows, EntryTimes
  <2>2. timers \in Seq(TimerRows) /\ Len(timers) = 0 /\ DOMAIN timers = {}
    OBVIOUS
  <2>3. \A r \in TimeRequests : timeOp[r].entry = 0 /\ ~Copied(r)
    BY DEF Copied
  <2>4. IdleOp \in [at : {"new", "looked", "ended"}, entry : Nat, copy : TimerRows]
    BY <2>1
  <2> HIDE DEF IdleOp, NoTimer
  <2>5. timeOp \in [TimeRequests -> [at : {"new", "looked", "ended"}, entry : Nat, copy : TimerRows]]
    BY <2>4
  <2>6. crossed \in BOOLEAN /\ outOfDate \subseteq DOMAIN timers
    OBVIOUS
  <2>7. \A r \in TimeRequests : timeOp[r].entry <= Len(timers)
    BY <2>2, <2>3
  <2> HIDE DEF TimeInit
  <2> QED BY <2>2, <2>3, <2>5, <2>6, <2>7 DEF TimersTyped
<1>2. MinutesAddUp
  BY DEF MinutesAddUp, AddsUp
<1>3. OneTimerRuns
  BY DEF OneTimerRuns, RunningTimers, Is
<1> QED BY <1>1, <1>2, <1>3 DEF TimeInv

\* A step of a request that adds no entry, starts no timer and leaves no start behind it.
LEMMA NoTimerStarts ==
  ASSUME OneTimerRuns, UNCHANGED <<timePlot, crossed>>, outOfDate' = {} => outOfDate = {},
         outOfDate' = {} => RunningTimers' \subseteq RunningTimers, Len(timers') = Len(timers),
         \A r \in TimeRequests : timeOp[r]' = timeOp[r]
                                   \/ (Is(r, "start", "looked")' => NoneRunning /\ timers' = timers)
  PROVE  OneTimerRuns'
BY DEF OneTimerRuns, Is, NoneRunning, RunningTimers

LEMMA StartLooksStep == ASSUME TimeInv, NEW r \in TimeRequests, StartLooks(r) PROVE TimeInv'
<1> USE DEF TimeInv, StartLooks, TimeOpGoes
<1>1. NoTimer \in TimerRows /\ Len(timers) \in Nat
  BY DEF NoTimer, TimerRows, EntryTimes, TimersTyped
<1>2. TimersTyped'
  BY <1>1 DEF TimersTyped, Copied, Is
<1>3. MinutesAddUp'
  BY DEF MinutesAddUp, AddsUp, NoTimer, TimersTyped
<1>4. OneTimerRuns'
  <2>1. \A q \in TimeRequests : timeOp[q]' = timeOp[q]
                                  \/ (Is(q, "start", "looked")' => NoneRunning /\ timers' = timers)
    BY DEF TimersTyped, Is
  <2>2. RunningTimers' = RunningTimers
    BY DEF RunningTimers
  <2> QED BY <2>1, <2>2, NoTimerStarts
<1> QED BY <1>2, <1>3, <1>4

LEMMA StartSavesStep == ASSUME TimeInv, NEW r \in TimeRequests, StartSaves(r) PROVE TimeInv'
<1> USE DEF TimeInv
<1>1. PICK now \in Instants :
        timers' = Append(timers, [status |-> "RUNNING", from |-> now, to |-> NoTime, minutes |-> 0])
  BY DEF StartSaves
<1> DEFINE new == [status |-> "RUNNING", from |-> now, to |-> NoTime, minutes |-> 0]
<1>2. new \in TimerRows /\ NoTimer \in TimerRows
  BY DEF TimerRows, EntryTimes, NoTimer
<1>3. timers \in Seq(TimerRows) /\ timers' = Append(timers, new)
  BY <1>1 DEF TimersTyped
<1> HIDE DEF new
<1>4. /\ timers' \in Seq(TimerRows) /\ Len(timers) \in Nat /\ Len(timers') = Len(timers) + 1
      /\ DOMAIN timers = 1..Len(timers) /\ DOMAIN timers' = 1..Len(timers) + 1
      /\ timers'[Len(timers) + 1] = new /\ \A e \in DOMAIN timers : timers'[e] = timers[e]
  BY <1>2, <1>3
<1>5. /\ timeOp' = [timeOp EXCEPT ![r] = [at |-> "ended", entry |-> 0, copy |-> NoTimer]]
      /\ timePlot' = timePlot /\ outOfDate' = outOfDate
      /\ Is(r, "start", "looked") /\ crossed' = (crossed \/ Len(timers) # timeOp[r].entry)
  BY DEF StartSaves, TimeOpGoes
<1>6. TimersTyped'
  BY <1>2, <1>4, <1>5 DEF TimersTyped, Copied
<1>7. MinutesAddUp'
  <2>1. AddsUp(new) /\ AddsUp(NoTimer)
    BY DEF AddsUp, new, NoTimer
  <2>2. \A e \in DOMAIN timers' : AddsUp(timers'[e])
    BY <2>1, <1>4 DEF MinutesAddUp
  <2>3. \A q \in TimeRequests : AddsUp(timeOp'[q].copy)
    BY <2>1, <1>5 DEF MinutesAddUp, TimersTyped
  <2> QED BY <2>2, <2>3 DEF MinutesAddUp, AddsUp
<1>8. OneTimerRuns'
  <2> SUFFICES ASSUME ~crossed', outOfDate' = {} PROVE
        /\ \A d, e \in RunningTimers' : d = e
        /\ \A q \in TimeRequests : ~(Is(q, "start", "looked")' /\ timeOp'[q].entry = Len(timers'))
    BY DEF OneTimerRuns
  <2>1. RunningTimers = {}
    BY <1>5 DEF OneTimerRuns, TimersTyped, NoneRunning
  <2>2. RunningTimers' \subseteq {Len(timers) + 1}
    BY <2>1, <1>4 DEF RunningTimers
  <2>3. \A q \in TimeRequests : ~(Is(q, "start", "looked")' /\ timeOp'[q].entry = Len(timers'))
    BY <1>4, <1>5 DEF Is, TimersTyped
  <2> QED BY <2>2, <2>3
<1> QED BY <1>6, <1>7, <1>8

LEMMA LoadTimerStep == ASSUME TimeInv, NEW r \in TimeRequests, NEW e \in DOMAIN timers, LoadTimer(r, e) PROVE TimeInv'
<1> USE DEF TimeInv, LoadTimer, TimeOpGoes
<1>1. timers[e] \in TimerRows /\ e \in Nat /\ e <= Len(timers)
  BY DEF TimersTyped
<1>2. TimersTyped'
  BY <1>1 DEF TimersTyped, Copied, Is
<1>3. MinutesAddUp'
  BY DEF MinutesAddUp, AddsUp, TimersTyped
<1>4. OneTimerRuns'
  <2>1. \A q \in TimeRequests : timeOp[q]' = timeOp[q]
                                  \/ (Is(q, "start", "looked")' => NoneRunning /\ timers' = timers)
    BY DEF TimersTyped, Is
  <2>2. RunningTimers' = RunningTimers
    BY DEF RunningTimers
  <2> QED BY <2>1, <2>2, NoTimerStarts
<1> QED BY <1>2, <1>3, <1>4

\* A save of a row that adds up: no timer starts to run unless the copy was old.
LEMMA SaveTimerStep ==
  ASSUME TimeInv, NEW r \in TimeRequests, NEW timer \in TimerRows, Copied(r), SaveTimer(r, timer),
         AddsUp(timer), timer.status = "RUNNING" => timeOp[r].copy.status = "RUNNING"
  PROVE  TimeInv'
<1> USE DEF TimeInv
<1> DEFINE e == timeOp[r].entry
<1>1. /\ timers' = [timers EXCEPT ![e] = timer] /\ timePlot' = timePlot /\ crossed' = crossed
      /\ outOfDate' = IF timers[e] # timeOp[r].copy THEN outOfDate \cup {e} ELSE outOfDate
      /\ timeOp' = [timeOp EXCEPT ![r] = [at |-> "ended", entry |-> 0, copy |-> NoTimer]]
  BY DEF SaveTimer, TimeOpGoes
<1>2. e \in DOMAIN timers /\ NoTimer \in TimerRows
  BY DEF TimersTyped, NoTimer, TimerRows, EntryTimes
<1>3. timers \in Seq(TimerRows)
  BY DEF TimersTyped
<1>4. timers' \in Seq(TimerRows) /\ Len(timers') = Len(timers) /\ DOMAIN timers' = DOMAIN timers
  BY <1>1, <1>2, <1>3
<1>5. \A d \in DOMAIN timers : timers'[d] = IF d = e THEN timer ELSE timers[d]
  BY <1>1, <1>2
<1> HIDE DEF e
<1>6. TimersTyped'
  BY <1>1, <1>2, <1>4 DEF TimersTyped, Copied
<1>7. MinutesAddUp'
  <2>1. \A d \in DOMAIN timers' : AddsUp(timers'[d])
    BY <1>4, <1>5 DEF MinutesAddUp
  <2>2. \A q \in TimeRequests : AddsUp(timeOp'[q].copy)
    BY <1>1 DEF MinutesAddUp, TimersTyped, AddsUp, NoTimer
  <2> QED BY <2>1, <2>2 DEF MinutesAddUp, AddsUp
<1>8. OneTimerRuns'
  <2>1. outOfDate' = {} => outOfDate = {} /\ timers[e] = timeOp[r].copy
    BY <1>1
  <2>2. outOfDate' = {} => RunningTimers' \subseteq RunningTimers
    BY <1>2, <1>4, <1>5, <2>1 DEF RunningTimers
  <2>3. \A q \in TimeRequests : timeOp[q]' = timeOp[q]
                                  \/ (Is(q, "start", "looked")' => NoneRunning /\ timers' = timers)
    BY <1>1 DEF TimersTyped, Is
  <2> QED BY <1>1, <1>4, <2>1, <2>2, <2>3, NoTimerStarts
<1> QED BY <1>6, <1>7, <1>8

LEMMA StopSavesStep == ASSUME TimeInv, NEW r \in TimeRequests, StopSaves(r) PROVE TimeInv'
<1>1. PICK end \in Instants : SaveTimer(r, Stopped(timeOp[r].copy, end))
  BY DEF StopSaves
<1>2. timeOp[r].copy \in TimerRows
  BY DEF TimeInv, TimersTyped
<1>3. Stopped(timeOp[r].copy, end) \in TimerRows
  <2>1. timeOp[r].copy.from \in EntryTimes /\ end \in EntryTimes
    BY <1>2 DEF TimerRows, EntryTimes
  <2>2. end - timeOp[r].copy.from \in Int
    BY <2>1, TimesAreInts
  <2> QED BY <2>1, <2>2 DEF Stopped, TimerRows
<1>4. Copied(r)
  BY DEF StopSaves, Is, Copied
<1>5. AddsUp(Stopped(timeOp[r].copy, end)) /\ Stopped(timeOp[r].copy, end).status # "RUNNING"
  BY DEF AddsUp, Stopped
<1> QED BY <1>1, <1>3, <1>4, <1>5, SaveTimerStep

LEMMA EditSavesStep == ASSUME TimeInv, NEW r \in TimeRequests, EditSaves(r) PROVE TimeInv'
<1>1. PICK from, to \in EntryTimes : SaveTimer(r, Edited(timeOp[r].copy, from, to))
  BY DEF EditSaves, EntryTimes
<1> DEFINE copy == timeOp[r].copy
<1>2. copy \in TimerRows /\ AddsUp(copy)
  BY DEF TimeInv, TimersTyped, MinutesAddUp
<1> HIDE DEF copy
<1>4. Edited(copy, from, to) \in TimerRows
  <2> DEFINE first == IF from = NoTime THEN copy.from ELSE from
             last == IF to = NoTime THEN copy.to ELSE to
  <2>1. copy.status \in {"RUNNING", "STOPPED", "GONE"} /\ copy.minutes \in Int
    BY <1>2 DEF TimerRows
  <2>2. first \in EntryTimes /\ last \in EntryTimes
    BY <1>2 DEF TimerRows
  <2>3. last - first \in Int
    BY <2>2, TimesAreInts
  <2>4. Edited(copy, from, to) = [status |-> copy.status, from |-> first, to |-> last,
          minutes |-> IF Reckoned(copy, from, to) THEN last - first ELSE copy.minutes]
    BY DEF Edited
  <2> HIDE DEF first, last
  <2> QED BY <2>1, <2>2, <2>3, <2>4 DEF TimerRows
<1>5. AddsUp(Edited(copy, from, to)) /\ Edited(copy, from, to).status = copy.status
  BY <1>2 DEF AddsUp, Edited, Reckoned
<1>6. Copied(r)
  BY DEF EditSaves, Is, Copied
<1> QED BY <1>1, <1>4, <1>5, <1>6, SaveTimerStep DEF copy

LEMMA DeleteTimerStep ==
  ASSUME TimeInv, NEW r \in TimeRequests, NEW e \in DOMAIN timers, DeleteTimer(r, e) PROVE TimeInv'
<1> USE DEF TimeInv
<1>1. /\ timers' = [timers EXCEPT ![e] = NoTimer] /\ UNCHANGED <<timePlot, crossed, outOfDate>>
      /\ timeOp' = [timeOp EXCEPT ![r] = [at |-> "ended", entry |-> 0, copy |-> NoTimer]]
  BY DEF DeleteTimer, TimeOpGoes
<1>2. NoTimer \in TimerRows /\ NoTimer.status = "GONE"
  BY DEF NoTimer, TimerRows, EntryTimes
<1>3. timers \in Seq(TimerRows)
  BY DEF TimersTyped
<1>4. timers' \in Seq(TimerRows) /\ Len(timers') = Len(timers) /\ DOMAIN timers' = DOMAIN timers
  BY <1>1, <1>2, <1>3
<1>5. \A d \in DOMAIN timers : timers'[d] = IF d = e THEN NoTimer ELSE timers[d]
  BY <1>1
<1>6. TimersTyped'
  BY <1>1, <1>2, <1>4 DEF TimersTyped, Copied
<1>7. MinutesAddUp'
  <2>1. \A d \in DOMAIN timers' : AddsUp(timers'[d])
    BY <1>2, <1>4, <1>5 DEF MinutesAddUp, AddsUp
  <2>2. \A q \in TimeRequests : AddsUp(timeOp'[q].copy)
    BY <1>1, <1>2 DEF MinutesAddUp, TimersTyped, AddsUp
  <2> QED BY <2>1, <2>2 DEF MinutesAddUp, AddsUp
<1>8. OneTimerRuns'
  <2>1. RunningTimers' \subseteq RunningTimers
    BY <1>2, <1>4, <1>5 DEF RunningTimers
  <2>2. \A q \in TimeRequests : timeOp[q]' = timeOp[q]
                                  \/ (Is(q, "start", "looked")' => NoneRunning /\ timers' = timers)
    BY <1>1 DEF TimersTyped, Is
  <2> QED BY <1>1, <1>4, <2>1, <2>2, NoTimerStarts
<1> QED BY <1>6, <1>7, <1>8

LEMMA TimeStep == TimeInv /\ [TimeNext]_timeVars => TimeInv'
<1> SUFFICES ASSUME TimeInv, [TimeNext]_timeVars PROVE TimeInv'
  OBVIOUS
<1>1. CASE UNCHANGED timeVars
  BY <1>1 DEF timeVars, TimeInv, TimersTyped, Copied, MinutesAddUp, AddsUp, OneTimerRuns, Is, NoneRunning, RunningTimers
<1>2. ASSUME NEW r \in TimeRequests, StartLooks(r) \/ StartSaves(r) \/ StopSaves(r) \/ EditSaves(r) PROVE TimeInv'
  BY <1>2, StartLooksStep, StartSavesStep, StopSavesStep, EditSavesStep
<1>3. ASSUME NEW r \in TimeRequests, NEW e \in DOMAIN timers, LoadTimer(r, e) \/ DeleteTimer(r, e) PROVE TimeInv'
  BY <1>3, LoadTimerStep, DeleteTimerStep
<1> QED BY <1>1, <1>2, <1>3 DEF TimeNext

(* However the requests of a member of staff interleave, and however many  *)
(* there are: one timer runs at a time unless two starts crossed or an     *)
(* entry was saved from an old copy, and minutes are from start to end.    *)
THEOREM TimersAlwaysAddUp == TimeSpec => [](TimeTypeOK /\ TimesAddUp)
<1>1. TimeSpec => []TimeInv
  BY TimeInitially, TimeStep, PTL DEF TimeSpec
<1> QED BY <1>1, TimeInvSuffices, PTL
==============================================================================
