------------------------------ MODULE AuditChain ------------------------------
(***************************************************************************)
(* The audit trail of a tenant: each entry carries the hash of the entry   *)
(* before it and a number.  A request's entry is put into a queue and      *)
(* written by a worker, or written at once when the queue does not take it *)
(* (and the queue may have taken it all the same).  Writers take the       *)
(* tenant's advisory lock; the dead letter of a job that failed too often  *)
(* is written to the same table without it and without a number.  A hash   *)
(* is the position of its entry: no two entries share one.                 *)
(***************************************************************************)
EXTENDS Naturals, FiniteSets, Sequences

CONSTANTS Logs,          \* the entries the requests ask for
          AuditAttempts, \* attempts of a job of the audit queue
          VerifyTake,    \* entries verifyChainIntegrity looks at
          AuditPlots     \* [logs, queue, mixed: the logs whose values jsonb stores in another order, faults]

ASSUME AuditAssumption == {AuditAttempts, VerifyTake} \subseteq Nat \ {0}

Routes == {"job", "sync"}  \* a log may have two writers
Writers == Logs \X Routes
NoWriter == <<>>

VARIABLES auditRows,  \* the table, in the order of the commits: [seq, prev, log, dead]; seq 0 is NULL
          auditLock,  \* the writer that holds the advisory lock
          writerAt,   \* writer -> off, due, locked, read, done, failed, lost
          attemptsOf, \* writer -> attempts made
          lastLog,    \* writer -> the entry it read as the last one: [seq, prev]
          auditPlot,  \* the plot, and the faults left
          troubles    \* history: faults so far

auditVars == <<auditRows, auditLock, writerAt, attemptsOf, lastLog, auditPlot, troubles>>

NoEntry == [seq |-> 0, hash |-> 0]
AuditInit ==
  /\ auditPlot \in AuditPlots
  /\ auditRows = <<>>
  /\ auditLock = NoWriter
  /\ writerAt = [w \in Writers |-> "off"]
  /\ attemptsOf = [w \in Writers |-> 0]
  /\ lastLog = [w \in Writers |-> NoEntry]
  /\ troubles = 0

Trouble ==
  /\ auditPlot.faults > 0
  /\ auditPlot' = [logs |-> auditPlot.logs, queue |-> auditPlot.queue, mixed |-> auditPlot.mixed, faults |-> auditPlot.faults - 1]
  /\ troubles' = troubles + 1
Fine == UNCHANGED <<auditPlot, troubles>>
WriterGoes(w, at) == writerAt' = [writerAt EXCEPT ![w] = at]
----------------------------------------------------------------------------
Unlogged(l) == \A r \in Routes : writerAt[<<l, r>>] = "off"

(* The interceptor logs once the request has been answered.                *)
LogByQueue(l) ==
  /\ Unlogged(l)
  /\ auditPlot.queue
  /\ WriterGoes(<<l, "job">>, "due")
  /\ Fine
  /\ UNCHANGED <<auditRows, auditLock, attemptsOf, lastLog>>

LogWithoutQueue(l) ==
  /\ Unlogged(l)
  /\ ~auditPlot.queue
  /\ WriterGoes(<<l, "sync">>, "due")
  /\ Fine
  /\ UNCHANGED <<auditRows, auditLock, attemptsOf, lastLog>>

(* The add fails, whether or not the queue has taken the job.              *)
QueueAddFails(l) ==
  /\ Unlogged(l)
  /\ auditPlot.queue
  /\ Trouble
  /\ \E took \in BOOLEAN :
       writerAt' = [w \in Writers |-> IF w = <<l, "sync">> \/ (took /\ w = <<l, "job">>) THEN "due" ELSE writerAt[w]]
  /\ UNCHANGED <<auditRows, auditLock, attemptsOf, lastLog>>

(* The process stops after the answer and before the log.                  *)
RequestDies(l) ==
  /\ Unlogged(l)
  /\ Trouble
  /\ WriterGoes(<<l, "sync">>, "lost")
  /\ UNCHANGED <<auditRows, auditLock, attemptsOf, lastLog>>
----------------------------------------------------------------------------
(* The transaction of a writer: pg_advisory_xact_lock, the last entry, the *)
(* new one.                                                                *)

\* Mutation: the worker does not wait for the lock.
LockIsFreeToJobs(w) == auditLock = NoWriter \/ w[2] = "job"

LockIsFree(w) == auditLock = NoWriter

TakeLock(w) ==
  /\ writerAt[w] = "due"
  /\ LockIsFree(w)
  /\ auditLock' = w
  /\ WriterGoes(w, "locked")
  /\ Fine
  /\ UNCHANGED <<auditRows, attemptsOf, lastLog>>

\* ORDER BY sequence_number DESC: PostgreSQL puts NULL first.
Unnumbered == {i \in DOMAIN auditRows : auditRows[i].seq = 0}
IsLast(i) ==
  IF Unnumbered # {} THEN i \in Unnumbered
                     ELSE i \in DOMAIN auditRows /\ \A j \in DOMAIN auditRows : auditRows[j].seq <= auditRows[i].seq

ReadLast(w) ==
  /\ writerAt[w] = "locked"
  /\ \/ /\ auditRows = <<>>
        /\ lastLog' = [lastLog EXCEPT ![w] = NoEntry]
     \/ \E i \in DOMAIN auditRows :
          /\ IsLast(i)
          /\ lastLog' = [lastLog EXCEPT ![w] = [seq |-> auditRows[i].seq, hash |-> i]]
  /\ WriterGoes(w, "read")
  /\ Fine
  /\ UNCHANGED <<auditRows, auditLock, attemptsOf>>

Entry(w) == [seq |-> lastLog[w].seq + 1, prev |-> lastLog[w].hash, log |-> w[1], dead |-> FALSE]

WriteEntry(w) ==
  /\ writerAt[w] = "read"
  /\ auditRows' = Append(auditRows, Entry(w))
  /\ auditLock' = NoWriter
  /\ WriterGoes(w, "done")
  /\ Fine
  /\ UNCHANGED <<attemptsOf, lastLog>>

\* Mutation: off by one, a job gets an attempt more.
AfterTroubleOnceMore(w) ==
  IF w[2] = "sync" THEN "lost" ELSE IF attemptsOf[w] < AuditAttempts THEN "due" ELSE "failed"

\* After a failure a job is due again until its attempts are used up, a request's own write is lost.
AfterTrouble(w) ==
  IF w[2] = "sync" THEN "lost" ELSE IF attemptsOf[w] + 1 < AuditAttempts THEN "due" ELSE "failed"

Releases(w) == auditLock' = (IF auditLock = w THEN NoWriter ELSE auditLock)

TransactionFails(w) ==
  /\ writerAt[w] \in {"due", "locked", "read"}
  /\ Trouble
  /\ Releases(w)
  /\ WriterGoes(w, AfterTrouble(w))
  /\ attemptsOf' = [attemptsOf EXCEPT ![w] = @ + 1]
  /\ UNCHANGED <<auditRows, lastLog>>

\* The commit is done, its answer or the worker is lost: the job is run again.
CommitUnanswered(w) ==
  /\ writerAt[w] = "read"
  /\ Trouble
  /\ auditRows' = Append(auditRows, Entry(w))
  /\ auditLock' = NoWriter
  /\ WriterGoes(w, AfterTrouble(w))
  /\ attemptsOf' = [attemptsOf EXCEPT ![w] = @ + 1]
  /\ UNCHANGED lastLog

(* onFailed.                                                               *)
StoreDeadLetter(w) ==
  /\ writerAt[w] = "failed"
  /\ auditRows' = Append(auditRows, [seq |-> 0, prev |-> 0, log |-> w[1], dead |-> TRUE])
  /\ WriterGoes(w, "done")
  /\ Fine
  /\ UNCHANGED <<auditLock, attemptsOf, lastLog>>

DeadLetterFails(w) ==
  /\ writerAt[w] = "failed"
  /\ Trouble
  /\ WriterGoes(w, "lost")
  /\ UNCHANGED <<auditRows, auditLock, attemptsOf, lastLog>>

AuditNext ==
  \/ \E l \in auditPlot.logs : LogByQueue(l) \/ LogWithoutQueue(l) \/ QueueAddFails(l) \/ RequestDies(l)
  \/ \E w \in Writers : \/ TakeLock(w) \/ ReadLast(w) \/ WriteEntry(w)
                        \/ TransactionFails(w) \/ CommitUnanswered(w)
                        \/ StoreDeadLetter(w) \/ DeadLetterFails(w)

AuditSpec == AuditInit /\ [][AuditNext]_auditVars
----------------------------------------------------------------------------
(* verifyChainIntegrity: the entries with a number, in their order (those   *)
(* with the same number in the order they were written).                    *)
Numbered == {i \in DOMAIN auditRows : auditRows[i].seq # 0}
NumberedBefore(i) == {j \in Numbered : auditRows[j].seq < auditRows[i].seq \/ (auditRows[j].seq = auditRows[i].seq /\ j < i)}
Follows(i) ==
  IF NumberedBefore(i) = {} THEN auditRows[i].prev = 0
  ELSE auditRows[i].prev \in NumberedBefore(i) /\ NumberedBefore(i) \subseteq NumberedBefore(auditRows[i].prev) \cup {auditRows[i].prev}
Checked == {i \in Numbered : Cardinality(NumberedBefore(i)) < VerifyTake}
\* The hash was made from the values as they came; jsonb gives them back in its own order.
HashMatches(i) == auditRows[i].log \notin auditPlot.mixed
Verified == \A i \in Checked : Follows(i) /\ HashMatches(i)

AuditTypeOK ==
  /\ auditRows \in Seq([seq : Nat, prev : Nat, log : Logs, dead : BOOLEAN])
  /\ auditLock \in Writers \cup {NoWriter}
  /\ writerAt \in [Writers -> {"off", "due", "locked", "read", "done", "failed", "lost"}]
  /\ attemptsOf \in [Writers -> 0..AuditAttempts]
  /\ lastLog \in [Writers -> [seq : Nat, hash : Nat]]
  /\ troubles \in Nat

NoDeadLetter == \A i \in DOMAIN auditRows : ~auditRows[i].dead

(* As long as no dead letter was stored, every entry has the number of its *)
(* place and the hash of the entry before it, whatever workers and         *)
(* requests write beside one another.                                      *)
ChainUnbroken ==
  NoDeadLetter => \A i \in DOMAIN auditRows : auditRows[i].seq = i /\ auditRows[i].prev = i - 1

(* Then verifyChainIntegrity finds nothing but entries whose values jsonb  *)
(* reordered.                                                              *)
VerifiesUnlessReordered ==
  NoDeadLetter /\ (\A i \in Checked : HashMatches(i)) => Verified

AuditChainHolds == ChainUnbroken /\ VerifiesUnlessReordered

(* Each log has an entry, or trouble on its way, and every entry but its   *)
(* first had trouble, too.                                                 *)
TrailHolds ==
  \A l \in Logs :
    /\ (\E r \in Routes : writerAt[<<l, r>>] # "off") /\ (\A r \in Routes : writerAt[<<l, r>>] \in {"off", "done", "lost"}) =>
         troubles > 0 \/ \E i \in DOMAIN auditRows : auditRows[i].log = l
    /\ Cardinality({i \in DOMAIN auditRows : auditRows[i].log = l}) <= 1 + troubles

(* "they are not part of the chain": no entry follows a dead letter.       *)
DeadLettersStayOut ==
  \A i \in DOMAIN auditRows : auditRows[i].prev # 0 => ~auditRows[auditRows[i].prev].dead
==============================================================================
