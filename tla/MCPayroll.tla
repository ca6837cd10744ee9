------------------------------ MODULE MCPayroll ------------------------------
(* One run over seven instances, chosen at the start: "runs", a scheduled  *)
(* and a requested run for two employees, or for the first alone, whose     *)
(* profile comes and goes; "months", two relays and two months of one       *)
(* employee with one fault; "faults", one month with three; "refused", an   *)
(* employee without a bank account; "watch" and "queue", the jobs that look *)
(* for payouts left behind, over one month with a fault and over two        *)
(* without; "recurring", the recurring transactions.                        *)
EXTENDS PayoutWatch, RecurringTransactions, TLC

CONSTANTS e1, e2, r1, r2, q1, q2, m1, t1, t2, n1, n2
VARIABLE part

ByName == e1 :> 1 @@ e2 :> 2
OnlySecondSalaried == e1 :> 0 @@ e2 :> 1
OnlyTwo == [i \in Items |-> 2]

(* The jobs of the three modules are different, and so are their locks. *)
ASSUME ApartAssumption ==
    /\ Ticks \cap (Runs \cup Relays \cup Watchers) = {}
    /\ RecurringLock \notin {RunLock, RelayLock, NightlyLock, MonitorLock}

(* Those that the instances name take part. *)
ASSUME MembersAssumption ==
    {e1, e2} \subseteq Employees /\ {r1, r2} \subseteq Runs
    /\ {q1, q2} \subseteq Relays /\ m1 \in Periods

PartVars == <<lockVars, payrollVars, watchVars, recurringVars, part>>

RunsOf(someRuns, someEmployees, months, mayFail) ==
    \/ \E e \in someEmployees : Earn(e)
    \/ \E r \in someRuns : \/ \E m \in months : StartRun(r, m)
                           \/ RunStep(r)
                           \/ mayFail /\ CrashRun(r)
                           \/ mayFail /\ \E e \in someEmployees : PayEmployeeFails(r, e)

(* The relays are alike, and the nightly ticks: the second one starts only  *)
(* beside the first.                                                        *)
RelaysOf(someRelays) ==
    \/ \E q \in someRelays : (q = q1 \/ holding[q1] # Nothing) /\ StartRelay(q)
    \/ \E q \in someRelays : RelayStep(q) \/ CrashRelay(q)
    \/ \E q \in someRelays, k \in Keys : PayUnanswered(q, k) \/ SettleFails(q, k)

PayrollParts ==
    \/ /\ part = "runs"
       /\ \/ RunsOf(Runs, Employees, {m1}, faults = 0)
          \/ ChangeStaff(e1)
          \/ faults = 0 /\ LockExpires(RunLock)
    \/ /\ part \in {"months", "faults"}
       /\ \/ RunsOf({r2}, {e2}, IF part = "months" THEN Periods ELSE {m1}, FALSE)
          \/ RelaysOf(Relays)
          \/ LockExpires(RelayLock)
       /\ part = "months" => faults' <= 1
    \/ /\ part = "refused"
       /\ RunsOf({r2}, {e1}, Periods, FALSE) \/ RelaysOf({q1}) \/ LockExpires(RelayLock)

(* A run only makes payouts: it is over before the jobs that watch start.   *)
Quiet == \A w \in Watchers : holding[w] = Nothing
RunOnce(m) == Quiet /\ payout[<<e2, m>>].status = "none" /\ StartRun(r2, m)

WatchParts ==
    \/ /\ part = "watch"
       /\ \/ UNCHANGED watchVars /\ (RunOnce(m1) \/ RunStep(r2) \/ RelaysOf({q1}) \/ LockExpires(RelayLock))
          \/ run[r2].step = "idle" /\ WatchNext
       /\ faults' <= 1
    \/ /\ part = "queue"
       /\ \/ /\ (\E m \in Periods : RunOnce(m)) \/ RunStep(r2) \/ RelaysOf({q1})
             /\ UNCHANGED watchVars
          \/ run[r2].step = "idle" /\ ((\E w \in Watchers : WatchStep(w)) \/ \E k \in Keys : TimePasses(k))
       /\ faults' = 0 /\ (holding'[n1] = Nothing \/ holding'[n2] = Nothing)

PartInit ==
    /\ PayrollInit /\ WatchInit /\ RecurringInit
    /\ \/ part = "runs" /\ staff \in {Employees, {e1}}
       \/ part \in {"months", "faults", "watch", "queue"} /\ staff = {e2}
       \/ part = "refused" /\ staff = {e1}
       \/ part = "recurring" /\ staff = {}

PartNext ==
    /\ part' = part
    /\ \/ PayrollParts /\ UNCHANGED <<watchVars, recurringVars>>
       \/ WatchParts /\ UNCHANGED recurringVars
       \/ /\ part = "recurring" /\ RecurringNext /\ UNCHANGED <<payrollVars, watchVars>>
          /\ holding[t2] = Nothing /\ holding'[t2] # Nothing => holding[t1] # Nothing
          /\ slip.kinds \cap {"crash", "overrun", "staleEdit"} = {} \* nothing is claimed after these

PartSpec == PartInit /\ [][PartNext]_PartVars /\ PayrollFairness

(* The types of the four modules. *)
PartsTypeOK == PayrollTypeOK /\ WatchTypeOK /\ RecurringTypeOK

(* The recurring job posts each date once, and the jobs that watch payouts  *)
(* raise no alarm without a cause and leave out no transfer they could see. *)
NightlyJobsHold == RecurringPostedOnce /\ AlarmsAreReal /\ LostTransfersReported
==============================================================================
