---------------------------- MODULE PayrollPayout ----------------------------
(***************************************************************************)
(* Payroll runs that turn salaries and payable commissions into payouts,   *)
(* and the relay that has the gateway pay them.  The scheduled run and the *)
(* relay work under distributed locks, a run started by a request under    *)
(* none.  Each database transaction is one action and every other step of  *)
(* a run or a relay may interleave with those of others.                   *)
(***************************************************************************)
EXTENDS Integers, FiniteSets, Functions, DistributedLock

CONSTANTS
    Employees,    \* the profiles that may exist
    IdOf,         \* profile -> its id
    Periods,      \* months
    Salary,       \* employee -> base salary
    NoAccount,    \* employees without a bank account
    Runs, Relays, \* the jobs of Jobs that run payroll, those that relay
    Scheduled,    \* the runs the cron starts
    RunLock, RelayLock,
    PageSize,     \* PAYROLL_BATCH_SIZE
    Earnings,     \* bound on a wallet's commissions, for model checking
    MaxFaults     \* bound on faults, for model checking

ASSUME PayrollAssumption ==
    /\ Runs \subseteq Jobs /\ Relays \subseteq Jobs /\ Runs \cap Relays = {} /\ Scheduled \subseteq Runs
    /\ {RunLock, RelayLock} \subseteq Resources
    /\ Salary \in [Employees -> Nat] /\ Earnings \in Nat /\ MaxFaults \in Nat
    /\ PageSize \in Nat \ {0}
    /\ NoAccount \subseteq Employees
    /\ IsFiniteSet(Employees) /\ IsFiniteSet(Periods)
    /\ IdOf \in [Employees -> Nat] /\ \A d, e \in Employees : IdOf[d] = IdOf[e] => d = e

VARIABLES
    staff,    \* the profiles that exist
    payable,  \* employee -> payableBalance
    earned,   \* employee -> commissions that ever became payable
    payout,   \* employee -> period -> the payouts row of that key
    expense,  \* employee -> period -> PAYROLL transactions of that payout
    bank,     \* employee -> period -> transfers the gateway made for it
    run,      \* run -> how far it is
    relay,    \* relay -> the payouts it read and what the gateway said
    faults    \* crashes, database errors, lost answers and expired locks

payrollVars == <<staff, payable, earned, payout, expense, bank, run, relay, faults>>
allPayrollVars == <<lockVars, payrollVars>>
----------------------------------------------------------------------------
Keys == Employees \X Periods
Payout == [status : {"none", "PENDING", "COMPLETED", "FAILED"}, commission : Nat]
PayoutRow(status, commission) == [status |-> status, commission |-> commission]
NoPayout == PayoutRow("none", 0)

AnyPeriod == CHOOSE m \in Periods : TRUE
RunAt(step, period, pages, page, todo, checked, failed, start) ==
    [step |-> step, period |-> period, pages |-> pages, page |-> page, todo |-> todo,
     checked |-> checked, failed |-> failed, start |-> start]
Run == [step : {"idle", "load", "pay", "end"}, period : Periods \cup {AnyPeriod}, pages : Nat, page : Nat,
        todo : SUBSET Employees, checked : SUBSET Employees, failed : SUBSET Employees,
        start : SUBSET Employees]
NoRun == RunAt("idle", AnyPeriod, 0, 0, {}, {}, {}, {})

RelayAt(todo, paid, refused) == [todo |-> todo, paid |-> paid, refused |-> refused]
NoRelay == RelayAt({}, {}, {})

PayrollInit ==
    /\ LockInit
    /\ staff \in SUBSET Employees
    /\ payable = [e \in Employees |-> 0]
    /\ earned = [e \in Employees |-> 0]
    /\ payout = [k \in Keys |-> NoPayout]
    /\ expense = [k \in Keys |-> 0]
    /\ bank = [k \in Keys |-> 0]
    /\ run = [r \in Runs |-> NoRun]
    /\ relay = [q \in Relays |-> NoRelay]
    /\ faults = 0

NoFault == UNCHANGED faults
Fault == faults < MaxFaults /\ faults' = faults + 1
----------------------------------------------------------------------------
(* Commissions become payable when tasks are completed (TaskCommission). *)
Earn(e) ==
    /\ earned[e] < Earnings
    /\ earned' = [earned EXCEPT ![e] = @ + 1]
    /\ payable' = [payable EXCEPT ![e] = @ + 1]
    /\ UNCHANGED <<lockVars, staff, payout, expense, bank, run, relay, faults>>

(* The runs under way whose pages move when a profile is added or removed. *)
Unsettled(changed) ==
    run' = [r \in Runs |->
        IF run[r].step \in {"load", "pay"} THEN [run[r] EXCEPT !.start = changed] ELSE run[r]]

(* createProfile and deleteProfile.  A run under way owes nothing any more  *)
(* to the profiles it started with: the pages it has yet to read may move.  *)
ChangeStaff(e) ==
    /\ staff' = IF e \in staff THEN staff \ {e} ELSE staff \cup {e}
    /\ Unsettled({})
    /\ UNCHANGED <<lockVars, payable, earned, payout, expense, bank, relay, faults>>

(* runPayroll counts the profiles once.  Without any it returns at once and *)
(* records nothing.                                                         *)
StartRun(r, m) ==
    /\ run[r].step = "idle"
    /\ IF r \in Scheduled THEN Acquire(r, RunLock) ELSE UNCHANGED lockVars
    /\ run' = [run EXCEPT ![r] =
          IF staff = {} THEN RunAt("end", m, 0, 0, {}, {}, {}, {})
          ELSE RunAt("load", m, (Cardinality(staff) + PageSize - 1) \div PageSize,
                     0, {}, {}, {}, staff)]
    /\ UNCHANGED <<staff, payable, earned, payout, expense, bank, relay, faults>>

(* The profiles of a page: ordered by id, skip and take. *)
Before(e) == {d \in staff : IdOf[d] < IdOf[e]}
PageOf(page) == {e \in staff : Cardinality(Before(e)) \div PageSize = page}

(* processPayrollBatch reads its page; after the last one the run is        *)
(* recorded, as COMPLETED unless a page failed.                             *)
LoadPage(r) ==
    /\ run[r].step = "load"
    /\ run' = [run EXCEPT ![r] =
          IF @.page = @.pages THEN RunAt("end", @.period, @.pages, @.page, {}, {}, @.failed, @.start)
          ELSE RunAt("pay", @.period, @.pages, @.page, PageOf(@.page), {}, @.failed, @.start)]
    /\ UNCHANGED <<lockVars, staff, payable, earned, payout, expense, bank, relay, faults>>

Rest(r, todo, checked, failed) ==
    run' = [run EXCEPT ![r] =
        RunAt("pay", @.period, @.pages, @.page, todo, checked, failed, @.start)]

(* The look at the idempotency key outside the transaction. *)
CheckKey(r, e) ==
    /\ run[r].step = "pay" /\ e \in run[r].todo
    /\ Rest(r, run[r].todo \ {e},
            IF payout[<<e, run[r].period>>].status = "none"
            THEN run[r].checked \cup {e} ELSE run[r].checked, run[r].failed)
    /\ UNCHANGED <<lockVars, staff, payable, earned, payout, expense, bank, relay, faults>>

(* Mutation: the insert does not meet the unique key. *)
MayInsertAnyway(k) == TRUE

(* The unique index on the idempotency key. *)
MayInsert(k) == payout[k].status = "none"

(* resetPayableBalance, on the wallet the transaction has locked. *)
TakeCommission(e) == payable' = [payable EXCEPT ![e] = 0]

(* The employee's transaction: payout, expense and wallet together.  A      *)
(* total of zero, or a payout that another run inserted, skips it.          *)
PayEmployee(r, e) ==
    /\ run[r].step = "pay" /\ e \in run[r].checked
    /\ Rest(r, run[r].todo, run[r].checked \ {e}, run[r].failed)
    /\ LET k == <<e, run[r].period>>
       IN  IF Salary[e] + payable[e] > 0 /\ MayInsert(k)
           THEN /\ payout' = [payout EXCEPT ![k] = PayoutRow("PENDING", payable[e])]
                /\ expense' = [expense EXCEPT ![k] = @ + 1]
                /\ TakeCommission(e)
           ELSE UNCHANGED <<payout, expense, payable>>
    /\ UNCHANGED <<lockVars, staff, earned, bank, relay, faults>>

(* Any other error fails the page and leaves the other employees to it. *)
PayEmployeeFails(r, e) ==
    /\ run[r].step = "pay" /\ e \in run[r].checked
    /\ Fault
    /\ Rest(r, run[r].todo, run[r].checked \ {e}, run[r].failed \cup {e})
    /\ UNCHANGED <<lockVars, staff, payable, earned, payout, expense, bank, relay>>

(* Mutation: the run stops after a page that failed. *)
NextPageStops(r) ==
    IF run[r].failed # {} THEN run[r].pages ELSE run[r].page + 1

NextPage(r) == run[r].page + 1

FinishPage(r) ==
    /\ run[r].step = "pay" /\ run[r].todo = {} /\ run[r].checked = {}
    /\ run' = [run EXCEPT ![r] = RunAt("load", @.period, @.pages, NextPage(r),
                                       {}, {}, @.failed, @.start)]
    /\ UNCHANGED <<lockVars, staff, payable, earned, payout, expense, bank, relay, faults>>

EndRun(r) ==
    /\ run[r].step = "end"
    /\ IF r \in Scheduled THEN Release(r) ELSE UNCHANGED lockVars
    /\ run' = [run EXCEPT ![r] = NoRun]
    /\ UNCHANGED <<staff, payable, earned, payout, expense, bank, relay, faults>>

CrashRun(r) ==
    /\ run[r].step # "idle"
    /\ Fault
    /\ IF r \in Scheduled THEN Abandon(r) ELSE UNCHANGED lockVars
    /\ run' = [run EXCEPT ![r] = NoRun]
    /\ UNCHANGED <<staff, payable, earned, payout, expense, bank, relay>>
----------------------------------------------------------------------------
Pending == {k \in Keys : payout[k].status = "PENDING"}

(* processBatch reads the PENDING payouts; without any it leaves at once.   *)
StartRelay(q) ==
    /\ Acquire(q, RelayLock)
    /\ Pending # {}
    /\ relay' = [relay EXCEPT ![q] = RelayAt(Pending, {}, {})]
    /\ UNCHANGED <<staff, payable, earned, payout, expense, bank, run, faults>>

(* Mutation: the relay pays employees of whom it has no account. *)
HasAccountAnyway(k) == TRUE

HasAccount(k) == k[1] \notin NoAccount

(* The call of the gateway, which may refuse; without an account it is not  *)
(* called and the payout fails.                                             *)
Refuse(q, k) ==
    /\ k \in relay[q].todo
    /\ relay' = [relay EXCEPT ![q] = RelayAt(@.todo \ {k}, @.paid, @.refused \cup {k})]
    /\ UNCHANGED <<lockVars, staff, payable, earned, payout, expense, bank, run, faults>>

Pay(q, k) ==
    /\ k \in relay[q].todo /\ HasAccount(k)
    /\ bank' = [bank EXCEPT ![k] = @ + 1]
    /\ relay' = [relay EXCEPT ![q] = RelayAt(@.todo \ {k}, @.paid \cup {k}, @.refused)]
    /\ UNCHANGED <<lockVars, staff, payable, earned, payout, expense, run, faults>>

(* The gateway pays and its answer is lost: the payout stays as it is. *)
PayUnanswered(q, k) ==
    /\ k \in relay[q].todo /\ HasAccount(k)
    /\ Fault
    /\ bank' = [bank EXCEPT ![k] = @ + 1]
    /\ relay' = [relay EXCEPT ![q] = RelayAt(@.todo \ {k}, @.paid, @.refused)]
    /\ UNCHANGED <<lockVars, staff, payable, earned, payout, expense, run>>

(* Mutation: the payout keeps the status it had. *)
SettledNever(k, status) == UNCHANGED payout

Settled(k, status) == payout' = [payout EXCEPT ![k] = PayoutRow(status, @.commission)]
Done(q, k) == relay' = [relay EXCEPT ![q] = RelayAt(@.todo, @.paid \ {k}, @.refused \ {k})]

(* completePayout: it saves the copy the relay read, whatever the row says  *)
(* by now, and posts a second PAYROLL transaction.                          *)
CompletePayout(q, k) ==
    /\ k \in relay[q].paid
    /\ Settled(k, "COMPLETED")
    /\ expense' = [expense EXCEPT ![k] = @ + 1]
    /\ Done(q, k)
    /\ UNCHANGED <<lockVars, staff, payable, earned, bank, run, faults>>

(* refundPayableBalance, of the commission of the copy. *)
Refund(k) == payable' = [payable EXCEPT ![k[1]] = @ + payout[k].commission]

FailPayout(q, k) ==
    /\ k \in relay[q].refused
    /\ Settled(k, "FAILED")
    /\ Refund(k)
    /\ Done(q, k)
    /\ UNCHANGED <<lockVars, staff, earned, expense, bank, run, faults>>

(* The transaction of either fails: the payout is logged and left PENDING. *)
SettleFails(q, k) ==
    /\ k \in relay[q].paid \cup relay[q].refused
    /\ Fault
    /\ Done(q, k)
    /\ UNCHANGED <<lockVars, staff, payable, earned, payout, expense, bank, run>>

EndRelay(q) ==
    /\ relay[q] = NoRelay
    /\ Release(q)
    /\ UNCHANGED payrollVars

CrashRelay(q) ==
    /\ holding[q] = RelayLock
    /\ Fault
    /\ Abandon(q)
    /\ relay' = [relay EXCEPT ![q] = NoRelay]
    /\ UNCHANGED <<staff, payable, earned, payout, expense, bank, run>>

(* A key expires: a fault if its job is still at work. *)
LockExpires(r) ==
    /\ Expire(r)
    /\ IF Holders(r) = {} THEN NoFault ELSE Fault
    /\ UNCHANGED <<staff, payable, earned, payout, expense, bank, run, relay>>
----------------------------------------------------------------------------
RunStep(r) ==
    \/ LoadPage(r) \/ FinishPage(r) \/ EndRun(r)
    \/ \E e \in Employees : CheckKey(r, e) \/ PayEmployee(r, e)

RelayStep(q) ==
    \/ EndRelay(q)
    \/ \E k \in Keys : Refuse(q, k) \/ Pay(q, k) \/ CompletePayout(q, k) \/ FailPayout(q, k)

PayrollNext ==
    \/ \E e \in Employees : Earn(e) \/ ChangeStaff(e)
    \/ \E r \in Runs, m \in Periods : StartRun(r, m)
    \/ \E r \in Runs : RunStep(r) \/ CrashRun(r)
    \/ \E r \in Runs, e \in Employees : PayEmployeeFails(r, e)
    \/ \E q \in Relays : StartRelay(q) \/ RelayStep(q) \/ CrashRelay(q)
    \/ \E q \in Relays, k \in Keys : PayUnanswered(q, k) \/ SettleFails(q, k)
    \/ \E r \in {RunLock, RelayLock} : LockExpires(r)

(* The relay's cron ticks and its steps go on; a key left behind expires.   *)
PayrollFairness ==
    /\ WF_allPayrollVars(\E q \in Relays : StartRelay(q))
    /\ \A q \in Relays : WF_allPayrollVars(RelayStep(q))
    /\ WF_allPayrollVars(Holders(RelayLock) = {} /\ LockExpires(RelayLock))

PayrollSpec == PayrollInit /\ [][PayrollNext]_allPayrollVars /\ PayrollFairness
----------------------------------------------------------------------------
PayrollTypeOK ==
    /\ LockTypeOK
    /\ staff \subseteq Employees
    /\ payable \in [Employees -> Nat] /\ earned \in [Employees -> Nat]
    /\ payout \in [Keys -> Payout]
    /\ expense \in [Keys -> Nat] /\ bank \in [Keys -> Nat]
    /\ relay \in [Relays -> [todo : SUBSET Keys, paid : SUBSET Keys, refused : SUBSET Keys]]
    /\ run \in [Runs -> Run]
    /\ faults \in Nat

(* Every commission that became payable is in the wallet or in exactly one  *)
(* payout that has not failed, whatever runs, requests, crashes and         *)
(* database errors interleave; only a relay that overran its lock may       *)
(* refund twice.                                                            *)
CommissionConserved ==
    RelayLock \notin expired =>
        \A e \in Employees :
            earned[e] = payable[e] +
                SumFunctionOnSet([m \in Periods |-> payout[<<e, m>>].commission],
                      {m \in Periods : payout[<<e, m>>].status \in {"PENDING", "COMPLETED"}})

(* What the books say of a transfer is what the gateway did: a completed    *)
(* payout was paid, nobody without an account was, and one employee's month *)
(* is paid once at most and a failed payout not at all, as long as nothing  *)
(* crashed, failed or overran.                                              *)
PaidAsRecorded ==
    \A k \in Keys :
        /\ payout[k].status = "COMPLETED" => bank[k] > 0
        /\ bank[k] > 0 => k[1] \notin NoAccount /\ payout[k].status # "none"
        /\ faults = 0 => bank[k] <= 1 /\ (payout[k].status = "FAILED" => bank[k] = 0)

(* A run about to be recorded has a payout for everyone who was employed    *)
(* when it started and whose own transaction did not fail, of every page    *)
(* and whichever pages failed, if nobody was hired or removed meanwhile.    *)
NobodySkipped ==
    \A r \in Runs : \A e \in run[r].start \ run[r].failed :
        run[r].step = "end" /\ Salary[e] > 0
            => payout[<<e, run[r].period>>].status # "none"

(* Every payout is settled in the end, of the finitely many there can be: a *)
(* relay that crashed, lost an answer or met a database error leaves it to  *)
(* the next one, and no stale relay makes it pending again.                 *)
EveryPayoutSettles == <>[](Pending = {})

==============================================================================
