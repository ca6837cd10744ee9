----------------------------- MODULE PayrollProofs -----------------------------
(***************************************************************************)
(* HoldersExclude, PaidAsRecorded, CommissionConserved, NobodySkipped and  *)
(* the types of the payroll, for any number of runs, relays, employees,    *)
(* months and locks. Of the lock only its own four steps matter: each is   *)
(* shown to preserve the invariant whatever the payroll does with it. Of   *)
(* the transfers only the steps of a relay matter, and the transaction     *)
(* that makes a payout; while nothing failed the lock leaves one relay at  *)
(* most with payouts in hand. A commission is followed from the wallet to  *)
(* its payout and back, one month of the sum at a time. A run's pages are  *)
(* followed by how many of the sorted ids they cover.                      *)
(* Then NightlyJobsHold and PartsTypeOK for any number of payroll runs,    *)
(* relays, jobs that watch payouts, recurring transactions, ticks and      *)
(* edits, all of them at once: the instances MCPayroll chooses from are    *)
(* parts of it.                                                            *)
(***************************************************************************)
EXTENDS MCPayroll, SumFacts

LockInv == LockTypeOK /\ HoldersExclude

(* A job enters only over a key that is not set: no holder of it is displaced. *)
LEMMA AcquireStep ==
  ASSUME LockInv, NEW j \in Jobs, NEW r \in Resources, Acquire(j, r)
  PROVE  LockInv'
<1> USE JobsAssumption
<1>1. LockTypeOK'
  BY DEF LockInv, LockTypeOK, Acquire
<1>2. HoldersExclude'
  <2> SUFFICES ASSUME NEW i \in Jobs, holding'[i] # Nothing, i \notin overrun'
               PROVE  lock'[holding'[i]] = i
    BY DEF HoldersExclude
  <2>1. CASE i = j
    BY <2>1 DEF LockInv, LockTypeOK, Acquire
  <2>2. CASE i # j
    <3>1. holding'[i] = holding[i] /\ i \notin overrun /\ holding[i] \in Resources
      BY <2>2 DEF LockInv, LockTypeOK, Acquire
    <3>2. lock[holding[i]] = i
      BY <3>1 DEF LockInv, HoldersExclude
    <3>3. holding[i] # r
      BY <3>2 DEF Acquire
    <3> QED BY <3>1, <3>2, <3>3 DEF LockInv, LockTypeOK, Acquire
  <2> QED BY <2>1, <2>2
<1> QED BY <1>1, <1>2 DEF LockInv

(* release deletes the key only if it holds the token of the job that leaves. *)
LEMMA ReleaseStep ==
  ASSUME LockInv, NEW j \in Jobs, Release(j)
  PROVE  LockInv'
<1> USE JobsAssumption
<1>1. holding[j] \in Resources
  BY DEF LockInv, LockTypeOK, Release
<1>2. LockTypeOK'
  BY <1>1 DEF LockInv, LockTypeOK, Release, Released
<1>3. HoldersExclude'
  <2> SUFFICES ASSUME NEW i \in Jobs, holding'[i] # Nothing, i \notin overrun'
               PROVE  lock'[holding'[i]] = i
    BY DEF HoldersExclude
  <2>1. i # j /\ holding'[i] = holding[i] /\ i \notin overrun /\ holding[i] \in Resources
    BY DEF LockInv, LockTypeOK, Release
  <2>2. lock[holding[i]] = i
    BY <2>1 DEF LockInv, HoldersExclude
  <2>3. ASSUME lock' = lock PROVE lock'[holding'[i]] = i
    BY <2>1, <2>2, <2>3
  <2>4. ASSUME lock' = Released(j, holding[j]) PROVE lock'[holding'[i]] = i
    BY <1>1, <2>1, <2>2, <2>4 DEF Released, LockInv, LockTypeOK
  <2> QED BY <2>3, <2>4 DEF Release
<1> QED BY <1>2, <1>3 DEF LockInv

(* A process that ends without release leaves the key to expire. *)
LEMMA AbandonStep ==
  ASSUME LockInv, NEW j \in Jobs, Abandon(j)
  PROVE  LockInv'
<1>1. LockTypeOK'
  BY DEF LockInv, LockTypeOK, Abandon
<1>2. HoldersExclude'
  BY DEF LockInv, LockTypeOK, HoldersExclude, Abandon
<1> QED BY <1>1, <1>2 DEF LockInv

(* Whoever holds the key when it expires is overrun from then on. *)
LEMMA ExpireStep ==
  ASSUME LockInv, NEW r \in Resources, Expire(r)
  PROVE  LockInv'
<1> USE JobsAssumption
<1>1. LockTypeOK'
  BY DEF LockInv, LockTypeOK, Expire, Holders
<1>2. HoldersExclude'
  <2> SUFFICES ASSUME NEW i \in Jobs, holding'[i] # Nothing, i \notin overrun'
               PROVE  lock'[holding'[i]] = i
    BY DEF HoldersExclude
  <2>1. holding[i] # Nothing /\ i \notin overrun /\ i \notin Holders(r) /\ holding[i] \in Resources
    BY DEF LockInv, LockTypeOK, Expire
  <2>2. lock[holding[i]] = i
    BY <2>1 DEF LockInv, HoldersExclude
  <2>3. holding[i] # r
    BY <2>1, <2>2 DEF Holders
  <2> QED BY <2>1, <2>2, <2>3 DEF LockInv, LockTypeOK, Expire
<1> QED BY <1>1, <1>2 DEF LockInv
----------------------------------------------------------------------------
(* What a step of the payroll may do to the lock. *)
LockStep ==
  \/ \E j \in Jobs, r \in Resources : Acquire(j, r)
  \/ \E j \in Jobs : Release(j) \/ Abandon(j)
  \/ \E r \in Resources : Expire(r)
  \/ UNCHANGED lockVars

(* The invariant survives every step that treats the lock as LockStep does. *)
LEMMA LockStepKeepsInv == LockInv /\ LockStep => LockInv'
<1> SUFFICES ASSUME LockInv, LockStep PROVE LockInv'
  OBVIOUS
<1>1. ASSUME NEW j \in Jobs, NEW r \in Resources, Acquire(j, r) PROVE LockInv'
  BY <1>1, AcquireStep
<1>2. ASSUME NEW j \in Jobs, Release(j) PROVE LockInv'
  BY <1>2, ReleaseStep
<1>3. ASSUME NEW j \in Jobs, Abandon(j) PROVE LockInv'
  BY <1>3, AbandonStep
<1>4. ASSUME NEW r \in Resources, Expire(r) PROVE LockInv'
  BY <1>4, ExpireStep
<1>5. ASSUME UNCHANGED lockVars PROVE LockInv'
  BY <1>5 DEF lockVars, LockInv, LockTypeOK, HoldersExclude
<1> QED BY <1>1, <1>2, <1>3, <1>4, <1>5 DEF LockStep

(* Runs and relays touch the lock only through withLock: unscheduled runs   *)
(* never, scheduled runs and relays when they start, end, crash or overrun. *)
LEMMA RunUsesLock ==
  ASSUME NEW r \in Runs, RunStep(r) \/ CrashRun(r)
  PROVE  LockStep
<1> USE PayrollAssumption
<1>1. ASSUME LoadPage(r) \/ FinishPage(r) PROVE LockStep
  BY <1>1 DEF LoadPage, FinishPage, LockStep, lockVars
<1>2. ASSUME NEW e \in Employees, CheckKey(r, e) \/ PayEmployee(r, e) PROVE LockStep
  BY <1>2 DEF CheckKey, PayEmployee, LockStep, lockVars
<1>3. ASSUME EndRun(r) PROVE LockStep
  BY <1>3 DEF EndRun, LockStep, lockVars
<1>4. ASSUME CrashRun(r) PROVE LockStep
  BY <1>4 DEF CrashRun, LockStep, lockVars
<1> QED BY <1>1, <1>2, <1>3, <1>4 DEF RunStep

(* The steps of a relay treat the lock as LockStep does. *)
LEMMA RelayUsesLock ==
  ASSUME NEW q \in Relays, StartRelay(q) \/ RelayStep(q) \/ CrashRelay(q)
  PROVE  LockStep
<1> USE PayrollAssumption
<1>1. ASSUME StartRelay(q) PROVE LockStep
  BY <1>1 DEF StartRelay, LockStep
<1>2. ASSUME EndRelay(q) PROVE LockStep
  BY <1>2 DEF EndRelay, LockStep
<1>3. ASSUME CrashRelay(q) PROVE LockStep
  BY <1>3 DEF CrashRelay, LockStep
<1>4. ASSUME NEW k \in Keys, Refuse(q, k) \/ Pay(q, k) \/ CompletePayout(q, k) \/ FailPayout(q, k)
      PROVE  LockStep
  BY <1>4 DEF Refuse, Pay, CompletePayout, FailPayout, LockStep, lockVars
<1> QED BY <1>1, <1>2, <1>3, <1>4 DEF RelayStep

(* So does every step of the system, stuttering included. *)
LEMMA PayrollUsesLock == [PayrollNext]_allPayrollVars => LockStep
<1> SUFFICES ASSUME [PayrollNext]_allPayrollVars PROVE LockStep
  OBVIOUS
<1> USE PayrollAssumption
<1>1. ASSUME NEW e \in Employees, Earn(e) \/ ChangeStaff(e) PROVE LockStep
  BY <1>1 DEF Earn, ChangeStaff, LockStep, lockVars
<1>2. ASSUME NEW r \in Runs, NEW m \in Periods, StartRun(r, m) PROVE LockStep
  BY <1>2 DEF StartRun, LockStep, lockVars
<1>3. ASSUME NEW r \in Runs, RunStep(r) \/ CrashRun(r) PROVE LockStep
  BY <1>3, RunUsesLock
<1>4. ASSUME NEW r \in Runs, NEW e \in Employees, PayEmployeeFails(r, e) PROVE LockStep
  BY <1>4 DEF PayEmployeeFails, LockStep, lockVars
<1>5. ASSUME NEW q \in Relays, StartRelay(q) \/ RelayStep(q) \/ CrashRelay(q) PROVE LockStep
  BY <1>5, RelayUsesLock
<1>6. ASSUME NEW q \in Relays, NEW k \in Keys, PayUnanswered(q, k) \/ SettleFails(q, k) PROVE LockStep
  BY <1>6 DEF PayUnanswered, SettleFails, LockStep, lockVars
<1>7. ASSUME NEW r \in Resources, LockExpires(r) PROVE LockStep
  BY <1>7 DEF LockExpires, LockStep
<1>8. ASSUME UNCHANGED allPayrollVars PROVE LockStep
  BY <1>8 DEF allPayrollVars, LockStep, lockVars
<1> QED BY PayrollAssumption, <1>1, <1>2, <1>3, <1>4, <1>5, <1>6, <1>7, <1>8 DEF PayrollNext
----------------------------------------------------------------------------
(* Whatever payroll runs, relays, crashes and expiries interleave, a job    *)
(* that has not outlived its key still holds it: two relays, or two         *)
(* scheduled runs, are inside together only after one of them has overrun.  *)
THEOREM LocksExclude == PayrollSpec => []HoldersExclude
<1>1. PayrollInit => LockInv
  BY JobsAssumption DEF PayrollInit, LockInit, LockInv, LockTypeOK, HoldersExclude
<1>2. LockInv /\ [PayrollNext]_allPayrollVars => LockInv'
  BY PayrollUsesLock, LockStepKeepsInv
<1>3. LockInv => HoldersExclude
  BY DEF LockInv
<1> QED BY <1>1, <1>2, <1>3, PTL DEF PayrollSpec

----------------------------------------------------------------------------
PayTyped ==
  /\ payable \in [Employees -> Nat]
  /\ payout \in [Keys -> Payout]
  /\ bank \in [Keys -> Nat]
  /\ relay \in [Relays -> [todo : SUBSET Keys, paid : SUBSET Keys, refused : SUBSET Keys]]
  /\ faults \in Nat

InHand(q) == relay[q].todo \cup relay[q].paid \cup relay[q].refused

(* A relay with payouts in hand is inside the lock, and its payouts exist.  *)
RelaysHold ==
  \A q \in Relays : /\ relay[q] # NoRelay => holding[q] = RelayLock
                    /\ \A k \in InHand(q) : payout[k].status # "none"
                    /\ \A k \in relay[q].paid : bank[k] > 0

(* What is true of the books whatever failed. *)
BooksFit ==
  \A k \in Keys : /\ payout[k].status = "COMPLETED" => bank[k] > 0
                  /\ bank[k] > 0 => HasAccount(k) /\ payout[k].status # "none"

(* While nothing failed, a payout in hand is PENDING and was paid exactly   *)
(* when the relay says so, and a PENDING payout that was paid is in hand.   *)
CleanBooks ==
  faults = 0 =>
    /\ overrun \cap Relays = {}
    /\ \A k \in Keys : bank[k] <= 1 /\ (payout[k].status = "FAILED" => bank[k] = 0)
    /\ \A q \in Relays :
         /\ \A k \in InHand(q) : payout[k].status = "PENDING"
         /\ \A k \in relay[q].todo \cup relay[q].refused : bank[k] = 0
         /\ relay[q].todo \cap relay[q].refused = {}
    /\ \A k \in Keys : payout[k].status = "PENDING" /\ bank[k] > 0 => \E q \in Relays : k \in relay[q].paid

PaidInv == LockInv /\ PayTyped /\ RelaysHold /\ BooksFit /\ CleanBooks
----------------------------------------------------------------------------
(* What the invariant is for. *)
LEMMA PaidInvSuffices == PaidInv => PaidAsRecorded
BY DEF PaidInv, BooksFit, CleanBooks, PaidAsRecorded, HasAccount

(* Nothing is paid at the start. *)
LEMMA PaidInitially == PayrollInit => PaidInv
<1> SUFFICES ASSUME PayrollInit PROVE PaidInv
  OBVIOUS
<1>1. LockInv
  BY JobsAssumption DEF PayrollInit, LockInit, LockInv, LockTypeOK, HoldersExclude
<1>2. PayTyped
  BY DEF PayrollInit, PayTyped, NoPayout, PayoutRow, Payout, NoRelay, RelayAt
<1>3. \A q \in Relays : relay[q] = NoRelay /\ InHand(q) = {}
  BY DEF PayrollInit, NoRelay, RelayAt, InHand
<1>4. \A k \in Keys : payout[k].status = "none" /\ bank[k] = 0
  BY DEF PayrollInit, NoPayout, PayoutRow
<1>5. RelaysHold /\ BooksFit
  BY <1>3, <1>4 DEF RelaysHold, BooksFit, InHand
<1>6. CleanBooks
  BY <1>3, <1>4 DEF CleanBooks, InHand, PayrollInit, LockInit
<1> QED BY <1>1, <1>2, <1>5, <1>6 DEF PaidInv

(* While nothing failed one relay at most has anything in hand, for it      *)
(* holds the key; nobody has while the key is free.                         *)
LEMMA OneRelay ==
  ASSUME PaidInv, faults = 0, NEW p \in Relays, relay[p] # NoRelay
  PROVE  lock[RelayLock] = p
<1>1. holding[p] = RelayLock /\ p \in Jobs /\ RelayLock \in Resources
  BY PayrollAssumption DEF PaidInv, RelaysHold
<1>2. p \notin overrun /\ holding[p] # Nothing
  BY <1>1, JobsAssumption DEF PaidInv, CleanBooks
<1> QED BY <1>1, <1>2 DEF PaidInv, LockInv, HoldersExclude

LEMMA InHandMeansRelay ==
  ASSUME NEW q \in Relays, InHand(q) # {}
  PROVE  relay[q] # NoRelay
BY DEF InHand, NoRelay, RelayAt

LEMMA OthersIdle ==
  ASSUME PaidInv, faults = 0, NEW q \in Relays, InHand(q) # {}, NEW p \in Relays \ {q}
  PROVE  relay[p] = NoRelay /\ InHand(p) = {} /\ relay[p].paid = {}
<1>1. relay[p] = NoRelay
  BY OneRelay, InHandMeansRelay
<1> QED BY <1>1 DEF NoRelay, RelayAt, InHand

(* A step that leaves payouts, bank and relays alone and overruns nobody    *)
(* without a fault.                                                         *)
LEMMA BesideTheBooks ==
  ASSUME PaidInv, LockInv', UNCHANGED <<payout, bank, relay>>,
         payable' \in [Employees -> Nat], faults' \in Nat, faults' >= faults,
         \A q \in Relays : relay[q] # NoRelay => holding'[q] = holding[q],
         faults' = 0 => overrun' \cap Relays \subseteq overrun
  PROVE  PaidInv'
<1>1. PayTyped' /\ BooksFit'
  BY DEF PaidInv, PayTyped, BooksFit, HasAccount
<1>2. RelaysHold'
  BY DEF PaidInv, RelaysHold, InHand
<1>3. faults' = 0 => faults = 0
  BY DEF PaidInv, PayTyped
<1>4. CleanBooks'
  BY <1>3 DEF PaidInv, CleanBooks, InHand
<1> QED BY <1>1, <1>2, <1>4 DEF PaidInv

(* The lock is left alone, or r acquires, releases or abandons it. *)
RunLocks(r) == Release(r) \/ Abandon(r) \/ Acquire(r, RunLock) \/ UNCHANGED lockVars

(* The steps of runs and of the lock are beside the books, but for the      *)
(* transaction that makes a payout.                                         *)
LEMMA RunStepKeepsBooks ==
  ASSUME PaidInv, LockInv', NEW r \in Runs,
         \/ LoadPage(r) \/ FinishPage(r) \/ EndRun(r) \/ CrashRun(r)
         \/ \E m \in Periods : StartRun(r, m)
         \/ \E e \in Employees : CheckKey(r, e) \/ PayEmployeeFails(r, e)
  PROVE  PaidInv'
<1>1. r \in Jobs /\ r \notin Relays
  BY PayrollAssumption
<1>2. /\ UNCHANGED <<payout, bank, relay, payable>>
      /\ faults' = faults \/ faults' = faults + 1
  BY DEF LoadPage, FinishPage, EndRun, CrashRun, StartRun, CheckKey, PayEmployeeFails, Fault
<1>3. RunLocks(r)
  BY DEF RunLocks, LoadPage, FinishPage, EndRun, CrashRun, StartRun, CheckKey, PayEmployeeFails, lockVars
<1>4. overrun' \subseteq overrun /\ \A q \in Relays : holding'[q] = holding[q]
  BY <1>1, <1>3, PayrollAssumption DEF RunLocks, Acquire, Release, Abandon, lockVars,
                                       PaidInv, LockInv, LockTypeOK
<1>5. payable' \in [Employees -> Nat] /\ faults' \in Nat /\ faults' >= faults
  BY <1>2 DEF PaidInv, PayTyped
<1> QED BY <1>2, <1>4, <1>5, BesideTheBooks

LEMMA OtherStepKeepsBooks ==
  ASSUME PaidInv, LockInv',
         \/ \E e \in Employees : Earn(e) \/ ChangeStaff(e)
         \/ \E r \in Resources : LockExpires(r)
         \/ \E q \in Relays : EndRelay(q)
         \/ UNCHANGED allPayrollVars
  PROVE  PaidInv'
<1>1. ASSUME NEW e \in Employees, Earn(e) PROVE PaidInv'
  <2>1. payable' \in [Employees -> Nat]
    BY <1>1 DEF Earn, PaidInv, PayTyped
  <2> QED BY <1>1, <2>1, BesideTheBooks DEF Earn, lockVars, PaidInv, PayTyped
<1>2. ASSUME NEW e \in Employees, ChangeStaff(e) PROVE PaidInv'
  BY <1>2, BesideTheBooks DEF ChangeStaff, lockVars, PaidInv, PayTyped
<1>3. ASSUME NEW r \in Resources, LockExpires(r) PROVE PaidInv'
  <2>1. /\ UNCHANGED <<payout, bank, relay, payable, holding>>
        /\ faults' = faults \/ faults' = faults + 1
        /\ faults' = faults => overrun' = overrun
    BY <1>3 DEF LockExpires, Expire, NoFault, Fault, PaidInv, PayTyped
  <2> QED BY <2>1, BesideTheBooks DEF PaidInv, PayTyped
<1>4. ASSUME NEW q \in Relays, EndRelay(q) PROVE PaidInv'
  <2>1. relay[q] = NoRelay /\ UNCHANGED <<payout, bank, relay, payable, faults>>
    BY <1>4 DEF EndRelay, payrollVars
  <2>2. /\ overrun' \subseteq overrun
        /\ \A p \in Relays : p # q => holding'[p] = holding[p]
    BY <1>4, PayrollAssumption DEF EndRelay, Release, PaidInv, LockInv, LockTypeOK
  <2> QED BY <2>1, <2>2, BesideTheBooks DEF PaidInv, PayTyped
<1>5. ASSUME UNCHANGED allPayrollVars PROVE PaidInv'
  BY <1>5, BesideTheBooks DEF allPayrollVars, payrollVars, lockVars, PaidInv, PayTyped
<1> QED BY <1>1, <1>2, <1>3, <1>4, <1>5

(* A payout is made where there was none: nothing was paid for it and no    *)
(* relay has it in hand.                                                    *)
LEMMA PayEmployeeKeepsBooks ==
  ASSUME PaidInv, LockInv', NEW r \in Runs, NEW e \in Employees, PayEmployee(r, e)
  PROVE  PaidInv'
<1> DEFINE key == <<e, run[r].period>>
<1>1. UNCHANGED <<lockVars, bank, relay, faults>>
  BY DEF PayEmployee
<1>2. payable' \in [Employees -> Nat]
  BY DEF PayEmployee, TakeCommission, PaidInv, PayTyped
<1>3. ASSUME UNCHANGED payout PROVE PaidInv'
  BY <1>1, <1>2, <1>3, BesideTheBooks DEF lockVars, PaidInv, PayTyped
<1>4. ASSUME payout' # payout PROVE PaidInv'
  <2>1. /\ payout' = [payout EXCEPT ![key] = PayoutRow("PENDING", payable[e])]
        /\ payout[key].status = "none"
    BY <1>4 DEF PayEmployee, MayInsert
  <2>2. /\ payout' \in [Keys -> Payout]
        /\ \A k \in Keys :
             payout'[k] # payout[k] => payout[k].status = "none" /\ payout'[k].status = "PENDING"
    BY <2>1 DEF PaidInv, PayTyped, Payout, PayoutRow
  <2> HIDE DEF key
  <2>3. PayTyped'
    BY <1>1, <1>2, <2>2 DEF PaidInv, PayTyped
  <2>4. \A q \in Relays : \A k \in InHand(q) : k \in Keys /\ payout'[k] = payout[k]
    BY <2>2 DEF PaidInv, RelaysHold, PayTyped, InHand
  <2>5. RelaysHold'
    BY <1>1, <2>4 DEF lockVars, PaidInv, RelaysHold, InHand
  <2>6. \A k \in Keys : payout[k].status = "none" => bank[k] = 0
    BY DEF PaidInv, BooksFit, PayTyped
  <2>7. BooksFit'
    BY <1>1, <2>2 DEF PaidInv, BooksFit, HasAccount
  <2>8. CleanBooks'
    BY <1>1, <2>2, <2>4, <2>6 DEF lockVars, PaidInv, CleanBooks, InHand
  <2> QED BY <2>3, <2>5, <2>7, <2>8 DEF PaidInv
<1> QED BY <1>3, <1>4
----------------------------------------------------------------------------
(* A relay that starts finds the key free: whoever paid a PENDING payout    *)
(* without recording it has gone, and there was a fault.                    *)
LEMMA StartRelayKeepsBooks ==
  ASSUME PaidInv, LockInv', NEW q \in Relays, StartRelay(q)
  PROVE  PaidInv'
<1>1. /\ lock[RelayLock] = NoJob /\ holding[q] = Nothing /\ UNCHANGED <<overrun, expired>>
      /\ holding' = [holding EXCEPT ![q] = RelayLock]
      /\ relay' = [relay EXCEPT ![q] = RelayAt(Pending, {}, {})]
      /\ UNCHANGED <<payout, bank, payable, faults>>
  BY DEF StartRelay, Acquire
<1>2. /\ relay'[q] = RelayAt(Pending, {}, {}) /\ holding'[q] = RelayLock
      /\ \A p \in Relays \ {q} : relay'[p] = relay[p] /\ holding'[p] = holding[p]
  BY <1>1, PayrollAssumption DEF PaidInv, PayTyped, LockInv, LockTypeOK
<1>3. PayTyped'
  BY <1>1 DEF PaidInv, PayTyped, RelayAt, Pending
<1>4. InHand(q)' = Pending /\ relay'[q].paid = {} /\ relay'[q].todo = Pending /\ relay'[q].refused = {}
  BY <1>2 DEF InHand, RelayAt
<1>5. RelaysHold'
  <2>1. ASSUME NEW p \in Relays \ {q} PROVE InHand(p)' = InHand(p) /\ relay'[p] = relay[p]
    BY <1>2 DEF InHand
  <2>2. \A k \in Pending : payout[k].status = "PENDING"
    BY DEF Pending
  <2> QED BY <1>1, <1>2, <1>4, <2>1, <2>2 DEF PaidInv, RelaysHold
<1>6. BooksFit'
  BY <1>1 DEF PaidInv, BooksFit, HasAccount
<1>7. ASSUME faults = 0 PROVE CleanBooks'
  <2>1. \A p \in Relays : relay[p] = NoRelay
    BY <1>1, <1>7, OneRelay, PayrollAssumption, JobsAssumption
  <2>2. \A p \in Relays : relay[p].paid = {} /\ InHand(p) = {}
    BY <2>1 DEF NoRelay, RelayAt, InHand
  <2>3. \A k \in Pending : k \in Keys /\ payout[k].status = "PENDING" /\ bank[k] = 0
    BY <1>7, <2>2 DEF Pending, PaidInv, CleanBooks, PayTyped
  <2>4. \A p \in Relays \ {q} : InHand(p)' = {} /\ relay'[p].todo = {} /\ relay'[p].refused = {}
    BY <1>2, <2>1 DEF NoRelay, RelayAt, InHand
  <2>5. \A k \in Keys : ~(payout[k].status = "PENDING" /\ bank[k] > 0)
    BY <1>7, <2>2 DEF PaidInv, CleanBooks
  <2> QED BY <1>1, <1>4, <1>7, <2>3, <2>4, <2>5 DEF PaidInv, CleanBooks
<1>8. ASSUME faults # 0 PROVE CleanBooks'
  BY <1>1, <1>8 DEF CleanBooks
<1> QED BY <1>3, <1>5, <1>6, <1>7, <1>8 DEF PaidInv

(* A relay takes a payout of its list to the gateway, which pays it or not; *)
(* the answer may be lost.                                                  *)
LEMMA GatewayKeepsBooks ==
  ASSUME PaidInv, LockInv', NEW q \in Relays, NEW k \in Keys,
         Refuse(q, k) \/ Pay(q, k) \/ PayUnanswered(q, k)
  PROVE  PaidInv'
<1>1. k \in relay[q].todo /\ k \in InHand(q) /\ UNCHANGED <<lockVars, payout, payable>>
  BY DEF Refuse, Pay, PayUnanswered, InHand
<1>2. PICK paid \in SUBSET InHand(q), refused \in SUBSET InHand(q) :
        /\ relay' = [relay EXCEPT ![q] = RelayAt(relay[q].todo \ {k}, paid, refused)]
        /\ \/ /\ paid = relay[q].paid /\ refused = relay[q].refused \cup {k}
              /\ UNCHANGED <<bank, faults>>
           \/ /\ paid = relay[q].paid \cup {k} /\ refused = relay[q].refused
              /\ bank' = [bank EXCEPT ![k] = @ + 1] /\ HasAccount(k) /\ UNCHANGED faults
           \/ /\ paid = relay[q].paid /\ refused = relay[q].refused
              /\ bank' = [bank EXCEPT ![k] = @ + 1] /\ HasAccount(k) /\ faults' = faults + 1
  <2>1. CASE Refuse(q, k)
    BY <1>1, <2>1 DEF Refuse, InHand
  <2>2. CASE Pay(q, k)
    BY <1>1, <2>2 DEF Pay, InHand
  <2>3. CASE PayUnanswered(q, k)
    BY <1>1, <2>3 DEF PayUnanswered, InHand, Fault
  <2> QED BY <2>1, <2>2, <2>3
<1>3. /\ relay' \in [Relays -> [todo : SUBSET Keys, paid : SUBSET Keys, refused : SUBSET Keys]]
      /\ relay'[q].todo = relay[q].todo \ {k} /\ relay'[q].paid = paid /\ relay'[q].refused = refused
      /\ InHand(q)' \subseteq InHand(q)
      /\ \A p \in Relays \ {q} : relay'[p] = relay[p] /\ InHand(p)' = InHand(p)
  <2>1. PICK left : left = relay[q].todo \ {k}
    OBVIOUS
  <2>2. relay' = [relay EXCEPT ![q] = RelayAt(left, paid, refused)]
    BY <1>2, <2>1
  <2>3. left \subseteq InHand(q) /\ paid \subseteq InHand(q) /\ refused \subseteq InHand(q)
    BY <2>1 DEF InHand
  <2>4. relay'[q] = RelayAt(left, paid, refused)
    BY <2>2 DEF PaidInv, PayTyped
  <2>5. relay'[q].todo = left /\ relay'[q].paid = paid /\ relay'[q].refused = refused
    BY <2>4 DEF RelayAt
  <2>6. relay' \in [Relays -> [todo : SUBSET Keys, paid : SUBSET Keys, refused : SUBSET Keys]]
    <3>1. InHand(q) \subseteq Keys
      BY DEF InHand, PaidInv, PayTyped
    <3> QED BY <2>2, <2>3, <3>1 DEF PaidInv, PayTyped, RelayAt
  <2>7. InHand(q)' \subseteq InHand(q)
    BY <2>3, <2>5 DEF InHand
  <2>8. \A p \in Relays \ {q} : relay'[p] = relay[p]
    BY <2>2 DEF PaidInv, PayTyped
  <2>9. \A p \in Relays \ {q} : InHand(p)' = InHand(p)
    BY <2>8 DEF InHand
  <2> QED BY <2>1, <2>5, <2>6, <2>7, <2>8, <2>9
<1>4. /\ bank' \in [Keys -> Nat] /\ faults' \in Nat
      /\ \A j \in Keys : bank'[j] >= bank[j] /\ (j # k => bank'[j] = bank[j])
      /\ bank'[k] > bank[k] => HasAccount(k)
      /\ k \in paid \ relay[q].paid => bank'[k] = bank[k] + 1
  <2>1. bank \in [Keys -> Nat] /\ faults \in Nat
    BY DEF PaidInv, PayTyped
  <2>2. /\ UNCHANGED bank \/ (bank' = [bank EXCEPT ![k] = @ + 1] /\ HasAccount(k))
        /\ faults' = faults \/ faults' = faults + 1
        /\ k \in paid \ relay[q].paid => bank' = [bank EXCEPT ![k] = @ + 1]
    BY <1>2
  <2> QED BY <2>1, <2>2
<1>5. paid \subseteq relay[q].paid \cup {k} /\ refused \subseteq relay[q].refused \cup {k}
  BY <1>2
<1>6. PayTyped'
  BY <1>1, <1>3, <1>4 DEF PaidInv, PayTyped
<1>7. relay[q] # NoRelay
  BY <1>1, InHandMeansRelay
<1>8. RelaysHold'
  <2>1. ASSUME NEW p \in Relays, relay'[p] # NoRelay PROVE holding'[p] = RelayLock
    BY <1>1, <1>3, <1>7, <2>1 DEF PaidInv, RelaysHold, lockVars
  <2>2. ASSUME NEW p \in Relays, NEW j \in InHand(p)' PROVE payout'[j].status # "none"
    BY <1>1, <1>3, <2>2 DEF PaidInv, RelaysHold
  <2>3. ASSUME NEW p \in Relays, NEW j \in relay'[p].paid PROVE bank'[j] > 0
    <3>1. CASE j \in relay[p].paid
      BY <1>4, <3>1 DEF PaidInv, RelaysHold, PayTyped
    <3>2. CASE j \notin relay[p].paid
      <4>1. p = q /\ j = k /\ k \in paid \ relay[q].paid
        BY <1>3, <1>5, <2>3, <3>2
      <4> QED BY <1>4, <4>1 DEF PaidInv, PayTyped
    <3> QED BY <3>1, <3>2
  <2> QED BY <2>1, <2>2, <2>3 DEF RelaysHold
<1>9. BooksFit'
  <2>1. payout[k].status # "none"
    BY <1>1 DEF PaidInv, RelaysHold
  <2>2. ASSUME NEW j \in Keys
        PROVE  /\ payout'[j].status = "COMPLETED" => bank'[j] > 0
               /\ bank'[j] > 0 => HasAccount(j) /\ payout'[j].status # "none"
    BY <1>1, <1>4, <2>1 DEF PaidInv, BooksFit, PayTyped
  <2> QED BY <2>2 DEF BooksFit, HasAccount
<1>10. CleanBooks'
  <2> SUFFICES ASSUME faults' = 0 PROVE CleanBooks'
    BY DEF CleanBooks
  <2>1. faults = 0
    BY <1>2 DEF PaidInv, PayTyped
  <2>2. \A p \in Relays \ {q} : InHand(p) = {} /\ relay[p].paid = {} /\ relay'[p].paid = {} /\ InHand(p)' = {}
    BY <1>1, <1>3, <2>1, OthersIdle
  <2>3. /\ bank[k] = 0 /\ payout[k].status = "PENDING" /\ k \notin relay[q].refused /\ k \notin relay[q].paid
    BY <1>1, <2>1 DEF PaidInv, CleanBooks, RelaysHold, InHand
  <2>4. \/ bank'[k] = 1 /\ k \in paid /\ refused = relay[q].refused
        \/ bank'[k] = 0 /\ k \in refused /\ paid = relay[q].paid
    <3>1. bank \in [Keys -> Nat] /\ faults = 0 /\ faults' = 0
      BY <2>1 DEF PaidInv, PayTyped
    <3> QED BY <1>2, <2>3, <3>1
  <2>5. /\ \A j \in InHand(q) : payout[j].status = "PENDING"
        /\ \A j \in relay[q].todo \cup relay[q].refused : j \in Keys /\ bank[j] = 0
        /\ relay[q].todo \cap relay[q].refused = {}
    BY <2>1 DEF PaidInv, CleanBooks, PayTyped
  <2>6. \A j \in Keys : bank'[j] <= 1 /\ (payout'[j].status = "FAILED" => bank'[j] = 0)
    BY <1>1, <1>4, <2>1, <2>3, <2>4 DEF PaidInv, CleanBooks
  <2>7. \A j \in relay'[q].todo \cup relay'[q].refused : bank'[j] = 0
    BY <1>3, <1>4, <1>5, <2>4, <2>5, <2>3
  <2>8. ASSUME NEW j \in Keys, payout'[j].status = "PENDING", bank'[j] > 0
        PROVE  j \in relay'[q].paid
    <3>1. CASE j = k
      BY <1>3, <2>4, <2>8, <3>1
    <3>2. CASE j # k
      <4>1. payout[j].status = "PENDING" /\ bank[j] > 0
        BY <1>1, <1>4, <2>8, <3>2
      <4>2. j \in relay[q].paid
        BY <2>1, <2>2, <4>1 DEF PaidInv, CleanBooks
      <4>3. relay[q].paid \subseteq paid
        BY <1>2
      <4> QED BY <1>3, <4>2, <4>3
    <3> QED BY <3>1, <3>2
  <2>9. relay'[q].todo \cap relay'[q].refused = {}
    BY <1>3, <1>5, <2>5
  <2>10. \A p \in Relays \ {q} : relay'[p].todo = {} /\ relay'[p].refused = {}
    BY <2>2 DEF InHand
  <2>11. overrun' \cap Relays = {}
    BY <1>1, <2>1 DEF lockVars, PaidInv, CleanBooks
  <2>12. \A j \in InHand(q)' : payout'[j].status = "PENDING"
    BY <1>1, <1>3, <2>5
  <2> QED BY <2>2, <2>6, <2>7, <2>8, <2>9, <2>10, <2>11, <2>12 DEF CleanBooks
<1> QED BY <1>6, <1>8, <1>9, <1>10 DEF PaidInv

(* The payout leaves the hands of the relay.                                *)
LEMMA DoneStep ==
  ASSUME PaidInv, NEW q \in Relays, NEW k \in Keys, Done(q, k)
  PROVE  /\ relay' \in [Relays -> [todo : SUBSET Keys, paid : SUBSET Keys, refused : SUBSET Keys]]
         /\ relay'[q].todo = relay[q].todo /\ relay'[q].paid = relay[q].paid \ {k}
         /\ relay'[q].refused = relay[q].refused \ {k}
         /\ \A p \in Relays \ {q} : relay'[p] = relay[p]
<1>1. relay'[q] = RelayAt(relay[q].todo, relay[q].paid \ {k}, relay[q].refused \ {k})
  BY DEF Done, PaidInv, PayTyped
<1>2. relay' \in [Relays -> [todo : SUBSET Keys, paid : SUBSET Keys, refused : SUBSET Keys]]
  BY DEF Done, PaidInv, PayTyped, RelayAt
<1>3. \A p \in Relays \ {q} : relay'[p] = relay[p]
  BY DEF Done, PaidInv, PayTyped
<1> QED BY <1>1, <1>2, <1>3 DEF RelayAt

(* What the gateway answered is recorded: a payout it paid is completed,    *)
(* one it refused fails and is refunded, or the transaction fails.          *)
LEMMA SettleKeepsBooks ==
  ASSUME PaidInv, LockInv', NEW q \in Relays, NEW k \in Keys,
         CompletePayout(q, k) \/ FailPayout(q, k) \/ SettleFails(q, k)
  PROVE  PaidInv'
<1>1. /\ k \in InHand(q) /\ Done(q, k) /\ UNCHANGED <<lockVars, bank>>
  BY DEF CompletePayout, FailPayout, SettleFails, InHand
<1>2. /\ relay' \in [Relays -> [todo : SUBSET Keys, paid : SUBSET Keys, refused : SUBSET Keys]]
      /\ relay'[q].todo = relay[q].todo /\ relay'[q].paid = relay[q].paid \ {k}
      /\ relay'[q].refused = relay[q].refused \ {k}
      /\ \A p \in Relays \ {q} : relay'[p] = relay[p]
  BY <1>1, DoneStep
<1>3. /\ \A p \in Relays \ {q} : InHand(p)' = InHand(p)
      /\ InHand(q)' \subseteq InHand(q) /\ InHand(q) \subseteq Keys
  BY <1>2 DEF InHand, PaidInv, PayTyped
<1>4. /\ payout' \in [Keys -> Payout]
      /\ \A j \in Keys \ {k} : payout'[j] = payout[j]
  BY DEF CompletePayout, FailPayout, SettleFails, Settled, PayoutRow, Payout, PaidInv, PayTyped
<1>5. \/ /\ k \in relay[q].paid /\ payout'[k].status = "COMPLETED" /\ UNCHANGED faults
      \/ /\ k \in relay[q].refused /\ payout'[k].status = "FAILED" /\ UNCHANGED faults
      \/ /\ payout'[k] = payout[k] /\ faults' = faults + 1
  BY DEF CompletePayout, FailPayout, SettleFails, Settled, PayoutRow, Payout, PaidInv, PayTyped, Fault
<1>6. payable' \in [Employees -> Nat]
  <2>1. k[1] \in Employees /\ payout[k].commission \in Nat
    BY DEF PaidInv, PayTyped, Payout, Keys
  <2> QED BY <2>1 DEF CompletePayout, FailPayout, SettleFails, Refund, PaidInv, PayTyped
<1>7. PayTyped'
  BY <1>1, <1>2, <1>4, <1>5, <1>6 DEF PaidInv, PayTyped
<1>8. relay[q] # NoRelay
  BY <1>1, InHandMeansRelay
<1>9. payout[k].status # "none" /\ payout'[k].status # "none"
  BY <1>1, <1>5 DEF PaidInv, RelaysHold
<1>10. RelaysHold'
  <2>1. ASSUME NEW p \in Relays, relay'[p] # NoRelay PROVE holding'[p] = RelayLock
    BY <1>1, <1>2, <1>8, <2>1 DEF PaidInv, RelaysHold, lockVars
  <2>2. ASSUME NEW p \in Relays, NEW j \in InHand(p)' PROVE payout'[j].status # "none"
    <3>1. j \in InHand(p) /\ payout[j].status # "none"
      BY <1>3, <2>2 DEF PaidInv, RelaysHold
    <3>2. j \in Keys
      BY <3>1 DEF InHand, PaidInv, PayTyped
    <3> QED BY <1>4, <1>9, <3>1, <3>2
  <2>3. ASSUME NEW p \in Relays, NEW j \in relay'[p].paid PROVE bank'[j] > 0
    BY <1>1, <1>2, <2>3 DEF PaidInv, RelaysHold
  <2> QED BY <2>1, <2>2, <2>3 DEF RelaysHold
<1>11. BooksFit'
  <2>1. k \in relay[q].paid => bank[k] > 0
    BY DEF PaidInv, RelaysHold
  <2> QED BY <1>1, <1>4, <1>5, <1>9, <2>1 DEF PaidInv, BooksFit, HasAccount
<1>12. CleanBooks'
  <2> SUFFICES ASSUME faults' = 0 PROVE CleanBooks'
    BY DEF CleanBooks
  <2>1. /\ faults = 0
        /\ \/ k \in relay[q].paid /\ payout'[k].status = "COMPLETED"
           \/ k \in relay[q].refused /\ payout'[k].status = "FAILED"
    BY <1>5 DEF PaidInv, PayTyped
  <2>2. \A p \in Relays \ {q} : InHand(p) = {} /\ relay[p].paid = {}
    BY <1>1, <2>1, OthersIdle
  <2>3. /\ \A j \in InHand(q) : payout[j].status = "PENDING"
        /\ \A j \in relay[q].todo \cup relay[q].refused : bank[j] = 0
        /\ \A j \in relay[q].paid : bank[j] > 0
        /\ relay[q].todo \cap relay[q].refused = {}
    BY <2>1 DEF PaidInv, CleanBooks, RelaysHold
  <2>4. k \notin relay[q].todo /\ k \notin InHand(q)'
    BY <1>2, <2>1, <2>3 DEF InHand
  <2>5. \A j \in InHand(q)' : payout'[j].status = "PENDING"
    BY <1>3, <1>4, <2>3, <2>4
  <2>6. \A j \in Keys : bank'[j] <= 1 /\ (payout'[j].status = "FAILED" => bank'[j] = 0)
    BY <1>1, <1>4, <2>1, <2>3 DEF PaidInv, CleanBooks
  <2>7. \A j \in relay'[q].todo \cup relay'[q].refused : bank'[j] = 0
    BY <1>1, <1>2, <2>3
  <2>8. ASSUME NEW j \in Keys, payout'[j].status = "PENDING", bank'[j] > 0
        PROVE  j \in relay'[q].paid
    <3>1. j # k
      BY <2>1, <2>8
    <3>2. j \in relay[q].paid
      BY <1>1, <1>4, <2>1, <2>2, <2>8, <3>1 DEF PaidInv, CleanBooks
    <3> QED BY <1>2, <3>1, <3>2
  <2>9. \A p \in Relays \ {q} : InHand(p)' = {} /\ relay'[p].todo = {} /\ relay'[p].refused = {}
    BY <1>2, <1>3, <2>2 DEF InHand
  <2>10. overrun' \cap Relays = {}
    BY <1>1, <2>1 DEF lockVars, PaidInv, CleanBooks
  <2>11. relay'[q].todo \cap relay'[q].refused = {}
    BY <1>2, <2>3
  <2> QED BY <2>5, <2>6, <2>7, <2>8, <2>9, <2>10, <2>11 DEF CleanBooks
<1> QED BY <1>7, <1>10, <1>11, <1>12 DEF PaidInv

(* A crash is a fault; what the relay had in hand stays PENDING.            *)
LEMMA CrashRelayKeepsBooks ==
  ASSUME PaidInv, LockInv', NEW q \in Relays, CrashRelay(q)
  PROVE  PaidInv'
<1>1. /\ UNCHANGED <<payout, bank, payable>> /\ faults' = faults + 1
      /\ relay' = [relay EXCEPT ![q] = NoRelay] /\ Abandon(q)
  BY DEF CrashRelay, Fault
<1>2. /\ relay'[q] = NoRelay
      /\ \A p \in Relays \ {q} : relay'[p] = relay[p] /\ holding'[p] = holding[p]
  BY <1>1, PayrollAssumption DEF Abandon, PaidInv, PayTyped, LockInv, LockTypeOK
<1>3. PayTyped'
  BY <1>1 DEF PaidInv, PayTyped, NoRelay, RelayAt
<1>4. RelaysHold'
  BY <1>1, <1>2 DEF PaidInv, RelaysHold, InHand, NoRelay, RelayAt
<1>5. BooksFit' /\ CleanBooks'
  BY <1>1 DEF PaidInv, PayTyped, BooksFit, CleanBooks, HasAccount
<1> QED BY <1>3, <1>4, <1>5 DEF PaidInv

(* Every step keeps the books.                                              *)
LEMMA PaidStep == PaidInv /\ [PayrollNext]_allPayrollVars => PaidInv'
<1> SUFFICES ASSUME PaidInv, [PayrollNext]_allPayrollVars PROVE PaidInv'
  OBVIOUS
<1>1. LockInv'
  BY PayrollUsesLock, LockStepKeepsInv DEF PaidInv
<1>2. ASSUME \/ \E e \in Employees : Earn(e) \/ ChangeStaff(e)
             \/ \E r \in Resources : LockExpires(r)
             \/ UNCHANGED allPayrollVars
      PROVE  PaidInv'
  BY <1>1, <1>2, OtherStepKeepsBooks
<1>3. ASSUME NEW r \in Runs,
             \/ \E m \in Periods : StartRun(r, m)
             \/ RunStep(r) \/ CrashRun(r)
             \/ \E e \in Employees : PayEmployeeFails(r, e)
      PROVE  PaidInv'
  <2>1. ASSUME NEW e \in Employees, PayEmployee(r, e) PROVE PaidInv'
    BY <1>1, <2>1, PayEmployeeKeepsBooks
  <2>2. ASSUME ~ \E e \in Employees : PayEmployee(r, e) PROVE PaidInv'
    BY <1>1, <1>3, <2>2, RunStepKeepsBooks DEF RunStep
  <2> QED BY <2>1, <2>2
<1>4. ASSUME NEW q \in Relays, StartRelay(q) \/ RelayStep(q) \/ CrashRelay(q) PROVE PaidInv'
  <2>1. ASSUME EndRelay(q) PROVE PaidInv'
    BY <1>1, <2>1, OtherStepKeepsBooks
  <2>2. ASSUME NEW k \in Keys, Refuse(q, k) \/ Pay(q, k) PROVE PaidInv'
    BY <1>1, <2>2, GatewayKeepsBooks
  <2>3. ASSUME NEW k \in Keys, CompletePayout(q, k) \/ FailPayout(q, k) PROVE PaidInv'
    BY <1>1, <2>3, SettleKeepsBooks
  <2> QED BY <1>1, <1>4, <2>1, <2>2, <2>3, StartRelayKeepsBooks, CrashRelayKeepsBooks DEF RelayStep
<1>5. ASSUME NEW q \in Relays, NEW k \in Keys, PayUnanswered(q, k) \/ SettleFails(q, k) PROVE PaidInv'
  BY <1>1, <1>5, GatewayKeepsBooks, SettleKeepsBooks
<1> QED BY PayrollAssumption, <1>2, <1>3, <1>4, <1>5 DEF PayrollNext

(* Whatever runs, relays, requests, crashes, lost answers and expired locks *)
(* interleave: a completed payout was paid, nobody without an account was,  *)
(* and as long as nothing failed or overran, no payout is paid twice and no *)
(* failed one was paid.                                                     *)
THEOREM TransfersAsRecorded == PayrollSpec => []PaidAsRecorded
<1>1. PayrollSpec => []PaidInv
  BY PaidInitially, PaidStep, PTL DEF PayrollSpec
<1> QED BY <1>1, PaidInvSuffices, PTL

----------------------------------------------------------------------------
\* The rest of the type invariant: what the books do not depend on.
RunsTyped ==
  /\ staff \subseteq Employees /\ earned \in [Employees -> Nat] /\ expense \in [Keys -> Nat]
  /\ run \in [Runs -> Run]
  /\ \A r \in Runs : run[r].step # "idle" => run[r].period \in Periods

LEMMA RunAtTyped ==
  ASSUME NEW step \in {"idle", "load", "pay", "end"}, NEW period \in Periods \cup {AnyPeriod},
         NEW pages \in Nat, NEW page \in Nat, NEW todo \in SUBSET Employees,
         NEW checked \in SUBSET Employees, NEW failed \in SUBSET Employees, NEW start \in SUBSET Employees
  PROVE  /\ RunAt(step, period, pages, page, todo, checked, failed, start) \in Run
         /\ RunAt(step, period, pages, page, todo, checked, failed, start).step = step
         /\ RunAt(step, period, pages, page, todo, checked, failed, start).period = period
BY DEF RunAt, Run

LEMMA RunFields ==
  ASSUME RunsTyped, NEW r \in Runs
  PROVE  /\ run[r].step \in {"idle", "load", "pay", "end"} /\ run[r].period \in Periods \cup {AnyPeriod}
         /\ run[r].pages \in Nat /\ run[r].page \in Nat
         /\ run[r].todo \subseteq Employees /\ run[r].checked \subseteq Employees
         /\ run[r].failed \subseteq Employees /\ run[r].start \subseteq Employees
<1>1. run[r] \in Run
  BY DEF RunsTyped
<1> QED BY <1>1 DEF Run

(* A run replaced by another one that is well typed. *)
LEMMA RunSet ==
  ASSUME RunsTyped, NEW r \in Runs, NEW next \in Run, next.step # "idle" => next.period \in Periods,
         run' = [run EXCEPT ![r] = next], UNCHANGED <<staff, earned>>, expense' \in [Keys -> Nat]
  PROVE  RunsTyped'
BY DEF RunsTyped

(* ceil(staff / PAYROLL_BATCH_SIZE) *)
LEMMA PagesTyped ==
  ASSUME staff \subseteq Employees
  PROVE  Cardinality(staff) \in Nat /\ (Cardinality(staff) + PageSize - 1) \div PageSize \in Nat
<1>1. IsFiniteSet(staff) /\ Cardinality(staff) \in Nat
  BY PayrollAssumption, FS_Subset, FS_CardinalityType
<1> QED BY <1>1, PayrollAssumption

LEMMA RunStepTyped ==
  ASSUME RunsTyped, PaidInv, NEW r \in Runs,
         \/ LoadPage(r) \/ FinishPage(r) \/ EndRun(r) \/ CrashRun(r)
         \/ \E m \in Periods : StartRun(r, m)
         \/ \E e \in Employees : CheckKey(r, e) \/ PayEmployee(r, e) \/ PayEmployeeFails(r, e)
  PROVE  RunsTyped'
<1>1. run \in [Runs -> Run] /\ expense \in [Keys -> Nat] /\ staff \subseteq Employees
  BY DEF RunsTyped
<1> DEFINE R == run[r]
<1>2. /\ R.period \in Periods \cup {AnyPeriod} /\ R.pages \in Nat /\ R.page \in Nat
      /\ R.todo \in SUBSET Employees /\ R.checked \in SUBSET Employees
      /\ R.failed \in SUBSET Employees /\ R.start \in SUBSET Employees
      /\ R.step # "idle" => R.period \in Periods
  BY RunFields DEF RunsTyped
<1>3. PageOf(R.page) \in SUBSET Employees /\ R.page + 1 \in Nat
  BY <1>1, <1>2 DEF PageOf
<1>4. ASSUME NEW m \in Periods, StartRun(r, m) PROVE RunsTyped'
  <2>1. /\ RunAt("end", m, 0, 0, {}, {}, {}, {}) \in Run
        /\ RunAt("load", m, (Cardinality(staff) + PageSize - 1) \div PageSize, 0, {}, {}, {}, staff) \in Run
        /\ RunAt("end", m, 0, 0, {}, {}, {}, {}).period = m
        /\ RunAt("load", m, (Cardinality(staff) + PageSize - 1) \div PageSize, 0, {}, {}, {}, staff).period = m
    <3>1. (Cardinality(staff) + PageSize - 1) \div PageSize \in Nat
      BY <1>1, PagesTyped
    <3> QED BY <1>1, <3>1 DEF RunAt, Run
  <2>2. PICK next \in Run : next.period = m /\ run' = [run EXCEPT ![r] = next]
    BY <1>4, <2>1 DEF StartRun
  <2> QED BY <1>1, <1>4, <2>2, RunSet DEF StartRun
<1>5. ASSUME LoadPage(r) PROVE RunsTyped'
  <2> DEFINE a == RunAt("end", R.period, R.pages, R.page, {}, {}, R.failed, R.start)
             b == RunAt("pay", R.period, R.pages, R.page, PageOf(R.page), {}, R.failed, R.start)
  <2>1. a \in Run /\ b \in Run /\ a.period = R.period /\ b.period = R.period
    BY <1>2, <1>3 DEF RunAt, Run
  <2>2. R.period \in Periods
    BY <1>2, <1>5 DEF LoadPage
  <2>3. run' = [run EXCEPT ![r] = a] \/ run' = [run EXCEPT ![r] = b]
    BY <1>1, <1>5 DEF LoadPage
  <2> HIDE DEF a, b
  <2> QED BY <1>1, <1>5, <2>1, <2>2, <2>3, RunSet DEF LoadPage
<1>6. ASSUME FinishPage(r) PROVE RunsTyped'
  <2> DEFINE a == RunAt("load", R.period, R.pages, NextPage(r), {}, {}, R.failed, R.start)
  <2>1. a \in Run /\ a.period = R.period
    BY <1>2, <1>3 DEF RunAt, Run, NextPage
  <2>2. R.period \in Periods
    BY <1>2, <1>6 DEF FinishPage
  <2>3. run' = [run EXCEPT ![r] = a]
    BY <1>1, <1>6 DEF FinishPage
  <2> HIDE DEF a
  <2> QED BY <1>1, <1>6, <2>1, <2>2, <2>3, RunSet DEF FinishPage
<1>7. ASSUME EndRun(r) \/ CrashRun(r) PROVE RunsTyped'
  <2>1. NoRun \in Run /\ NoRun.step = "idle"
    BY DEF NoRun, RunAt, Run
  <2> QED BY <1>1, <1>7, <2>1, RunSet DEF EndRun, CrashRun
<1>8. ASSUME NEW e \in Employees, CheckKey(r, e) \/ PayEmployee(r, e) \/ PayEmployeeFails(r, e)
      PROVE  RunsTyped'
  <2>1. R.step = "pay" /\ e \in R.todo \cup R.checked
    BY <1>8 DEF CheckKey, PayEmployee, PayEmployeeFails
  <2>2. PICK todo \in SUBSET Employees, checked \in SUBSET Employees, failed \in SUBSET Employees :
            Rest(r, todo, checked, failed)
    <3>1. /\ R.todo \ {e} \in SUBSET Employees /\ R.checked \ {e} \in SUBSET Employees
          /\ R.checked \cup {e} \in SUBSET Employees /\ R.failed \cup {e} \in SUBSET Employees
      BY <1>2
    <3>2. CASE CheckKey(r, e)
      BY <1>2, <3>1, <3>2 DEF CheckKey
    <3>3. CASE PayEmployee(r, e)
      BY <1>2, <3>1, <3>3 DEF PayEmployee
    <3>4. CASE PayEmployeeFails(r, e)
      BY <1>2, <3>1, <3>4 DEF PayEmployeeFails
    <3> QED BY <1>8, <3>2, <3>3, <3>4
  <2> DEFINE a == RunAt("pay", R.period, R.pages, R.page, todo, checked, failed, R.start)
  <2>3. a \in Run /\ a.period = R.period
    BY <1>2 DEF RunAt, Run
  <2>4. run' = [run EXCEPT ![r] = a]
    BY <1>1, <2>2 DEF Rest
  <2>5. R.period \in Periods
    BY <1>2, <2>1
  <2>6. expense' \in [Keys -> Nat] /\ UNCHANGED <<staff, earned>>
    BY <1>1, <1>8 DEF CheckKey, PayEmployee, PayEmployeeFails
  <2> HIDE DEF a
  <2> QED BY <2>3, <2>4, <2>5, <2>6, RunSet
<1> QED BY <1>4, <1>5, <1>6, <1>7, <1>8

LEMMA RunsTypedStep == RunsTyped /\ PaidInv /\ [PayrollNext]_allPayrollVars => RunsTyped'
<1> SUFFICES ASSUME RunsTyped, PaidInv, [PayrollNext]_allPayrollVars PROVE RunsTyped'
  OBVIOUS
<1>1. ASSUME NEW e \in Employees, Earn(e) PROVE RunsTyped'
  BY <1>1 DEF Earn, RunsTyped
<1>2. ASSUME NEW e \in Employees, ChangeStaff(e) PROVE RunsTyped'
  <2>1. staff' \subseteq Employees
    BY <1>2 DEF ChangeStaff, RunsTyped
  <2>2. run' = [r \in Runs |-> IF run[r].step \in {"load", "pay"} THEN [run[r] EXCEPT !.start = {}] ELSE run[r]]
    BY <1>2 DEF ChangeStaff, Unsettled
  <2>3. \A r \in Runs : /\ [run[r] EXCEPT !.start = {}] \in Run
                        /\ [run[r] EXCEPT !.start = {}].step = run[r].step
                        /\ [run[r] EXCEPT !.start = {}].period = run[r].period
    BY DEF RunsTyped, Run
  <2>4. /\ run' \in [Runs -> Run]
        /\ \A r \in Runs : run'[r].step = run[r].step /\ run'[r].period = run[r].period
    BY <2>2, <2>3 DEF RunsTyped
  <2> QED BY <1>2, <2>1, <2>4 DEF ChangeStaff, RunsTyped
<1>3. ASSUME NEW r \in Runs,
             \/ \E m \in Periods : StartRun(r, m)
             \/ RunStep(r) \/ CrashRun(r)
             \/ \E e \in Employees : PayEmployeeFails(r, e)
      PROVE  RunsTyped'
  BY <1>3, RunStepTyped DEF RunStep
<1>4. ASSUME \/ \E r \in Resources : LockExpires(r)
             \/ UNCHANGED allPayrollVars
      PROVE  RunsTyped'
  BY <1>4 DEF LockExpires, allPayrollVars, payrollVars, RunsTyped
<1>5. ASSUME NEW q \in Relays,
             \/ StartRelay(q) \/ EndRelay(q) \/ CrashRelay(q)
             \/ \E k \in Keys : \/ Refuse(q, k) \/ Pay(q, k) \/ PayUnanswered(q, k)
                                \/ CompletePayout(q, k) \/ FailPayout(q, k) \/ SettleFails(q, k)
      PROVE  RunsTyped'
  <2>1. UNCHANGED <<staff, earned, run>>
    BY <1>5 DEF StartRelay, EndRelay, CrashRelay, Refuse, Pay, PayUnanswered, CompletePayout, FailPayout,
                SettleFails, payrollVars
  <2>2. expense' = expense \/ \E k \in Keys : expense' = [expense EXCEPT ![k] = @ + 1]
    BY <1>5 DEF StartRelay, EndRelay, CrashRelay, Refuse, Pay, PayUnanswered, CompletePayout, FailPayout,
                SettleFails, payrollVars
  <2>3. expense' \in [Keys -> Nat]
    BY <2>2 DEF RunsTyped
  <2> QED BY <2>1, <2>3 DEF RunsTyped
<1> QED BY PayrollAssumption, <1>1, <1>2, <1>3, <1>4, <1>5 DEF PayrollNext, RelayStep

TypedInv == PaidInv /\ RunsTyped

LEMMA RunsTypedInitially == PayrollInit => RunsTyped
BY DEF PayrollInit, RunsTyped, NoRun, RunAt, Run

LEMMA TypedSuffices == TypedInv => PayrollTypeOK
BY DEF TypedInv, RunsTyped, PaidInv, LockInv, PayTyped, PayrollTypeOK

(* Every variable of the payroll keeps its kind: no balance of a wallet, no *)
(* count of transfers or of pages is ever anything but a natural number.    *)
THEOREM PayrollTypeCorrect == PayrollSpec => []PayrollTypeOK
<1>1. PayrollSpec => []TypedInv
  BY PaidInitially, PaidStep, RunsTypedInitially, RunsTypedStep, PTL DEF PayrollSpec, TypedInv
<1> QED BY <1>1, TypedSuffices, PTL
----------------------------------------------------------------------------
(* CommissionConserved.  What a payout that has not failed keeps of an      *)
(* employee's commissions is a sum over the months; every transaction moves *)
(* one amount between the wallet and one of its terms.                      *)
Keeps(rows, e) == {m \in Periods : rows[<<e, m>>].status \in {"PENDING", "COMPLETED"}}
KeptIn(rows, e) == SumFunctionOnSet([m \in Periods |-> rows[<<e, m>>].commission], Keeps(rows, e))

LEMMA KeptTyped ==
  ASSUME NEW rows \in [Keys -> Payout], NEW e \in Employees
  PROVE  /\ KeptIn(rows, e) \in Nat
         /\ IsFiniteSet(Keeps(rows, e))
         /\ \A m \in Periods : rows[<<e, m>>].commission \in Nat
<1>1. IsFiniteSet(Keeps(rows, e))
  BY PayrollAssumption, FS_Subset DEF Keeps
<1>2. \A m \in Periods : rows[<<e, m>>].commission \in Nat
  BY DEF Keys, Payout
<1>3. \A m \in Keeps(rows, e) : [n \in Periods |-> rows[<<e, n>>].commission][m] \in Nat
  BY <1>2 DEF Keeps
<1> QED BY <1>1, <1>2, <1>3, SumIsNat DEF KeptIn

(* The row of one month changes; the other months keep what they keep.      *)
LEMMA KeptButOne ==
  ASSUME NEW rows \in [Keys -> Payout], NEW e \in Employees, NEW m \in Periods
  PROVE  KeptIn(rows, e) =
           (IF m \in Keeps(rows, e) THEN rows[<<e, m>>].commission ELSE 0)
           + SumFunctionOnSet([n \in Periods |-> rows[<<e, n>>].commission], Keeps(rows, e) \ {m})
<1> DEFINE f == [n \in Periods |-> rows[<<e, n>>].commission]
           S == Keeps(rows, e)
<1>1. IsFiniteSet(S) /\ (\A n \in Periods : f[n] \in Nat) /\ S \subseteq Periods
  BY KeptTyped DEF Keeps
<1>2. CASE m \in S
  <2>1. SumFunctionOnSet(f, S) = f[m] + SumFunctionOnSet(f, S \ {m})
    <3> HIDE DEF f, S
    <3> QED BY <1>1, <1>2, SumTakeOut
  <2> QED BY <1>2, <2>1 DEF KeptIn
<1>3. CASE m \notin S
  <2>1. S \ {m} = S
    BY <1>3
  <2>2. KeptIn(rows, e) \in Nat
    BY KeptTyped
  <2> QED BY <1>3, <2>1, <2>2 DEF KeptIn
<1> QED BY <1>2, <1>3

(* The rows are "after" once the payout of m has become "next": what e is   *)
(* kept changes by this month's part, what others are kept does not.        *)
ChangesKept(rows, after, e, m, next) ==
  /\ KeptIn(after, e) + (IF rows[<<e, m>>].status \in {"PENDING", "COMPLETED"}
                         THEN rows[<<e, m>>].commission ELSE 0)
       = KeptIn(rows, e) + (IF next.status \in {"PENDING", "COMPLETED"} THEN next.commission ELSE 0)
  /\ \A d \in Employees \ {e} : KeptIn(after, d) = KeptIn(rows, d)

LEMMA KeptChange ==
  ASSUME NEW rows \in [Keys -> Payout], NEW after \in [Keys -> Payout],
         NEW e \in Employees, NEW m \in Periods, NEW next \in Payout,
         after = [rows EXCEPT ![<<e, m>>] = next]
  PROVE  ChangesKept(rows, after, e, m, next)
<1> DEFINE was == [n \in Periods |-> rows[<<e, n>>].commission]
           is == [n \in Periods |-> after[<<e, n>>].commission]
           T == Keeps(rows, e) \ {m}
<1>1. <<e, m>> \in Keys /\ after[<<e, m>>] = next
  BY DEF Keys
<1>2. \A n \in Periods \ {m} : after[<<e, n>>] = rows[<<e, n>>]
  BY DEF Keys
<1>3. Keeps(after, e) \ {m} = T
  BY <1>2 DEF Keeps
<1>4. SumFunctionOnSet(is, T) = SumFunctionOnSet(was, T)
  <2>1. IsFiniteSet(T)
    BY KeptTyped, FS_Subset
  <2>2. \A n \in T : is[n] = was[n]
    BY <1>2 DEF Keeps
  <2> HIDE DEF was, is, T
  <2> QED BY <2>1, <2>2, SumOfSame
<1>5. /\ m \in Keeps(after, e) <=> next.status \in {"PENDING", "COMPLETED"}
      /\ m \in Keeps(rows, e) <=> rows[<<e, m>>].status \in {"PENDING", "COMPLETED"}
  BY <1>1 DEF Keeps
<1>6. SumFunctionOnSet(was, T) \in Nat
  <2>1. IsFiniteSet(T)
    BY KeptTyped, FS_Subset
  <2>2. \A n \in T : was[n] \in Nat
    BY KeptTyped DEF Keeps
  <2> HIDE DEF was, is, T
  <2> QED BY <2>1, <2>2, SumIsNat
<1>7. ASSUME NEW d \in Employees \ {e} PROVE KeptIn(after, d) = KeptIn(rows, d)
  <2>1. \A n \in Periods : after[<<d, n>>] = rows[<<d, n>>]
    BY DEF Keys
  <2>2. Keeps(after, d) = Keeps(rows, d)
    BY <2>1 DEF Keeps
  <2>3. [n \in Periods |-> after[<<d, n>>].commission] = [n \in Periods |-> rows[<<d, n>>].commission]
    BY <2>1
  <2> QED BY <2>2, <2>3 DEF KeptIn
<1>8. rows[<<e, m>>].commission \in Nat /\ next.commission \in Nat
  BY <1>1 DEF Payout
<1>9. KeptIn(rows, e) = (IF m \in Keeps(rows, e) THEN rows[<<e, m>>].commission ELSE 0)
                        + SumFunctionOnSet(was, T)
  BY KeptButOne
<1>10. KeptIn(after, e) = (IF m \in Keeps(after, e) THEN next.commission ELSE 0)
                         + SumFunctionOnSet(was, T)
  <2>1. KeptIn(after, e) = (IF m \in Keeps(after, e) THEN after[<<e, m>>].commission ELSE 0)
                            + SumFunctionOnSet(is, Keeps(after, e) \ {m})
    BY KeptButOne
  <2> HIDE DEF was, is, T
  <2> QED BY <1>1, <1>3, <1>4, <2>1
<1> HIDE DEF was, is, T
<1>11. /\ rows[<<e, m>>].status \in {"PENDING", "COMPLETED"} =>
             KeptIn(rows, e) = rows[<<e, m>>].commission + SumFunctionOnSet(was, T)
       /\ rows[<<e, m>>].status \notin {"PENDING", "COMPLETED"} =>
             KeptIn(rows, e) = SumFunctionOnSet(was, T)
       /\ next.status \in {"PENDING", "COMPLETED"} =>
             KeptIn(after, e) = next.commission + SumFunctionOnSet(was, T)
       /\ next.status \notin {"PENDING", "COMPLETED"} =>
             KeptIn(after, e) = SumFunctionOnSet(was, T)
  BY <1>5, <1>6, <1>9, <1>10
<1>12. KeptIn(after, e) + (IF rows[<<e, m>>].status \in {"PENDING", "COMPLETED"}
                           THEN rows[<<e, m>>].commission ELSE 0)
         = KeptIn(rows, e) + (IF next.status \in {"PENDING", "COMPLETED"} THEN next.commission ELSE 0)
  BY <1>6, <1>8, <1>11
<1> QED BY <1>7, <1>12 DEF ChangesKept

(* A job that has overrun its key is remembered in "expired".               *)
Overran == \A j \in overrun : holding[j] \in expired

LEMMA OverranStep ==
  ASSUME LockInv, Overran, LockStep
  PROVE  Overran' /\ expired \subseteq expired'
<1> USE JobsAssumption
<1>1. ASSUME NEW j \in Jobs, NEW r \in Resources, Acquire(j, r) PROVE Overran' /\ expired' = expired
  BY <1>1 DEF Acquire, Overran, LockInv, LockTypeOK
<1>2. ASSUME NEW j \in Jobs, Release(j) \/ Abandon(j) PROVE Overran' /\ expired' = expired
  BY <1>2 DEF Release, Abandon, Overran, LockInv, LockTypeOK
<1>3. ASSUME NEW r \in Resources, Expire(r) PROVE Overran' /\ expired \subseteq expired'
  BY <1>3 DEF Expire, Holders, Overran, LockInv, LockTypeOK
<1>4. ASSUME UNCHANGED lockVars PROVE Overran' /\ expired' = expired
  BY <1>4 DEF lockVars, Overran
<1> QED BY <1>1, <1>2, <1>3, <1>4 DEF LockStep

(* As long as no relay has overrun the lock, a payout in the hands of a     *)
(* relay is PENDING, and asked for, paid or refused, but one of them.       *)
SoleRelay ==
  RelayLock \notin expired =>
    \A q \in Relays : /\ \A k \in InHand(q) : payout[k].status = "PENDING"
                      /\ relay[q].todo \cap (relay[q].paid \cup relay[q].refused) = {}

CommissionInv == TypedInv /\ Overran /\ SoleRelay /\ CommissionConserved

LEMMA ConservedMeans ==
  CommissionConserved <=>
    (RelayLock \notin expired => \A e \in Employees : earned[e] = payable[e] + KeptIn(payout, e))
BY DEF CommissionConserved, KeptIn, Keeps

LEMMA ConservedMeansNext ==
  CommissionConserved' <=>
    (RelayLock \notin expired' => \A e \in Employees : earned'[e] = payable'[e] + KeptIn(payout', e))
BY DEF CommissionConserved, KeptIn, Keeps

LEMMA SoleHolder ==
  ASSUME PaidInv, Overran, RelayLock \notin expired, NEW p \in Relays, relay[p] # NoRelay
  PROVE  lock[RelayLock] = p
<1>1. holding[p] = RelayLock /\ p \in Jobs /\ RelayLock # Nothing
  BY PayrollAssumption, JobsAssumption DEF PaidInv, RelaysHold
<1>2. p \notin overrun
  BY <1>1 DEF Overran
<1> QED BY <1>1, <1>2 DEF PaidInv, LockInv, HoldersExclude

LEMMA OthersRest ==
  ASSUME PaidInv, Overran, RelayLock \notin expired,
         NEW q \in Relays, InHand(q) # {}, NEW p \in Relays \ {q}
  PROVE  InHand(p) = {}
<1>1. relay[p] = NoRelay
  BY SoleHolder, InHandMeansRelay
<1> QED BY <1>1 DEF NoRelay, RelayAt, InHand

(* A step that leaves the rows and the wallets alone, and of a relay takes  *)
(* nothing but what it had in hand.                                         *)
LEMMA BesideTheWallets ==
  ASSUME CommissionInv, LockStep, TypedInv', UNCHANGED <<payable, earned, payout>>,
         \A q \in Relays : /\ InHand(q)' \subseteq InHand(q)
                           /\ relay'[q].todo \cap (relay'[q].paid \cup relay'[q].refused) \subseteq
                                relay[q].todo \cap (relay[q].paid \cup relay[q].refused)
  PROVE  CommissionInv'
<1>1. Overran' /\ expired \subseteq expired'
  BY OverranStep DEF CommissionInv, TypedInv, PaidInv
<1>2. SoleRelay'
  <2> SUFFICES ASSUME RelayLock \notin expired', NEW q \in Relays
               PROVE  /\ \A k \in InHand(q)' : payout'[k].status = "PENDING"
                      /\ relay'[q].todo \cap (relay'[q].paid \cup relay'[q].refused) = {}
    BY DEF SoleRelay
  <2>1. /\ \A k \in InHand(q) : payout[k].status = "PENDING"
        /\ relay[q].todo \cap (relay[q].paid \cup relay[q].refused) = {}
    BY <1>1 DEF CommissionInv, SoleRelay
  <2> QED BY <2>1
<1>3. CommissionConserved'
  BY <1>1, ConservedMeans, ConservedMeansNext DEF CommissionInv
<1> QED BY <1>1, <1>2, <1>3 DEF CommissionInv

(* A commission becomes payable. *)
LEMMA EarnConserves ==
  ASSUME CommissionInv, LockStep, TypedInv', NEW e \in Employees, Earn(e)
  PROVE  CommissionInv'
<1>1. UNCHANGED <<lockVars, payout, relay>>
  BY DEF Earn
<1>2. /\ Overran' /\ SoleRelay' /\ expired' = expired
  BY <1>1 DEF CommissionInv, Overran, SoleRelay, InHand, lockVars
<1>3. CommissionConserved'
  <2>1. \A d \in Employees : KeptIn(payout, d) \in Nat
    BY KeptTyped DEF CommissionInv, TypedInv, PaidInv, PayTyped
  <2>2. earned \in [Employees -> Nat] /\ payable \in [Employees -> Nat]
    BY DEF CommissionInv, TypedInv, PaidInv, PayTyped, RunsTyped
  <2>3. \A d \in Employees : \/ earned'[d] = earned[d] /\ payable'[d] = payable[d]
                             \/ earned'[d] = earned[d] + 1 /\ payable'[d] = payable[d] + 1
    BY <2>2 DEF Earn
  <2> QED BY <1>1, <1>2, <2>1, <2>2, <2>3, ConservedMeans, ConservedMeansNext DEF CommissionInv
<1> QED BY <1>2, <1>3 DEF CommissionInv

(* The employee's transaction moves the whole balance into the new payout.  *)
LEMMA PayEmployeeConserves ==
  ASSUME CommissionInv, LockStep, TypedInv', NEW r \in Runs, NEW e \in Employees, PayEmployee(r, e)
  PROVE  CommissionInv'
<1> DEFINE m == run[r].period
<1>1. UNCHANGED <<lockVars, earned, relay>> /\ m \in Periods
  BY DEF PayEmployee, CommissionInv, TypedInv, RunsTyped
<1>2. CASE UNCHANGED <<payout, payable>>
  BY <1>1, <1>2, BesideTheWallets DEF InHand
<1>3. CASE ~UNCHANGED <<payout, payable>>
  <2>1. /\ payout' = [payout EXCEPT ![<<e, m>>] = PayoutRow("PENDING", payable[e])]
        /\ payable' = [payable EXCEPT ![e] = 0]
        /\ payout[<<e, m>>].status = "none"
    BY <1>3 DEF PayEmployee, MayInsert, TakeCommission
  <2> HIDE DEF m
  <2>2. /\ payout \in [Keys -> Payout] /\ payout' \in [Keys -> Payout]
        /\ earned \in [Employees -> Nat] /\ payable \in [Employees -> Nat]
    BY DEF CommissionInv, TypedInv, PaidInv, PayTyped, RunsTyped
  <2>3. PayoutRow("PENDING", payable[e]) \in Payout
    BY <2>2 DEF PayoutRow, Payout
  <2>4. PICK next \in Payout : next = PayoutRow("PENDING", payable[e])
    BY <2>3
  <2>5. next.status = "PENDING" /\ next.commission = payable[e]
    BY <2>4 DEF PayoutRow
  <2>6. /\ KeptIn(payout', e) + 0 = KeptIn(payout, e) + payable[e]
        /\ \A d \in Employees \ {e} : KeptIn(payout', d) = KeptIn(payout, d)
    <3>1. payout' = [payout EXCEPT ![<<e, m>>] = next]
      BY <2>1, <2>4
    <3>2. PICK before \in [Keys -> Payout], after \in [Keys -> Payout] : before = payout /\ after = payout'
      BY <2>2
    <3>3. after = [before EXCEPT ![<<e, m>>] = next]
      BY <3>1, <3>2
    <3>4. before[<<e, m>>].status = "none"
      BY <2>1, <3>2
    <3>5. ChangesKept(before, after, e, m, next)
      BY <1>1, <3>3, KeptChange
    <3>6. /\ KeptIn(after, e) + 0 = KeptIn(before, e) + payable[e]
          /\ \A d \in Employees \ {e} : KeptIn(after, d) = KeptIn(before, d)
      BY <2>5, <3>4, <3>5 DEF ChangesKept
    <3> QED BY <3>2, <3>6
  <2>7. \A d \in Employees : KeptIn(payout, d) \in Nat /\ KeptIn(payout', d) \in Nat
    BY <2>2, KeptTyped
  <2>8. CommissionConserved'
    <3>1. \A d \in Employees : payable'[d] = IF d = e THEN 0 ELSE payable[d]
      BY <2>1, <2>2
    <3>2. expired' = expired
      BY <1>1 DEF lockVars
    <3> QED BY <1>1, <2>2, <2>6, <2>7, <3>1, <3>2, ConservedMeans, ConservedMeansNext DEF CommissionInv
  <2>9. SoleRelay'
    <3>1. \A q \in Relays : \A k \in InHand(q) : k \in Keys /\ payout[k].status # "none"
      BY DEF CommissionInv, TypedInv, PaidInv, PayTyped, RelaysHold, InHand
    <3>2. \A q \in Relays : \A k \in InHand(q) : payout'[k] = payout[k]
      BY <2>1, <2>2, <3>1
    <3> QED BY <1>1, <3>2 DEF CommissionInv, SoleRelay, InHand, lockVars
  <2>10. Overran'
    BY <1>1 DEF CommissionInv, Overran, lockVars
  <2> QED BY <2>8, <2>9, <2>10 DEF CommissionInv
<1> QED BY <1>2, <1>3

(* A relay that starts takes over what is PENDING: nobody else has any.     *)
LEMMA StartRelayConserves ==
  ASSUME CommissionInv, LockStep, TypedInv', NEW q \in Relays, StartRelay(q)
  PROVE  CommissionInv'
<1>1. /\ UNCHANGED <<payable, earned, payout>> /\ expired' = expired
      /\ relay' = [relay EXCEPT ![q] = RelayAt(Pending, {}, {})]
  BY DEF StartRelay, Acquire
<1>2. /\ relay'[q] = RelayAt(Pending, {}, {})
      /\ \A p \in Relays \ {q} : relay'[p] = relay[p]
  BY <1>1 DEF CommissionInv, TypedInv, PaidInv, PayTyped
<1>3. InHand(q)' = Pending /\ relay'[q].paid = {} /\ relay'[q].refused = {}
  BY <1>2 DEF InHand, RelayAt
<1>4. \A p \in Relays \ {q} : InHand(p)' = InHand(p)
  BY <1>2 DEF InHand
<1>5. SoleRelay'
  BY <1>1, <1>2, <1>3, <1>4 DEF CommissionInv, SoleRelay, Pending
<1>6. Overran'
  BY OverranStep DEF CommissionInv, TypedInv, PaidInv
<1>7. CommissionConserved'
  BY <1>1, ConservedMeans, ConservedMeansNext DEF CommissionInv
<1> QED BY <1>5, <1>6, <1>7 DEF CommissionInv

(* The row of a payout in hand is settled: a completed one keeps what it    *)
(* kept, a failed one gives it back to the wallet.                          *)
LEMMA SettleConserves ==
  ASSUME CommissionInv, LockStep, TypedInv', NEW q \in Relays, NEW k \in Keys,
         CompletePayout(q, k) \/ FailPayout(q, k)
  PROVE  CommissionInv'
<1>1. PICK e \in Employees, m \in Periods : k = <<e, m>>
  BY DEF Keys
<1>2. /\ payout \in [Keys -> Payout] /\ payout' \in [Keys -> Payout]
      /\ earned \in [Employees -> Nat] /\ payable \in [Employees -> Nat]
      /\ payout[k].commission \in Nat
  BY DEF CommissionInv, TypedInv, PaidInv, PayTyped, RunsTyped, Payout
<1>3. /\ k \in InHand(q) /\ k \in relay[q].paid \cup relay[q].refused
      /\ Done(q, k) /\ UNCHANGED <<lockVars, earned>>
  BY DEF CompletePayout, FailPayout, InHand
<1>4. /\ relay'[q].todo = relay[q].todo /\ relay'[q].paid = relay[q].paid \ {k}
      /\ relay'[q].refused = relay[q].refused \ {k}
      /\ \A p \in Relays \ {q} : relay'[p] = relay[p]
  BY <1>3, DoneStep DEF CommissionInv, TypedInv
<1>5. Overran'
  BY OverranStep DEF CommissionInv, TypedInv, PaidInv
<1>6. ASSUME RelayLock \in expired PROVE CommissionInv'
  BY <1>3, <1>5, <1>6 DEF CommissionInv, SoleRelay, CommissionConserved, lockVars
<1>7. ASSUME RelayLock \notin expired PROVE CommissionInv'
  <2>1. /\ payout[k].status = "PENDING"
        /\ relay[q].todo \cap (relay[q].paid \cup relay[q].refused) = {}
        /\ \A j \in InHand(q) : payout[j].status = "PENDING"
    BY <1>3, <1>7 DEF CommissionInv, SoleRelay
  <2>2. \A p \in Relays \ {q} : InHand(p) = {}
    BY <1>3, <1>7, OthersRest DEF CommissionInv, TypedInv
  <2>3. PICK status \in {"COMPLETED", "FAILED"} :
          /\ payout' = [payout EXCEPT ![k] = PayoutRow(status, payout[k].commission)]
          /\ \A d \in Employees : payable'[d] =
               IF d = e /\ status = "FAILED" THEN payable[d] + payout[k].commission ELSE payable[d]
    <3>1. k[1] = e
      BY <1>1
    <3>2. CASE CompletePayout(q, k)
      BY <1>2, <3>2 DEF CompletePayout, Settled
    <3>3. CASE FailPayout(q, k)
      BY <1>2, <3>1, <3>3 DEF FailPayout, Settled, Refund
    <3> QED BY <3>2, <3>3
  <2>4. PICK next \in Payout : /\ next = PayoutRow(status, payout[k].commission)
                               /\ next.status = status /\ next.commission = payout[k].commission
    <3> DEFINE c == payout[k].commission
    <3>1. c \in Nat
      BY <1>2
    <3> HIDE DEF c
    <3>2. /\ PayoutRow(status, c) \in Payout
          /\ PayoutRow(status, c).status = status /\ PayoutRow(status, c).commission = c
      BY <3>1 DEF PayoutRow, Payout
    <3> QED BY <3>2 DEF c
  <2>5. /\ KeptIn(payout', e) + payout[k].commission
             = KeptIn(payout, e) + (IF status = "COMPLETED" THEN payout[k].commission ELSE 0)
        /\ \A d \in Employees \ {e} : KeptIn(payout', d) = KeptIn(payout, d)
    <3>1. PICK before \in [Keys -> Payout], after \in [Keys -> Payout] : before = payout /\ after = payout'
      BY <1>2
    <3>2. after = [before EXCEPT ![<<e, m>>] = next]
      BY <1>1, <2>3, <2>4, <3>1
    <3>3. before[<<e, m>>].status = "PENDING" /\ before[<<e, m>>].commission = payout[k].commission
      BY <1>1, <2>1, <3>1
    <3>4. /\ KeptIn(after, e) + payout[k].commission
               = KeptIn(before, e) + (IF status = "COMPLETED" THEN payout[k].commission ELSE 0)
          /\ \A d \in Employees \ {e} : KeptIn(after, d) = KeptIn(before, d)
      <4>1. ChangesKept(before, after, e, m, next)
        BY <3>2, KeptChange
      <4> QED BY <2>4, <3>3, <4>1 DEF ChangesKept
    <3> QED BY <3>1, <3>4
  <2>6. \A d \in Employees : KeptIn(payout, d) \in Nat /\ KeptIn(payout', d) \in Nat
    BY <1>2, KeptTyped
  <2>7. expired' = expired
    BY <1>3 DEF lockVars
  <2>8. CommissionConserved'
    <3>1. ASSUME NEW d \in Employees PROVE earned'[d] = payable'[d] + KeptIn(payout', d)
      <4>1. /\ earned[d] = payable[d] + KeptIn(payout, d) /\ earned'[d] = earned[d]
            /\ payable[d] \in Nat /\ KeptIn(payout, d) \in Nat /\ KeptIn(payout', d) \in Nat
        BY <1>2, <1>3, <1>7, <2>6, ConservedMeans DEF CommissionInv
      <4>2. CASE d # e
        BY <2>3, <2>5, <4>1, <4>2
      <4>3. CASE d = e /\ status = "COMPLETED"
        BY <1>2, <2>3, <2>5, <4>1, <4>3
      <4>4. CASE d = e /\ status = "FAILED"
        BY <1>2, <2>3, <2>5, <4>1, <4>4
      <4> QED BY <4>2, <4>3, <4>4
    <3> QED BY <3>1, ConservedMeansNext
  <2>9. SoleRelay'
    <3>1. \A p \in Relays \ {q} : InHand(p)' = {}
      BY <1>4, <2>2 DEF InHand
    <3>2. k \notin InHand(q)' /\ InHand(q)' \subseteq InHand(q)
      BY <1>3, <1>4, <2>1 DEF InHand
    <3>3. InHand(q) \subseteq Keys
      BY DEF InHand, CommissionInv, TypedInv, PaidInv, PayTyped
    <3>4. \A j \in InHand(q)' : payout'[j].status = "PENDING"
      BY <1>2, <2>1, <2>3, <3>2, <3>3
    <3>5. relay'[q].todo \cap (relay'[q].paid \cup relay'[q].refused) = {}
      BY <1>4, <2>1
    <3>6. \A p \in Relays \ {q} : relay'[p].todo = {}
      BY <3>1 DEF InHand
    <3> QED BY <3>1, <3>4, <3>5, <3>6 DEF SoleRelay
  <2> QED BY <1>5, <2>8, <2>9 DEF CommissionInv
<1> QED BY <1>6, <1>7

(* What the gateway answers, a crash and a failed transaction only take     *)
(* payouts from the hands of a relay.                                       *)
LEMMA OtherRelayStepsConserve ==
  ASSUME CommissionInv, LockStep, TypedInv', NEW q \in Relays,
         \/ EndRelay(q) \/ CrashRelay(q)
         \/ \E k \in Keys : Refuse(q, k) \/ Pay(q, k) \/ PayUnanswered(q, k) \/ SettleFails(q, k)
  PROVE  CommissionInv'
<1>1. UNCHANGED <<payable, earned, payout>>
  BY DEF EndRelay, CrashRelay, Refuse, Pay, PayUnanswered, SettleFails, payrollVars
<1> DEFINE T == relay[q].todo
           P == relay[q].paid
           F == relay[q].refused
           Shrinks == /\ relay'[q].todo \subseteq T
                      /\ relay'[q].paid \cup relay'[q].refused \subseteq InHand(q)
                      /\ relay'[q].todo \cap (relay'[q].paid \cup relay'[q].refused) \subseteq T \cap (P \cup F)
                      /\ \A p \in Relays \ {q} : relay'[p] = relay[p]
<1>2. relay \in [Relays -> [todo : SUBSET Keys, paid : SUBSET Keys, refused : SUBSET Keys]]
  BY DEF CommissionInv, TypedInv, PaidInv, PayTyped
<1>3. Shrinks
  <2>1. ASSUME EndRelay(q) PROVE Shrinks
    BY <2>1 DEF EndRelay, payrollVars, InHand
  <2>2. ASSUME CrashRelay(q) PROVE Shrinks
    <3>1. relay'[q] = NoRelay /\ \A p \in Relays \ {q} : relay'[p] = relay[p]
      BY <1>2, <2>2 DEF CrashRelay
    <3> QED BY <3>1 DEF NoRelay, RelayAt
  <2>3. ASSUME NEW k \in Keys, Refuse(q, k) \/ Pay(q, k) \/ PayUnanswered(q, k) \/ SettleFails(q, k)
        PROVE  Shrinks
    <3>1. T \cup P \cup F = InHand(q)
      BY DEF InHand
    <3>2. \A p \in Relays \ {q} : relay'[p] = relay[p]
      BY <1>2, <2>3 DEF Refuse, Pay, PayUnanswered, SettleFails, Done
    <3>3. \/ k \in T /\ relay'[q] = RelayAt(T \ {k}, P, F \cup {k})
          \/ k \in T /\ relay'[q] = RelayAt(T \ {k}, P \cup {k}, F)
          \/ relay'[q] = RelayAt(T \ {k}, P, F)
          \/ relay'[q] = RelayAt(T, P \ {k}, F \ {k})
      BY <1>2, <2>3 DEF Refuse, Pay, PayUnanswered, SettleFails, Done
    <3>4. \/ /\ k \in T /\ relay'[q].todo = T \ {k}
             /\ relay'[q].paid = P /\ relay'[q].refused = F \cup {k}
          \/ /\ k \in T /\ relay'[q].todo = T \ {k}
             /\ relay'[q].paid = P \cup {k} /\ relay'[q].refused = F
          \/ /\ relay'[q].todo = T \ {k} /\ relay'[q].paid = P /\ relay'[q].refused = F
          \/ /\ relay'[q].todo = T /\ relay'[q].paid = P \ {k} /\ relay'[q].refused = F \ {k}
      BY <3>3 DEF RelayAt
    <3> HIDE DEF T, P, F
    <3> QED BY <3>1, <3>2, <3>4
  <2> HIDE DEF Shrinks
  <2> QED BY <2>1, <2>2, <2>3
<1>4. ASSUME NEW p \in Relays
      PROVE  /\ InHand(p)' \subseteq InHand(p)
             /\ relay'[p].todo \cap (relay'[p].paid \cup relay'[p].refused) \subseteq
                  relay[p].todo \cap (relay[p].paid \cup relay[p].refused)
  BY <1>3 DEF InHand
<1> QED BY <1>1, <1>4, BesideTheWallets

LEMMA CommissionStep == CommissionInv /\ [PayrollNext]_allPayrollVars => CommissionInv'
<1> SUFFICES ASSUME CommissionInv, [PayrollNext]_allPayrollVars PROVE CommissionInv'
  OBVIOUS
<1>1. LockStep /\ TypedInv'
  BY PayrollUsesLock, PaidStep, RunsTypedStep DEF CommissionInv, TypedInv
<1>2. ASSUME NEW e \in Employees, Earn(e) PROVE CommissionInv'
  BY <1>1, <1>2, EarnConserves
<1>3. ASSUME NEW r \in Runs, NEW e \in Employees, PayEmployee(r, e) PROVE CommissionInv'
  BY <1>1, <1>3, PayEmployeeConserves
<1>4. ASSUME \/ \E e \in Employees : ChangeStaff(e)
             \/ \E r \in Runs : \/ LoadPage(r) \/ FinishPage(r) \/ EndRun(r) \/ CrashRun(r)
                                \/ \E m \in Periods : StartRun(r, m)
                                \/ \E e \in Employees : CheckKey(r, e) \/ PayEmployeeFails(r, e)
             \/ \E r \in Resources : LockExpires(r)
             \/ UNCHANGED allPayrollVars
      PROVE  CommissionInv'
  <2>1. UNCHANGED <<payable, earned, payout, relay>>
    BY <1>4 DEF ChangeStaff, LoadPage, FinishPage, EndRun, CrashRun, StartRun, CheckKey, PayEmployeeFails,
                LockExpires, allPayrollVars, payrollVars
  <2> QED BY <1>1, <2>1, BesideTheWallets DEF InHand
<1>5. ASSUME NEW q \in Relays, StartRelay(q) PROVE CommissionInv'
  BY <1>1, <1>5, StartRelayConserves
<1>6. ASSUME NEW q \in Relays, NEW k \in Keys, CompletePayout(q, k) \/ FailPayout(q, k) PROVE CommissionInv'
  BY <1>1, <1>6, SettleConserves
<1>7. ASSUME NEW q \in Relays,
             \/ EndRelay(q) \/ CrashRelay(q)
             \/ \E k \in Keys : Refuse(q, k) \/ Pay(q, k) \/ PayUnanswered(q, k) \/ SettleFails(q, k)
      PROVE  CommissionInv'
  BY <1>1, <1>7, OtherRelayStepsConserve
<1> QED BY PayrollAssumption, <1>2, <1>3, <1>4, <1>5, <1>6, <1>7 DEF PayrollNext, RunStep, RelayStep

LEMMA CommissionInitially == PayrollInit => CommissionInv
<1> SUFFICES ASSUME PayrollInit PROVE CommissionInv
  OBVIOUS
<1>1. TypedInv
  BY PaidInitially, RunsTypedInitially DEF TypedInv
<1>2. Overran
  BY DEF PayrollInit, LockInit, Overran
<1>3. SoleRelay
  BY DEF PayrollInit, SoleRelay, NoRelay, RelayAt, InHand
<1>4. \A e \in Employees : KeptIn(payout, e) = 0
  <2> SUFFICES ASSUME NEW e \in Employees PROVE KeptIn(payout, e) = 0
    OBVIOUS
  <2>1. Keeps(payout, e) = {}
    BY DEF PayrollInit, NoPayout, PayoutRow, Keeps, Keys
  <2> QED BY <2>1, SumOfNone DEF KeptIn
<1>5. CommissionConserved
  BY <1>4, ConservedMeans DEF PayrollInit
<1> QED BY <1>1, <1>2, <1>3, <1>5 DEF CommissionInv

(* Whatever runs, requests, relays, crashes and database errors interleave, *)
(* every commission that became payable is in the wallet or in exactly one  *)
(* payout that has not failed, as long as no relay overruns its lock: it is *)
(* neither paid out twice nor lost, nor refunded twice.                     *)
THEOREM CommissionsConserved == PayrollSpec => []CommissionConserved
<1>1. PayrollSpec => []CommissionInv
  BY CommissionInitially, CommissionStep, PTL DEF PayrollSpec
<1>2. CommissionInv => CommissionConserved
  BY DEF CommissionInv
<1> QED BY <1>1, <1>2, PTL
----------------------------------------------------------------------------
(* NobodySkipped.  As long as the staff is the one the run started with,    *)
(* every employee has a page, and the pages read so far are the first ones; *)
(* whoever is of an earlier page has a payout, or failed.                   *)
PageIndex(e) == Cardinality(Before(e)) \div PageSize
Owed(r) == {e \in run[r].start \ run[r].failed : Salary[e] > 0}
HasPayout(e, m) == payout[<<e, m>>].status # "none"

SettledStaff(r) ==
  run[r].step \in {"load", "pay"} /\ run[r].start # {} =>
    /\ run[r].start = staff
    /\ run[r].pages = (Cardinality(staff) + PageSize - 1) \div PageSize

OwedPaid(r, e) ==
  /\ run[r].step \in {"load", "pay"} /\ PageIndex(e) < run[r].page => HasPayout(e, run[r].period)
  /\ run[r].step = "pay" /\ PageIndex(e) = run[r].page =>
       e \in run[r].todo \cup run[r].checked \/ HasPayout(e, run[r].period)
  /\ run[r].step = "end" => HasPayout(e, run[r].period)

RunKept(r) == SettledStaff(r) /\ \A e \in Owed(r) : OwedPaid(r, e)

PagesInv == TypedInv /\ \A r \in Runs : RunKept(r)

(* ceil(n / p) pages hold the places before n. *)
LEMMA PlaceHasPage ==
  ASSUME NEW n \in Nat, NEW c \in Nat, n < c, NEW p \in Nat \ {0}
  PROVE  n \div p \in Nat /\ n \div p < (c + p - 1) \div p
<1> DEFINE a == n \div p
           b == (c + p - 1) \div p
<1>1. a \in Int /\ p * a <= n /\ n < p * (a + 1)
  OBVIOUS
<1>2. b \in Int /\ c + p - 1 < p * (b + 1)
  OBVIOUS
<1>3. a >= 0
  BY <1>1
<1> HIDE DEF a, b
<1>4. ASSUME b <= a PROVE FALSE
  <2>1. p * b <= p * a
    BY <1>1, <1>2, <1>4
  <2>2. p * (b + 1) = p * b + p
    BY <1>2
  <2>3. p * a \in Int /\ p * b \in Int
    BY <1>1, <1>2
  <2> QED BY <1>1, <1>2, <2>1, <2>2, <2>3
<1> QED BY <1>1, <1>2, <1>3, <1>4 DEF a, b

LEMMA EveryoneHasPage ==
  ASSUME staff \subseteq Employees, NEW e \in staff
  PROVE  /\ PageIndex(e) \in Nat
         /\ PageIndex(e) < (Cardinality(staff) + PageSize - 1) \div PageSize
<1>1. IsFiniteSet(staff) /\ Cardinality(staff) \in Nat
  BY PayrollAssumption, FS_Subset, FS_CardinalityType
<1>2. Before(e) \subseteq staff /\ Before(e) # staff
  BY PayrollAssumption DEF Before
<1>3. IsFiniteSet(Before(e)) /\ Cardinality(Before(e)) \in Nat /\ Cardinality(Before(e)) < Cardinality(staff)
  BY <1>1, <1>2, FS_Subset, FS_CardinalityType
<1> QED BY <1>1, <1>3, PlaceHasPage, PayrollAssumption DEF PageIndex

(* No payout is ever taken away.                                            *)
LEMMA PayoutsStay ==
  ASSUME PaidInv, [PayrollNext]_allPayrollVars, NEW k \in Keys, payout[k].status # "none"
  PROVE  payout'[k].status # "none"
<1>1. ASSUME NEW r \in Runs, NEW e \in Employees, PayEmployee(r, e) PROVE payout'[k].status # "none"
  BY <1>1 DEF PayEmployee, MayInsert, PayoutRow, PaidInv, PayTyped
<1>2. ASSUME NEW q \in Relays, NEW j \in Keys, CompletePayout(q, j) \/ FailPayout(q, j)
      PROVE  payout'[k].status # "none"
  BY <1>2 DEF CompletePayout, FailPayout, Settled, PayoutRow, PaidInv, PayTyped
<1>3. ASSUME UNCHANGED payout PROVE payout'[k].status # "none"
  BY <1>3
<1>4. ASSUME NEW r \in Runs, RunStep(r), ~\E e \in Employees : PayEmployee(r, e) PROVE UNCHANGED payout
  BY <1>4 DEF RunStep, LoadPage, FinishPage, EndRun, CheckKey
<1>5. ASSUME NEW q \in Relays, RelayStep(q), ~\E j \in Keys : CompletePayout(q, j) \/ FailPayout(q, j)
      PROVE  UNCHANGED payout
  BY <1>5 DEF RelayStep, EndRelay, Refuse, Pay, payrollVars
<1>6. ASSUME \/ \E e \in Employees : Earn(e) \/ ChangeStaff(e)
             \/ \E r \in Runs, m \in Periods : StartRun(r, m)
             \/ \E r \in Runs : CrashRun(r)
             \/ \E r \in Runs, e \in Employees : PayEmployeeFails(r, e)
             \/ \E q \in Relays : StartRelay(q) \/ CrashRelay(q)
             \/ \E q \in Relays, j \in Keys : PayUnanswered(q, j) \/ SettleFails(q, j)
             \/ \E r \in Resources : LockExpires(r)
             \/ UNCHANGED allPayrollVars
      PROVE  UNCHANGED payout
  BY <1>6 DEF Earn, ChangeStaff, StartRun, CrashRun, PayEmployeeFails, StartRelay, CrashRelay, PayUnanswered,
              SettleFails, LockExpires, allPayrollVars, payrollVars
<1> QED BY PayrollAssumption, <1>1, <1>2, <1>3, <1>4, <1>5, <1>6 DEF PayrollNext

(* A step that leaves this run and the staff alone.                         *)
LEMMA OtherRunsKept ==
  ASSUME PagesInv, [PayrollNext]_allPayrollVars, NEW r \in Runs, run'[r] = run[r], UNCHANGED staff
  PROVE  RunKept(r)'
<1>1. \A e \in Employees : run[r].step # "idle" /\ HasPayout(e, run[r].period) => HasPayout(e, run[r].period)'
  <2> SUFFICES ASSUME NEW e \in Employees, run[r].step # "idle", HasPayout(e, run[r].period)
               PROVE  HasPayout(e, run[r].period)'
    OBVIOUS
  <2>1. <<e, run[r].period>> \in Keys
    BY DEF Keys, PagesInv, TypedInv, RunsTyped
  <2>2. payout'[<<e, run[r].period>>].status # "none"
    BY <2>1, PayoutsStay DEF PagesInv, TypedInv, HasPayout
  <2> QED BY <2>2 DEF HasPayout
<1>2. Owed(r) \subseteq Employees /\ Owed(r)' = Owed(r)
  BY RunFields DEF Owed, PagesInv, TypedInv
<1>3. \A e \in Employees : PageIndex(e)' = PageIndex(e)
  BY DEF PageIndex, Before
<1>4. SettledStaff(r)'
  BY DEF PagesInv, RunKept, SettledStaff
<1>5. ASSUME NEW e \in Owed(r)' PROVE OwedPaid(r, e)'
  <2>1. OwedPaid(r, e) /\ e \in Employees
    BY <1>2 DEF PagesInv, RunKept
  <2> QED BY <1>1, <1>3, <2>1 DEF OwedPaid, HasPayout
<1> QED BY <1>4, <1>5 DEF RunKept

(* A step of this run after its start: it keeps the staff it started with,  *)
(* the number of its pages and its month, and forgets no failure.           *)
RunGoesOn(was, is) ==
  /\ was.step \in {"load", "pay"} /\ is.step \in {"load", "pay", "end"}
  /\ is.start = was.start /\ is.period = was.period /\ is.pages = was.pages /\ was.failed \subseteq is.failed

LEMMA RunGoesOnFrom ==
  ASSUME RunsTyped, NEW r \in Runs,
         \/ LoadPage(r) \/ FinishPage(r)
         \/ \E e \in Employees : CheckKey(r, e) \/ PayEmployee(r, e) \/ PayEmployeeFails(r, e)
  PROVE  /\ RunGoesOn(run[r], run'[r]) /\ UNCHANGED staff
         /\ \A o \in Runs \ {r} : run'[o] = run[o]
<1>1. run \in [Runs -> Run]
  BY DEF RunsTyped
<1>2. UNCHANGED staff /\ \A o \in Runs \ {r} : run'[o] = run[o]
  BY <1>1 DEF LoadPage, FinishPage, CheckKey, PayEmployee, PayEmployeeFails, Rest
<1>3. ASSUME LoadPage(r) PROVE RunGoesOn(run[r], run'[r])
  <2>1. \/ run'[r] = RunAt("end", run[r].period, run[r].pages, run[r].page, {}, {}, run[r].failed, run[r].start)
        \/ run'[r] = RunAt("pay", run[r].period, run[r].pages, run[r].page, PageOf(run[r].page), {},
                           run[r].failed, run[r].start)
    BY <1>1, <1>3 DEF LoadPage
  <2> QED BY <1>3, <2>1 DEF RunGoesOn, RunAt, LoadPage
<1>4. ASSUME FinishPage(r) PROVE RunGoesOn(run[r], run'[r])
  <2>1. run'[r] = RunAt("load", run[r].period, run[r].pages, NextPage(r), {}, {}, run[r].failed, run[r].start)
    BY <1>1, <1>4 DEF FinishPage
  <2> QED BY <1>4, <2>1 DEF RunGoesOn, RunAt, FinishPage
<1>5. ASSUME NEW e \in Employees, CheckKey(r, e) \/ PayEmployee(r, e) \/ PayEmployeeFails(r, e)
      PROVE  RunGoesOn(run[r], run'[r])
  <2>1. run[r].step = "pay"
    BY <1>5 DEF CheckKey, PayEmployee, PayEmployeeFails
  <2>2. PICK todo, checked, failed : Rest(r, todo, checked, failed) /\ run[r].failed \subseteq failed
    BY <1>5 DEF CheckKey, PayEmployee, PayEmployeeFails
  <2>3. run'[r] = RunAt("pay", run[r].period, run[r].pages, run[r].page, todo, checked, failed, run[r].start)
    BY <1>1, <2>2 DEF Rest
  <2> QED BY <2>1, <2>2, <2>3 DEF RunGoesOn, RunAt
<1> QED BY <1>2, <1>3, <1>4, <1>5

(* The page read holds exactly the employees whose turn it is; a payout     *)
(* that the look at the key found, or the transaction made, is there; the   *)
(* next page begins when the page is through.                               *)
LEMMA OwedStep ==
  ASSUME PagesInv, [PayrollNext]_allPayrollVars, TypedInv', NEW r \in Runs,
         \/ LoadPage(r) \/ FinishPage(r)
         \/ \E d \in Employees : CheckKey(r, d) \/ PayEmployee(r, d) \/ PayEmployeeFails(r, d),
         NEW e \in Owed(r), e \notin run'[r].failed
  PROVE  OwedPaid(r, e)'
<1>1. /\ run \in [Runs -> Run] /\ PaidInv /\ RunsTyped
      /\ e \in Employees /\ Salary[e] \in Nat /\ Salary[e] > 0 /\ payable[e] \in Nat
      /\ run[r].page \in Nat
  BY RunFields, PayrollAssumption DEF PagesInv, TypedInv, RunsTyped, PaidInv, PayTyped, Owed
<1>2. RunGoesOn(run[r], run'[r]) /\ UNCHANGED staff
  BY <1>1, RunGoesOnFrom
<1>3. SettledStaff(r) /\ OwedPaid(r, e) /\ e \in run[r].start /\ run[r].period \in Periods
  BY <1>1, <1>2 DEF PagesInv, RunKept, Owed, RunsTyped, RunGoesOn
<1>4. /\ e \in staff /\ PageIndex(e) \in Nat /\ PageIndex(e) < run[r].pages
      /\ PageIndex(e)' = PageIndex(e)
  BY <1>1, <1>2, <1>3, EveryoneHasPage DEF RunsTyped, SettledStaff, RunGoesOn, PageIndex, Before
<1>5. HasPayout(e, run[r].period) => HasPayout(e, run[r].period)'
  <2>1. <<e, run[r].period>> \in Keys
    BY <1>1, <1>3 DEF Keys
  <2> QED BY <1>1, <1>2, <2>1, PayoutsStay DEF HasPayout, RunGoesOn
<1>6. run'[r].period = run[r].period
  BY <1>2 DEF RunGoesOn
<1>7. ASSUME LoadPage(r) PROVE OwedPaid(r, e)'
  <2>1. \/ /\ run[r].page = run[r].pages
           /\ run'[r] = RunAt("end", run[r].period, run[r].pages, run[r].page, {}, {}, run[r].failed, run[r].start)
        \/ run'[r] = RunAt("pay", run[r].period, run[r].pages, run[r].page, PageOf(run[r].page), {},
                           run[r].failed, run[r].start)
    BY <1>1, <1>7 DEF LoadPage
  <2>2. PageIndex(e) = run[r].page => e \in PageOf(run[r].page)
    BY <1>4 DEF PageOf, PageIndex
  <2>3. \/ run[r].page = run[r].pages /\ run'[r].step = "end"
        \/ run'[r].step = "pay" /\ run'[r].page = run[r].page /\ run'[r].todo = PageOf(run[r].page)
    BY <2>1 DEF RunAt
  <2>4. run[r].step = "load"
    BY <1>7 DEF LoadPage
  <2> QED BY <1>3, <1>4, <1>5, <1>6, <2>2, <2>3, <2>4 DEF OwedPaid
<1>8. ASSUME FinishPage(r) PROVE OwedPaid(r, e)'
  <2>1. run'[r] = RunAt("load", run[r].period, run[r].pages, NextPage(r), {}, {}, run[r].failed, run[r].start)
    BY <1>1, <1>8 DEF FinishPage
  <2>2. run'[r].step = "load" /\ run'[r].page = run[r].page + 1
    BY <2>1 DEF RunAt, NextPage
  <2>3. run[r].step = "pay" /\ run[r].todo = {} /\ run[r].checked = {}
    BY <1>8 DEF FinishPage
  <2> QED BY <1>1, <1>3, <1>4, <1>5, <1>6, <2>2, <2>3 DEF OwedPaid
<1>9. ASSUME NEW d \in Employees, CheckKey(r, d) \/ PayEmployee(r, d) \/ PayEmployeeFails(r, d)
      PROVE  OwedPaid(r, e)'
  <2>1. PICK todo, checked, failed :
          /\ Rest(r, todo, checked, failed)
          /\ e \in run[r].todo \cup run[r].checked /\ e \notin failed =>
               e \in todo \cup checked \/ HasPayout(e, run[r].period) \/ HasPayout(e, run[r].period)'
    <3>1. ASSUME CheckKey(r, d)
          PROVE  /\ Rest(r, run[r].todo \ {d}, IF payout[<<d, run[r].period>>].status = "none"
                         THEN run[r].checked \cup {d} ELSE run[r].checked, run[r].failed)
                 /\ d = e => HasPayout(e, run[r].period) \/ payout[<<d, run[r].period>>].status = "none"
      BY <3>1 DEF CheckKey, HasPayout
    <3>2. ASSUME PayEmployee(r, d)
          PROVE  /\ Rest(r, run[r].todo, run[r].checked \ {d}, run[r].failed)
                 /\ d = e => HasPayout(e, run[r].period) \/ HasPayout(e, run[r].period)'
      <4>1. ASSUME d = e, ~HasPayout(e, run[r].period) PROVE HasPayout(e, run[r].period)'
        <5>1. Salary[e] + payable[e] > 0 /\ MayInsert(<<e, run[r].period>>)
          BY <1>1, <4>1 DEF MayInsert, HasPayout
        <5>2. payout' = [payout EXCEPT ![<<e, run[r].period>>] = PayoutRow("PENDING", payable[e])]
          BY <3>2, <4>1, <5>1 DEF PayEmployee
        <5>3. payout'[<<e, run[r].period>>] = PayoutRow("PENDING", payable[e])
          BY <1>1, <1>3, <5>2 DEF PaidInv, PayTyped, Keys
        <5> QED BY <1>6, <5>3 DEF HasPayout, PayoutRow
      <4> QED BY <3>2, <4>1 DEF PayEmployee
    <3>3. ASSUME PayEmployeeFails(r, d)
          PROVE  Rest(r, run[r].todo, run[r].checked \ {d}, run[r].failed \cup {d})
      BY <3>3 DEF PayEmployeeFails
    <3> QED BY <1>9, <3>1, <3>2, <3>3
  <2>2. run'[r] = RunAt("pay", run[r].period, run[r].pages, run[r].page, todo, checked, failed, run[r].start)
    BY <1>1, <2>1 DEF Rest
  <2>3. /\ run'[r].step = "pay" /\ run'[r].page = run[r].page /\ run'[r].todo = todo /\ run'[r].checked = checked
        /\ run'[r].failed = failed
    BY <2>2 DEF RunAt
  <2>4. run[r].step = "pay"
    BY <1>9 DEF CheckKey, PayEmployee, PayEmployeeFails
  <2> QED BY <1>3, <1>4, <1>5, <1>6, <2>1, <2>3, <2>4 DEF OwedPaid
<1> QED BY <1>7, <1>8, <1>9

LEMMA RunsGoOnKept ==
  ASSUME PagesInv, [PayrollNext]_allPayrollVars, TypedInv', NEW r \in Runs,
         \/ LoadPage(r) \/ FinishPage(r)
         \/ \E d \in Employees : CheckKey(r, d) \/ PayEmployee(r, d) \/ PayEmployeeFails(r, d)
  PROVE  PagesInv'
<1>1. /\ RunGoesOn(run[r], run'[r]) /\ UNCHANGED staff
      /\ \A o \in Runs \ {r} : run'[o] = run[o]
  BY RunGoesOnFrom DEF PagesInv, TypedInv
<1>2. SettledStaff(r)'
  BY <1>1 DEF PagesInv, RunKept, SettledStaff, RunGoesOn
<1>3. ASSUME NEW e \in Owed(r)' PROVE OwedPaid(r, e)'
  <2>1. e \in Owed(r) /\ e \notin run'[r].failed
    BY <1>1 DEF Owed, RunGoesOn
  <2> QED BY <2>1, OwedStep
<1>4. ASSUME NEW o \in Runs \ {r} PROVE RunKept(o)'
  BY <1>1, OtherRunsKept
<1> QED BY <1>2, <1>3, <1>4 DEF PagesInv, RunKept

(* A run that starts owes every page; one that ends or crashes owes nothing *)
(* any more.                                                                *)
LEMMA RunBoundariesKept ==
  ASSUME PagesInv, [PayrollNext]_allPayrollVars, TypedInv', NEW r \in Runs,
         EndRun(r) \/ CrashRun(r) \/ \E m \in Periods : StartRun(r, m)
  PROVE  PagesInv'
<1>1. run \in [Runs -> Run] /\ staff \subseteq Employees /\ UNCHANGED staff
  BY DEF PagesInv, TypedInv, RunsTyped, EndRun, CrashRun, StartRun
<1>2. \A o \in Runs \ {r} : run'[o] = run[o]
  BY <1>1 DEF EndRun, CrashRun, StartRun
<1>3. RunKept(r)'
  <2>1. CASE EndRun(r) \/ CrashRun(r)
    <3>1. run'[r] = NoRun
      BY <1>1, <2>1 DEF EndRun, CrashRun
    <3>2. run'[r].step = "idle" /\ run'[r].start = {}
      BY <3>1 DEF NoRun, RunAt
    <3> QED BY <3>2 DEF RunKept, SettledStaff, Owed
  <2>2. ASSUME NEW m \in Periods, StartRun(r, m) PROVE RunKept(r)'
    <3>1. \/ run'[r] = RunAt("end", m, 0, 0, {}, {}, {}, {})
          \/ run'[r] = RunAt("load", m, (Cardinality(staff) + PageSize - 1) \div PageSize, 0, {}, {}, {}, staff)
      BY <1>1, <2>2 DEF StartRun
    <3>2. \/ run'[r].step = "end" /\ run'[r].start = {}
          \/ /\ run'[r].step = "load" /\ run'[r].start = staff /\ run'[r].page = 0
             /\ run'[r].pages = (Cardinality(staff) + PageSize - 1) \div PageSize
      BY <3>1 DEF RunAt
    <3>3. SettledStaff(r)'
      BY <1>1, <3>2 DEF SettledStaff
    <3>4. ASSUME NEW e \in Owed(r)' PROVE OwedPaid(r, e)'
      <4>1. run'[r].step = "load" /\ run'[r].page = 0 /\ e \in staff
        BY <3>2 DEF Owed
      <4>2. PageIndex(e) \in Nat /\ PageIndex(e)' = PageIndex(e)
        BY <1>1, <4>1, EveryoneHasPage DEF PageIndex, Before
      <4> QED BY <4>1, <4>2 DEF OwedPaid
    <3> QED BY <3>3, <3>4 DEF RunKept
  <2> QED BY <2>1, <2>2
<1>4. ASSUME NEW o \in Runs \ {r} PROVE RunKept(o)'
  BY <1>1, <1>2, OtherRunsKept
<1> QED BY <1>3, <1>4 DEF PagesInv

(* Somebody hired or removed: the runs under way owe nothing any more; what *)
(* the runs that are through have paid stays.                               *)
LEMMA StaffChangeKept ==
  ASSUME PagesInv, [PayrollNext]_allPayrollVars, TypedInv', NEW d \in Employees, ChangeStaff(d)
  PROVE  PagesInv'
<1> SUFFICES ASSUME NEW r \in Runs PROVE RunKept(r)'
  BY DEF PagesInv
<1>1. /\ run'[r] = IF run[r].step \in {"load", "pay"} THEN [run[r] EXCEPT !.start = {}] ELSE run[r]
      /\ UNCHANGED payout
  BY DEF ChangeStaff, Unsettled
<1>2. run[r] \in Run /\ RunKept(r)
  BY DEF PagesInv, TypedInv, RunsTyped
<1>3. CASE run[r].step \in {"load", "pay"}
  <2>1. run'[r].start = {} /\ run'[r].step = run[r].step
    BY <1>1, <1>2, <1>3 DEF Run
  <2> QED BY <2>1 DEF RunKept, SettledStaff, Owed
<1>4. CASE run[r].step \notin {"load", "pay"}
  <2>1. run'[r] = run[r]
    BY <1>1, <1>4
  <2> QED BY <1>1, <1>2, <1>4, <2>1 DEF RunKept, SettledStaff, Owed, OwedPaid, HasPayout
<1> QED BY <1>3, <1>4

LEMMA PagesStep == PagesInv /\ [PayrollNext]_allPayrollVars => PagesInv'
<1> SUFFICES ASSUME PagesInv, [PayrollNext]_allPayrollVars PROVE PagesInv'
  OBVIOUS
<1>1. TypedInv'
  BY PaidStep, RunsTypedStep DEF PagesInv, TypedInv
<1>2. ASSUME NEW d \in Employees, ChangeStaff(d) PROVE PagesInv'
  BY <1>1, <1>2, StaffChangeKept
<1>3. ASSUME NEW r \in Runs,
             \/ RunStep(r) \/ CrashRun(r) \/ \E m \in Periods : StartRun(r, m)
             \/ \E e \in Employees : PayEmployeeFails(r, e)
      PROVE  PagesInv'
  BY <1>1, <1>3, RunsGoOnKept, RunBoundariesKept DEF RunStep
<1>4. ASSUME UNCHANGED <<staff, run>> PROVE PagesInv'
  BY <1>1, <1>4, OtherRunsKept DEF PagesInv
<1>5. ASSUME NEW q \in Relays, RelayStep(q) PROVE UNCHANGED <<staff, run>>
  BY <1>5 DEF RelayStep, EndRelay, Refuse, Pay, CompletePayout, FailPayout, payrollVars
<1>6. ASSUME \/ \E e \in Employees : Earn(e)
             \/ \E q \in Relays : StartRelay(q) \/ CrashRelay(q)
             \/ \E q \in Relays, k \in Keys : PayUnanswered(q, k) \/ SettleFails(q, k)
             \/ \E r \in Resources : LockExpires(r)
             \/ UNCHANGED allPayrollVars
      PROVE  UNCHANGED <<staff, run>>
  BY <1>6 DEF Earn, StartRelay, CrashRelay, PayUnanswered, SettleFails, LockExpires, allPayrollVars, payrollVars
<1> QED BY PayrollAssumption, <1>2, <1>3, <1>4, <1>5, <1>6 DEF PayrollNext

LEMMA PagesInitially == PayrollInit => PagesInv
<1> SUFFICES ASSUME PayrollInit PROVE PagesInv
  OBVIOUS
<1>1. \A r \in Runs : run[r].step = "idle" /\ run[r].start = {}
  BY DEF PayrollInit, NoRun, RunAt
<1> QED BY <1>1, PaidInitially, RunsTypedInitially DEF PagesInv, TypedInv, RunKept, SettledStaff, Owed

LEMMA PagesSuffice == PagesInv => NobodySkipped
BY DEF PagesInv, RunKept, Owed, OwedPaid, HasPayout, NobodySkipped

(* For any staff and page size: a run that reaches its end has a payout for *)
(* everyone it started with whose own transaction did not fail, whichever   *)
(* pages failed and whatever other runs, relays and crashes did, unless     *)
(* somebody was hired or removed meanwhile.                                 *)
THEOREM EveryoneIsPaid == PayrollSpec => []NobodySkipped
BY PagesInitially, PagesSuffice, PagesStep, PTL DEF PayrollSpec
------------------------------------------------------------------------------
(* All jobs at once. *)

JobsVars == <<lockVars, payrollVars, watchVars, recurringVars>>

JobsInit == PayrollInit /\ WatchInit /\ RecurringInit

JobsNext ==
  \/ PayrollNext /\ UNCHANGED <<watchVars, recurringVars>>
  \/ WatchNext /\ UNCHANGED recurringVars
  \/ RecurringNext /\ UNCHANGED <<payrollVars, watchVars>>

JobsSpec == JobsInit /\ [][JobsNext]_JobsVars
----------------------------------------------------------------------------
(* Every job is inside its own lock only. *)
Places ==
  /\ \A q \in Relays : holding[q] \in {Nothing, RelayLock}
  /\ \A r \in Runs : holding[r] \in {Nothing, RunLock}
  /\ \A w \in Watchers : holding[w] \in {Nothing, LockOf(w)}
  /\ \A t \in Ticks : holding[t] \in {Nothing, RecurringLock}

----------------------------------------------------------------------------
(* The jobs that watch.  A report that money has left the account is right  *)
(* about its reason, kept or told.                                          *)
Reports == [payout : Keys, status : {"COMPLETED", "FAILED"},
            row : {"none", "PENDING", "COMPLETED", "FAILED"}, relayed : BOOLEAN, faulty : BOOLEAN]
Justified(r) == /\ r.row = "PENDING" => r.relayed \/ r.faulty
                /\ r.row = "FAILED" => r.faulty
                /\ r.row # "none"

WatchKind == [todo : SUBSET Keys, found : SUBSET Reports, told : SUBSET Keys,
              owed : SUBSET Keys, missed : SUBSET Keys]
WatchTyped == age \in [Keys -> 0..2] /\ watch \in [Watchers -> WatchKind]

Named(reports) == {r.payout : r \in reports}

(* What a job has yet to ask for exists, what it owes was paid, and what it *)
(* owes and has not told of, nor given up, is still before it.              *)
WatchKeeps(a) ==
  /\ \A k \in a.todo : payout[k].status # "none"
  /\ \A k \in a.owed : bank[k] > 0
  /\ a.owed \subseteq a.todo \cup a.told \cup a.missed \cup Named(a.found)
  /\ \A r \in a.found : r.status = "COMPLETED" => Justified(r)

WatchInv == /\ WatchTyped
            /\ \A w \in Watchers : WatchKeeps(watch[w])
            /\ \A r \in alarms : Justified(r)

----------------------------------------------------------------------------
(* The recurring transactions. *)
TickKind == [copy : [Items -> ItemRow], due : SUBSET Items, done : SUBSET Items]

RecurringTyped ==
  /\ today \in 0..Horizon
  /\ item \in [Items -> ItemRow]
  /\ posted \in [Items -> [0..Horizon -> Nat]]
  /\ tick \in [Ticks -> TickKind]
  /\ \A t \in Ticks : tick[t].done \subseteq tick[t].due
  /\ DOMAIN editor = Editors
  /\ \A u \in Editors : editor[u].status # "none" =>
        /\ editor[u].item \in Items
        /\ editor[u].read \in ItemRow /\ editor[u].read.status # "removed"
        /\ editor[u].status \in Edits
  /\ slip = [kinds |-> slip.kinds, count |-> slip.count]
  /\ slip.count \in Nat

TicksHold == /\ \A t \in Ticks : tick[t].due # {} => holding[t] = RecurringLock
             /\ "overrun" \notin slip.kinds => overrun \cap Ticks = {}

(* What was posted of i fits a schedule that goes on at next after so many  *)
(* runs: no date twice, none from there on, and no more than these.         *)
Reopened == "reopened" \in slip.kinds
Once(i) == \A d \in 0..Horizon : posted[i][d] <= 1
Within(i) == Reopened \/ SumFunction(posted[i]) <= MaxOccurrences[i]
Fits(i, next, runs) ==
  /\ Once(i) /\ \A d \in 0..Horizon : d >= next => posted[i][d] = 0
  /\ Reopened \/ (SumFunction(posted[i]) <= runs /\ runs <= MaxOccurrences[i])

(* An item no job has in hand is at the end of what was posted.             *)
AtItsEnd(i) ==
  item[i].status # "removed" =>
    /\ Fits(i, item[i].next, item[i].runs)
    /\ item[i].status = "ACTIVE" => Reopened \/ item[i].runs < MaxOccurrences[i]

(* An item in hand is what the job has read, or what an edit made of it,    *)
(* with the same schedule.                                                  *)
Underway(t, i) ==
  LET c == tick[t].copy[i] IN
  /\ c.status = "ACTIVE" /\ c.next <= today
  /\ Reopened \/ c.runs < MaxOccurrences[i]
  /\ IF i \in tick[t].done THEN Fits(i, c.next + 1, c.runs + 1) ELSE Fits(i, c.next, c.runs)
  /\ item[i].status # "removed" => item[i].next = c.next /\ item[i].runs = c.runs

InHandOf(i) == {t \in Ticks : i \in tick[t].due}

Regular == slip.kinds \cap {"crash", "overrun", "staleEdit"} = {}

ItemHolds(i) == /\ Once(i) /\ Within(i)
                /\ InHandOf(i) = {} => AtItsEnd(i)
                /\ \A t \in InHandOf(i) : Underway(t, i)

RecurringInv == /\ RecurringTyped /\ TicksHold
                /\ Regular => \A i \in Items : ItemHolds(i)

----------------------------------------------------------------------------
(* What the watching jobs and the recurring ticks do to the lock. *)
WatchLock ==
  \/ \E w \in Watchers : Acquire(w, LockOf(w)) \/ Release(w) \/ Abandon(w)
  \/ \E r \in {NightlyLock, MonitorLock} : Expire(r)
  \/ UNCHANGED lockVars
TickLock ==
  \/ \E t \in Ticks : Acquire(t, RecurringLock) \/ Release(t) \/ Abandon(t)
  \/ Expire(RecurringLock)
  \/ UNCHANGED lockVars
OthersLock == WatchLock \/ TickLock

LEMMA WatchLocks == ASSUME WatchNext PROVE WatchLock /\ UNCHANGED payrollVars
<1>1. ASSUME NEW k \in Keys, TimePasses(k) PROVE WatchLock /\ UNCHANGED payrollVars
  BY <1>1 DEF TimePasses, allPayrollVars, WatchLock, lockVars
<1>2. ASSUME NEW w \in Watchers, StartWatch(w) \/ EndWatch(w) \/ CrashWatch(w)
      PROVE  WatchLock /\ UNCHANGED payrollVars
  BY <1>2 DEF StartWatch, EndWatch, CrashWatch, WatchLock
<1>3. ASSUME NEW w \in Watchers, NEW k \in Keys, Ask(w, k) \/ AskFails(w, k)
      PROVE  WatchLock /\ UNCHANGED payrollVars
  BY <1>3 DEF Ask, AskFails, allPayrollVars, WatchLock, lockVars
<1>4. ASSUME NEW w \in Watchers, NEW r \in watch[w].found, FileTicket(w, r) \/ TicketFails(w, r)
      PROVE  WatchLock /\ UNCHANGED payrollVars
  BY <1>4 DEF FileTicket, TicketFails, allPayrollVars, WatchLock, lockVars
<1>5. ASSUME WatchLockExpires PROVE WatchLock /\ UNCHANGED payrollVars
  BY <1>5 DEF WatchLockExpires, WatchLock
<1> QED BY <1>1, <1>2, <1>3, <1>4, <1>5 DEF WatchNext, WatchStep

LEMMA RecurringLocks == ASSUME RecurringNext PROVE TickLock
<1>1. ASSUME Midnight PROVE TickLock
  BY <1>1 DEF Midnight, TickLock, lockVars
<1>2. ASSUME NEW t \in Ticks, StartTick(t) \/ EndTick(t) \/ CrashTick(t) PROVE TickLock
  BY <1>2 DEF StartTick, EndTick, CrashTick, TickLock
<1>3. ASSUME NEW t \in Ticks, NEW i \in Items,
             PostDue(t, i) \/ SaveDue(t, i) \/ PostFails(t, i) \/ SaveFails(t, i)
      PROVE  TickLock
  BY <1>3 DEF PostDue, SaveDue, PostFails, SaveFails, TickLock, lockVars
<1>4. ASSUME NEW u \in Editors, NEW i \in Items, NEW status \in Edits, BeginEdit(u, i, status)
      PROVE  TickLock
  BY <1>4 DEF BeginEdit, TickLock, lockVars
<1>5. ASSUME NEW u \in Editors, SaveEdit(u) PROVE TickLock
  BY <1>5 DEF SaveEdit, TickLock, lockVars
<1>6. ASSUME TickLockExpires(RecurringLock) PROVE TickLock
  BY <1>6 DEF TickLockExpires, TickLock
<1> QED BY <1>1, <1>2, <1>3, <1>4, <1>5, <1>6 DEF RecurringNext

(* The members of the three modules, and their locks. *)
LEMMA Apart ==
  /\ Watchers \subseteq Jobs /\ Ticks \subseteq Jobs
  /\ Watchers \cap (Runs \cup Relays) = {} /\ Ticks \cap (Runs \cup Relays \cup Watchers) = {}
  /\ {NightlyLock, MonitorLock, RecurringLock} \subseteq Resources \ {RunLock, RelayLock}
  /\ \A w \in Watchers : LockOf(w) \in {NightlyLock, MonitorLock}
  /\ RecurringLock \notin {NightlyLock, MonitorLock}
  /\ \A r \in Resources : r # Nothing
BY WatchAssumption, RecurringAssumption, ApartAssumption, JobsAssumption DEF Watchers, LockOf

LEMMA OthersAreLockSteps == ASSUME OthersLock PROVE LockStep
BY Apart DEF OthersLock, WatchLock, TickLock, LockStep

(* What the payroll does to the lock. *)
PayrollLock ==
  \/ \E r \in Runs : Acquire(r, RunLock) \/ Release(r) \/ Abandon(r)
  \/ \E q \in Relays : Acquire(q, RelayLock) \/ Release(q) \/ Abandon(q)
  \/ \E r \in {RunLock, RelayLock} : Expire(r)
  \/ UNCHANGED lockVars

LEMMA PayrollLocks == ASSUME PayrollNext PROVE PayrollLock
<1>1. ASSUME NEW e \in Employees, Earn(e) \/ ChangeStaff(e) PROVE PayrollLock
  BY <1>1 DEF Earn, ChangeStaff, PayrollLock, lockVars
<1>2. ASSUME NEW r \in Runs, NEW m \in Periods, StartRun(r, m) PROVE PayrollLock
  BY <1>2 DEF StartRun, PayrollLock, lockVars
<1>3. ASSUME NEW r \in Runs, RunStep(r) \/ CrashRun(r) PROVE PayrollLock
  <2>1. ASSUME LoadPage(r) \/ FinishPage(r) PROVE PayrollLock
    BY <2>1 DEF LoadPage, FinishPage, PayrollLock, lockVars
  <2>2. ASSUME EndRun(r) \/ CrashRun(r) PROVE PayrollLock
    BY <2>2 DEF EndRun, CrashRun, PayrollLock, lockVars
  <2>3. ASSUME NEW e \in Employees, CheckKey(r, e) \/ PayEmployee(r, e) PROVE PayrollLock
    BY <2>3 DEF CheckKey, PayEmployee, PayrollLock, lockVars
  <2> QED BY <1>3, <2>1, <2>2, <2>3 DEF RunStep
<1>4. ASSUME NEW r \in Runs, NEW e \in Employees, PayEmployeeFails(r, e) PROVE PayrollLock
  BY <1>4 DEF PayEmployeeFails, PayrollLock, lockVars
<1>5. ASSUME NEW q \in Relays, StartRelay(q) \/ EndRelay(q) \/ CrashRelay(q) PROVE PayrollLock
  BY <1>5 DEF StartRelay, EndRelay, CrashRelay, PayrollLock
<1>6. ASSUME NEW q \in Relays, NEW k \in Keys,
             \/ Refuse(q, k) \/ Pay(q, k) \/ CompletePayout(q, k) \/ FailPayout(q, k)
             \/ PayUnanswered(q, k) \/ SettleFails(q, k)
      PROVE  PayrollLock
  BY <1>6 DEF Refuse, Pay, CompletePayout, FailPayout, PayUnanswered, SettleFails, PayrollLock, lockVars
<1>7. ASSUME NEW r \in {RunLock, RelayLock}, LockExpires(r) PROVE PayrollLock
  BY <1>7 DEF LockExpires, PayrollLock
<1> QED BY <1>1, <1>2, <1>3, <1>4, <1>5, <1>6, <1>7 DEF PayrollNext, RelayStep

LEMMA PlacesKept ==
  ASSUME LockTypeOK, Places, PayrollLock \/ OthersLock
  PROVE  Places'
<1> USE PayrollAssumption, Apart
<1>1. ASSUME UNCHANGED holding PROVE Places'
  BY <1>1 DEF Places, LockOf
<1>2. ASSUME NEW j \in Jobs, NEW to, holding' = [holding EXCEPT ![j] = to],
             \/ to = Nothing
             \/ j \in Runs /\ to = RunLock
             \/ j \in Relays /\ to = RelayLock
             \/ j \in Watchers /\ to = LockOf(j)
             \/ j \in Ticks /\ to = RecurringLock
      PROVE  Places'
  <2>1. holding'[j] = to /\ \A i \in Jobs : i # j => holding'[i] = holding[i]
    BY <1>2 DEF LockTypeOK
  <2> QED BY <1>2, <2>1 DEF Places, LockOf
<1>3. ASSUME NEW j \in Jobs, Release(j) \/ Abandon(j) PROVE Places'
  BY <1>2, <1>3 DEF Release, Abandon
<1>4. ASSUME NEW r \in Runs, Acquire(r, RunLock) PROVE Places'
  BY <1>2, <1>4 DEF Acquire
<1>5. ASSUME NEW q \in Relays, Acquire(q, RelayLock) PROVE Places'
  BY <1>2, <1>5 DEF Acquire
<1>6. ASSUME NEW w \in Watchers, Acquire(w, LockOf(w)) PROVE Places'
  BY <1>2, <1>6 DEF Acquire
<1>7. ASSUME NEW t \in Ticks, Acquire(t, RecurringLock) PROVE Places'
  BY <1>2, <1>7 DEF Acquire
<1>8. ASSUME NEW r, Expire(r) PROVE Places'
  BY <1>1, <1>8 DEF Expire
<1>9. ASSUME UNCHANGED lockVars PROVE Places'
  BY <1>1, <1>9 DEF lockVars
<1> QED BY <1>3, <1>4, <1>5, <1>6, <1>7, <1>8, <1>9 DEF PayrollLock, OthersLock, WatchLock, TickLock

(* Beside the payroll: its invariant asks of the lock only what its own     *)
(* relays do.                                                               *)
LEMMA BesidePayroll ==
  ASSUME TypedInv, Places, LockInv', OthersLock, UNCHANGED payrollVars
  PROVE  TypedInv'
<1>1. RunsTyped' /\ UNCHANGED <<payout, bank, relay, payable, faults>>
  BY DEF payrollVars, TypedInv, RunsTyped
<1>2. LockTypeOK
  BY DEF TypedInv, PaidInv, LockInv
<1>3. \A q \in Relays : holding'[q] = holding[q]
  BY <1>2, Apart, PayrollAssumption DEF OthersLock, WatchLock, TickLock, Acquire, Release, Abandon, Expire, lockVars, LockTypeOK
<1>4. overrun' \cap Relays \subseteq overrun
  <2>1. ASSUME NEW r \in {NightlyLock, MonitorLock, RecurringLock}, Expire(r)
        PROVE  overrun' \cap Relays \subseteq overrun
    BY <2>1, Apart, PayrollAssumption DEF Expire, Holders, Places
  <2> QED BY <2>1 DEF OthersLock, WatchLock, TickLock, Acquire, Release, Abandon, lockVars
<1>5. PaidInv /\ payable' \in [Employees -> Nat] /\ faults' \in Nat /\ faults' >= faults
  BY <1>1 DEF TypedInv, PaidInv, PayTyped
<1> QED BY <1>1, <1>3, <1>4, <1>5, BesideTheBooks DEF TypedInv
----------------------------------------------------------------------------
(* The gateway takes no transfer back. *)
LEMMA BankGrows ==
  ASSUME PaidInv, PayrollNext, NEW k \in Keys, bank[k] > 0
  PROVE  bank'[k] > 0
<1>1. ASSUME NEW q \in Relays, NEW j \in Keys, Pay(q, j) \/ PayUnanswered(q, j) PROVE bank'[k] > 0
  BY <1>1 DEF Pay, PayUnanswered, PaidInv, PayTyped
<1>2. ASSUME UNCHANGED bank PROVE bank'[k] > 0
  BY <1>2
<1>3. ASSUME NEW r \in Runs, RunStep(r) PROVE UNCHANGED bank
  BY <1>3 DEF RunStep, LoadPage, FinishPage, EndRun, CheckKey, PayEmployee
<1>4. ASSUME NEW q \in Relays, RelayStep(q), ~\E j \in Keys : Pay(q, j) PROVE UNCHANGED bank
  BY <1>4 DEF RelayStep, EndRelay, Refuse, CompletePayout, FailPayout, payrollVars
<1>5. ASSUME \/ \E e \in Employees : Earn(e) \/ ChangeStaff(e)
             \/ \E r \in Runs, m \in Periods : StartRun(r, m)
             \/ \E r \in Runs : CrashRun(r)
             \/ \E r \in Runs, e \in Employees : PayEmployeeFails(r, e)
             \/ \E q \in Relays : StartRelay(q) \/ CrashRelay(q)
             \/ \E q \in Relays, j \in Keys : SettleFails(q, j)
             \/ \E r \in {RunLock, RelayLock} : LockExpires(r)
      PROVE  UNCHANGED bank
  BY <1>5 DEF Earn, ChangeStaff, StartRun, CrashRun, PayEmployeeFails, StartRelay, CrashRelay,
              SettleFails, LockExpires
<1> QED BY <1>1, <1>2, <1>3, <1>4, <1>5 DEF PayrollNext

(* The payroll goes on under the jobs that watch it. *)
LEMMA WatchUnderPayroll ==
  ASSUME WatchInv, TypedInv, PayrollNext, UNCHANGED watchVars
  PROVE  WatchInv'
<1>1. PaidInv /\ [PayrollNext]_allPayrollVars
  BY DEF TypedInv
<1>2. \A k \in Keys : /\ payout[k].status # "none" => payout'[k].status # "none"
                      /\ bank[k] > 0 => bank'[k] > 0
  BY <1>1, PayoutsStay, BankGrows
<1>3. UNCHANGED <<age, watch, alarms>>
  BY DEF watchVars
<1>4. ASSUME NEW w \in Watchers PROVE WatchKeeps(watch[w])'
  <2>1. watch[w] \in WatchKind /\ WatchKeeps(watch[w])
    BY DEF WatchInv, WatchTyped
  <2>2. watch[w].todo \subseteq Keys /\ watch[w].owed \subseteq Keys
    BY <2>1 DEF WatchKind
  <2> QED BY <1>2, <1>3, <2>1, <2>2 DEF WatchKeeps, Justified, Named
<1> QED BY <1>3, <1>4 DEF WatchInv, WatchTyped, Justified

LEMMA WatchBesides ==
  ASSUME WatchInv, UNCHANGED <<payrollVars, watchVars>>
  PROVE  WatchInv'
<1>1. UNCHANGED <<payout, bank, age, watch, alarms>>
  BY DEF payrollVars, watchVars
<1> QED BY <1>1 DEF WatchInv, WatchTyped, WatchKeeps, Justified, Named

(* One job that watches goes on. *)
LEMMA WatchMoves ==
  ASSUME WatchInv, NEW w \in Watchers, NEW new \in WatchKind, WatchKeeps(new),
         watch' = [watch EXCEPT ![w] = new], UNCHANGED <<payout, bank, age>>,
         \A r \in alarms' : Justified(r)
  PROVE  WatchInv'
<1>1. watch' \in [Watchers -> WatchKind]
  BY DEF WatchInv, WatchTyped
<1>2. ASSUME NEW v \in Watchers PROVE WatchKeeps(watch[v])'
  <2>1. watch'[v] = IF v = w THEN new ELSE watch[v]
    BY DEF WatchInv, WatchTyped
  <2>2. WatchKeeps(watch'[v])
    BY <2>1 DEF WatchInv
  <2> QED BY <2>2 DEF WatchKeeps, Justified, Named
<1> QED BY <1>1, <1>2 DEF WatchInv, WatchTyped, Justified

LEMMA WatchFields ==
  ASSUME WatchInv, NEW w \in Watchers
  PROVE  /\ watch[w] = WatchAt(watch[w].todo, watch[w].found, watch[w].told, watch[w].owed, watch[w].missed)
         /\ watch[w].todo \subseteq Keys /\ watch[w].found \subseteq Reports /\ watch[w].told \subseteq Keys
         /\ watch[w].owed \subseteq Keys /\ watch[w].missed \subseteq Keys
         /\ WatchKeeps(watch[w]) /\ watch[w] \in WatchKind
<1>1. watch[w] \in WatchKind /\ WatchKeeps(watch[w])
  BY DEF WatchInv, WatchTyped
<1> QED BY <1>1 DEF WatchKind, WatchAt

LEMMA WatchAtFields ==
  ASSUME NEW todo \in SUBSET Keys, NEW found \in SUBSET Reports, NEW told \in SUBSET Keys,
         NEW owed \in SUBSET Keys, NEW missed \in SUBSET Keys
  PROVE  /\ WatchAt(todo, found, told, owed, missed) \in WatchKind
         /\ WatchAt(todo, found, told, owed, missed).todo = todo
         /\ WatchAt(todo, found, told, owed, missed).found = found
         /\ WatchAt(todo, found, told, owed, missed).told = told
         /\ WatchAt(todo, found, told, owed, missed).owed = owed
         /\ WatchAt(todo, found, told, owed, missed).missed = missed
BY DEF WatchAt, WatchKind

(* A job begins with payouts that are PENDING, or with none. *)
LEMMA StartWatchKeeps ==
  ASSUME WatchInv, NEW w \in Watchers, StartWatch(w)
  PROVE  WatchInv'
<1>1. PICK list \in Lists(w) :
         watch' = [watch EXCEPT ![w] = WatchAt(list, {}, {}, {k \in list : bank[k] > 0}, {})]
  BY DEF StartWatch
<1>2. list \subseteq Pending /\ Pending \subseteq Keys
  BY <1>1 DEF Lists, Stale, Stuck, Pending
<1>3. PICK owed : owed = {k \in list : bank[k] > 0}
  OBVIOUS
<1>4. PICK new : new = WatchAt(list, {}, {}, owed, {})
  OBVIOUS
<1>5. /\ new \in WatchKind
      /\ new.todo = list /\ new.found = {} /\ new.told = {} /\ new.owed = owed /\ new.missed = {}
  BY <1>2, <1>3, <1>4, WatchAtFields
<1>6. WatchKeeps(new)
  BY <1>2, <1>3, <1>5 DEF WatchKeeps, Pending, Named
<1>7. watch' = [watch EXCEPT ![w] = new] /\ UNCHANGED <<payout, bank, age, alarms>>
  BY <1>1, <1>3, <1>4 DEF StartWatch, payrollVars
<1> QED BY <1>5, <1>6, <1>7, WatchMoves DEF WatchInv

LEMMA EndWatchKeeps ==
  ASSUME WatchInv, NEW w \in Watchers, EndWatch(w) \/ CrashWatch(w)
  PROVE  WatchInv'
<1>1. watch' = [watch EXCEPT ![w] = NoWatch] /\ UNCHANGED <<payout, bank, age, alarms>>
  BY DEF EndWatch, CrashWatch, payrollVars
<1>2. NoWatch \in WatchKind /\ WatchKeeps(NoWatch)
  BY DEF NoWatch, WatchAt, WatchKind, WatchKeeps, Named
<1> QED BY <1>1, <1>2, WatchMoves DEF WatchInv

(* The gateway says COMPLETED of a payout it has paid only; the books then  *)
(* say why it may still be PENDING here.                                    *)
LEMMA ReportsJustified ==
  ASSUME TypedInv, NEW k \in Keys, payout[k].status # "none",
         NEW status \in GatewayStatus(k), Mismatch(status)
  PROVE  /\ Report(k, status) \in Reports
         /\ Report(k, status).payout = k
         /\ Report(k, status).status = "COMPLETED" => Justified(Report(k, status))
<1>1. payout[k].status \in {"none", "PENDING", "COMPLETED", "FAILED"} /\ status \in {"COMPLETED", "FAILED"}
  BY DEF TypedInv, PaidInv, PayTyped, Payout, Mismatch
<1>2. PICK report : report = Report(k, status)
  OBVIOUS
<1>3. /\ report.payout = k /\ report.status = status /\ report.row = payout[k].status
      /\ report.relayed = (\E q \in Relays : k \in relay[q].paid) /\ report.faulty = (faults > 0)
      /\ report \in Reports
  BY <1>1, <1>2 DEF Report, Reports
<1>4. ASSUME status = "COMPLETED" PROVE Justified(report)
  <2>1. bank[k] > 0
    BY <1>4 DEF GatewayStatus
  <2>2. faults \in Nat /\ bank[k] \in Nat /\ (~(faults > 0) => faults = 0)
    BY DEF TypedInv, PaidInv, PayTyped
  <2>3. faults = 0 => /\ payout[k].status = "FAILED" => bank[k] = 0
                      /\ payout[k].status = "PENDING" /\ bank[k] > 0 => \E q \in Relays : k \in relay[q].paid
    BY DEF TypedInv, PaidInv, CleanBooks
  <2>4. faults > 0 \/ (payout[k].status # "FAILED"
                         /\ (payout[k].status = "PENDING" => \E q \in Relays : k \in relay[q].paid))
    BY <2>1, <2>2, <2>3
  <2> QED BY <1>3, <2>4 DEF Justified
<1> QED BY <1>2, <1>3, <1>4

LEMMA AskKeeps ==
  ASSUME WatchInv, TypedInv, NEW w \in Watchers, NEW k \in Keys, Ask(w, k)
  PROVE  WatchInv'
<1>1. PICK status, reports :
         /\ status \in GatewayStatus(k)
         /\ reports = IF Mismatch(status) THEN {Report(k, status)} ELSE {}
         /\ IF w \in Nightly
            THEN /\ watch' = [watch EXCEPT ![w].todo = @ \ {k}, ![w].found = @ \cup reports]
                 /\ UNCHANGED alarms
            ELSE /\ watch' = [watch EXCEPT ![w].todo = @ \ {k}, ![w].told = @ \cup {r.payout : r \in reports}]
                 /\ Raised(reports)
  BY DEF Ask
<1>2. k \in watch[w].todo /\ UNCHANGED <<payout, bank, age>>
  BY DEF Ask, allPayrollVars, payrollVars
<1>3. PICK todo, found, told, owed, missed :
         /\ todo = watch[w].todo /\ found = watch[w].found /\ told = watch[w].told
         /\ owed = watch[w].owed /\ missed = watch[w].missed
  OBVIOUS
<1>4. /\ watch[w] = WatchAt(todo, found, told, owed, missed)
      /\ todo \subseteq Keys /\ found \subseteq Reports /\ told \subseteq Keys
      /\ owed \subseteq Keys /\ missed \subseteq Keys
      /\ WatchKeeps(watch[w])
  BY <1>3, WatchFields
<1>5. payout[k].status # "none"
  BY <1>2, <1>4 DEF WatchKeeps
<1>6. /\ reports \subseteq Reports
      /\ \A r \in reports : r.payout = k /\ (r.status = "COMPLETED" => Justified(r))
      /\ bank[k] > 0 => \E r \in reports : r.payout = k
  <2>1. bank[k] > 0 => Mismatch(status)
    BY <1>1 DEF GatewayStatus, Mismatch
  <2> QED BY <1>1, <1>5, <2>1, ReportsJustified
<1>7. k \in owed => bank[k] > 0
  BY <1>3, <1>4 DEF WatchKeeps
<1>8. CASE w \in Nightly
  <2>1. PICK new : new = WatchAt(todo \ {k}, found \cup reports, told, owed, missed)
    OBVIOUS
  <2>2. /\ new \in WatchKind
        /\ new.todo = todo \ {k} /\ new.found = found \cup reports /\ new.told = told
        /\ new.owed = owed /\ new.missed = missed
    BY <1>4, <1>6, <2>1, WatchAtFields
  <2>3. watch' = [watch EXCEPT ![w] = new] /\ UNCHANGED alarms
    BY <1>1, <1>4, <1>8, <2>1 DEF WatchInv, WatchTyped, WatchKind, WatchAt
  <2>4. WatchKeeps(new)
    <3>1. owed \subseteq todo \cup told \cup missed \cup Named(found)
      BY <1>3, <1>4 DEF WatchKeeps
    <3>2. k \in owed => k \in Named(found \cup reports)
      BY <1>6, <1>7 DEF Named
    <3>3. Named(found) \subseteq Named(found \cup reports)
      BY DEF Named
    <3> QED BY <1>3, <1>4, <1>6, <2>2, <3>1, <3>2, <3>3 DEF WatchKeeps
  <2> QED BY <1>2, <2>2, <2>3, <2>4, WatchMoves DEF WatchInv
<1>9. CASE w \notin Nightly
  <2>1. PICK tell : tell = {r.payout : r \in reports}
    OBVIOUS
  <2>2. tell \subseteq Keys /\ (bank[k] > 0 => k \in tell)
    BY <1>2, <1>6, <2>1
  <2>3. PICK new : new = WatchAt(todo \ {k}, found, told \cup tell, owed, missed)
    OBVIOUS
  <2>4. /\ new \in WatchKind
        /\ new.todo = todo \ {k} /\ new.found = found /\ new.told = told \cup tell
        /\ new.owed = owed /\ new.missed = missed
    BY <1>4, <2>2, <2>3, WatchAtFields
  <2>5. watch' = [watch EXCEPT ![w] = new]
    BY <1>1, <1>4, <1>9, <2>1, <2>3 DEF WatchInv, WatchTyped, WatchKind, WatchAt
  <2>6. WatchKeeps(new)
    <3>1. owed \subseteq todo \cup told \cup missed \cup Named(found)
      BY <1>3, <1>4 DEF WatchKeeps
    <3> QED BY <1>3, <1>4, <1>7, <2>2, <2>4, <3>1 DEF WatchKeeps
  <2>7. \A r \in alarms' : Justified(r)
    BY <1>1, <1>6, <1>9 DEF Raised
  <2> QED BY <1>2, <2>4, <2>5, <2>6, <2>7, WatchMoves
<1> QED BY <1>8, <1>9

LEMMA AskFailsKeeps ==
  ASSUME WatchInv, NEW w \in Watchers, NEW k \in Keys, AskFails(w, k)
  PROVE  WatchInv'
<1>1. /\ k \in watch[w].todo /\ UNCHANGED <<payout, bank, age, alarms>>
      /\ watch' = [watch EXCEPT ![w].todo = @ \ {k}, ![w].missed = @ \cup {k}]
  BY DEF AskFails, allPayrollVars, payrollVars
<1>2. PICK todo, found, told, owed, missed :
         /\ todo = watch[w].todo /\ found = watch[w].found /\ told = watch[w].told
         /\ owed = watch[w].owed /\ missed = watch[w].missed
  OBVIOUS
<1>3. /\ watch[w] = WatchAt(todo, found, told, owed, missed)
      /\ todo \subseteq Keys /\ found \subseteq Reports /\ told \subseteq Keys
      /\ owed \subseteq Keys /\ missed \subseteq Keys
      /\ WatchKeeps(watch[w])
  BY <1>2, WatchFields
<1>4. PICK new : new = WatchAt(todo \ {k}, found, told, owed, missed \cup {k})
  OBVIOUS
<1>5. /\ new \in WatchKind
      /\ new.todo = todo \ {k} /\ new.found = found /\ new.told = told
      /\ new.owed = owed /\ new.missed = missed \cup {k}
  BY <1>3, <1>4, WatchAtFields
<1>6. watch' = [watch EXCEPT ![w] = new]
  <2> USE <1>1, <1>3 DEF WatchInv, WatchTyped, WatchKind, WatchAt
  <2>1. watch'[w].todo = todo \ {k} /\ watch'[w].missed = missed \cup {k}
    OBVIOUS
  <2>2. watch'[w].found = found /\ watch'[w].told = told /\ watch'[w].owed = owed
    OBVIOUS
  <2>3. watch' \in [Watchers -> WatchKind]
    OBVIOUS
  <2>4. watch'[w] = new
    BY <2>1, <2>2, <2>3, <1>4
  <2>5. watch' = [watch EXCEPT ![w] = watch'[w]]
    OBVIOUS
  <2> QED BY <2>4, <2>5
<1>7. WatchKeeps(new)
  BY <1>2, <1>3, <1>5 DEF WatchKeeps
<1> QED BY <1>1, <1>5, <1>6, <1>7, WatchMoves DEF WatchInv

LEMMA TicketKeeps ==
  ASSUME WatchInv, NEW w \in Watchers, NEW r \in watch[w].found, FileTicket(w, r) \/ TicketFails(w, r)
  PROVE  WatchInv'
<1>1. UNCHANGED <<payout, bank, age>> /\ r \in Reports /\ r.payout \in Keys
  BY WatchFields DEF FileTicket, TicketFails, allPayrollVars, payrollVars, Reports
<1>2. r.status = "COMPLETED" => Justified(r)
  BY WatchFields DEF WatchKeeps
<1>3. \A j \in alarms' : Justified(j)
  BY <1>2 DEF FileTicket, TicketFails, Raised, WatchInv
<1>4. PICK todo, found, told, owed, missed :
         /\ todo = watch[w].todo /\ found = watch[w].found /\ told = watch[w].told
         /\ owed = watch[w].owed /\ missed = watch[w].missed
  OBVIOUS
<1>5. /\ watch[w] = WatchAt(todo, found, told, owed, missed)
      /\ todo \subseteq Keys /\ found \subseteq Reports /\ told \subseteq Keys
      /\ owed \subseteq Keys /\ missed \subseteq Keys
      /\ WatchKeeps(watch[w])
  BY <1>4, WatchFields
<1>6. PICK heard, lost :
         /\ heard = IF FileTicket(w, r) THEN told \cup {r.payout} ELSE told
         /\ lost = IF FileTicket(w, r) THEN missed ELSE missed \cup {r.payout}
  OBVIOUS
<1>7. /\ heard \subseteq Keys /\ lost \subseteq Keys
      /\ told \cup missed \cup {r.payout} \subseteq heard \cup lost
  BY <1>1, <1>5, <1>6
<1>8. PICK new : new = WatchAt(todo, found \ {r}, heard, owed, lost)
  OBVIOUS
<1>9. /\ new \in WatchKind
      /\ new.todo = todo /\ new.found = found \ {r} /\ new.told = heard
      /\ new.owed = owed /\ new.missed = lost
  BY <1>5, <1>7, <1>8, WatchAtFields
<1>10. watch' = [watch EXCEPT ![w] = new]
  <2>1. CASE FileTicket(w, r)
    <3>1. watch' = [watch EXCEPT ![w].found = @ \ {r}, ![w].told = @ \cup {r.payout}]
      BY <2>1 DEF FileTicket
    <3>2. new = WatchAt(todo, found \ {r}, told \cup {r.payout}, owed, missed)
      BY <1>6, <1>8, <2>1
    <3> USE <1>1, <1>5, <3>1 DEF WatchInv, WatchTyped, WatchKind, WatchAt
    <3>3. watch'[w].found = found \ {r} /\ watch'[w].told = told \cup {r.payout}
      OBVIOUS
    <3>4. watch'[w].todo = todo /\ watch'[w].missed = missed /\ watch'[w].owed = owed
      OBVIOUS
    <3>5. watch' \in [Watchers -> WatchKind]
      OBVIOUS
    <3>6. watch'[w] = new
      BY <3>2, <3>3, <3>4, <3>5
    <3>7. watch' = [watch EXCEPT ![w] = watch'[w]]
      OBVIOUS
    <3> QED BY <3>6, <3>7
  <2>2. CASE ~FileTicket(w, r)
    <3>1. watch' = [watch EXCEPT ![w].found = @ \ {r}, ![w].missed = @ \cup {r.payout}]
      BY <2>2 DEF TicketFails
    <3>2. new = WatchAt(todo, found \ {r}, told, owed, missed \cup {r.payout})
      BY <1>6, <1>8, <2>2
    <3> USE <1>1, <1>5, <3>1 DEF WatchInv, WatchTyped, WatchKind, WatchAt
    <3>3. watch'[w].found = found \ {r} /\ watch'[w].missed = missed \cup {r.payout}
      OBVIOUS
    <3>4. watch'[w].todo = todo /\ watch'[w].told = told /\ watch'[w].owed = owed
      OBVIOUS
    <3>5. watch' \in [Watchers -> WatchKind]
      OBVIOUS
    <3>6. watch'[w] = new
      BY <3>2, <3>3, <3>4, <3>5
    <3>7. watch' = [watch EXCEPT ![w] = watch'[w]]
      OBVIOUS
    <3> QED BY <3>6, <3>7
  <2> QED BY <2>1, <2>2
<1>11. WatchKeeps(new)
  <2>1. Named(found) \subseteq Named(found \ {r}) \cup {r.payout}
    BY DEF Named
  <2> QED BY <1>4, <1>5, <1>7, <1>9, <2>1 DEF WatchKeeps
<1> QED BY <1>1, <1>3, <1>9, <1>10, <1>11, WatchMoves

LEMMA TimeKeeps ==
  ASSUME WatchInv, NEW k \in Keys, TimePasses(k)
  PROVE  WatchInv'
<1>1. age' \in [Keys -> 0..2] /\ UNCHANGED <<payout, bank, watch, alarms>>
  BY DEF TimePasses, allPayrollVars, payrollVars, WatchInv, WatchTyped
<1> QED BY <1>1 DEF WatchInv, WatchTyped, WatchKeeps, Justified, Named

(* Every step of the jobs that watch keeps their invariant. *)
LEMMA WatchStepKeeps ==
  ASSUME WatchInv, TypedInv, WatchNext
  PROVE  WatchInv'
<1>1. ASSUME WatchLockExpires PROVE WatchInv'
  BY <1>1, WatchBesides DEF WatchLockExpires
<1>2. ASSUME NEW w \in Watchers, WatchStep(w) \/ CrashWatch(w) PROVE WatchInv'
  BY <1>2, StartWatchKeeps, EndWatchKeeps, AskKeeps, AskFailsKeeps, TicketKeeps DEF WatchStep
<1> QED BY <1>1, <1>2, TimeKeeps DEF WatchNext
----------------------------------------------------------------------------
(* Beside the ticks: what the other jobs do to the lock leaves them alone. *)
LEMMA RecurringBesides ==
  ASSUME RecurringInv, LockTypeOK, Places, PayrollLock \/ WatchLock, UNCHANGED recurringVars
  PROVE  RecurringInv'
<1>1. \A t \in Ticks : holding'[t] = holding[t]
  BY Apart, PayrollAssumption DEF PayrollLock, WatchLock, Acquire, Release, Abandon, Expire, lockVars, LockTypeOK
<1>2. overrun' \cap Ticks \subseteq overrun
  <2>1. ASSUME NEW r \in {RunLock, RelayLock, NightlyLock, MonitorLock}, Expire(r)
        PROVE  overrun' \cap Ticks \subseteq overrun
    BY <2>1, Apart, PayrollAssumption, ApartAssumption DEF Expire, Holders, Places
  <2> QED BY <2>1 DEF PayrollLock, WatchLock, Acquire, Release, Abandon, lockVars
<1>3. UNCHANGED <<today, item, posted, tick, editor, slip>>
  BY DEF recurringVars
<1>4. RecurringTyped'
  BY <1>3 DEF RecurringInv, RecurringTyped
<1>5. TicksHold'
  BY <1>1, <1>2, <1>3 DEF RecurringInv, TicksHold
<1>6. Regular' => \A i \in Items : ItemHolds(i)'
  BY <1>3 DEF RecurringInv, Regular, ItemHolds, Once, Within, Reopened, InHandOf, AtItsEnd, Underway, Fits
<1> QED BY <1>4, <1>5, <1>6 DEF RecurringInv

(* Without an overrun one tick only has items in hand. *)
LEMMA SoleTick ==
  ASSUME RecurringInv, LockTypeOK, HoldersExclude, Regular,
         NEW t \in Ticks, tick[t].due # {}
  PROVE  /\ lock[RecurringLock] = t
         /\ \A v \in Ticks : v # t => tick[v].due = {}
<1>1. \A v \in Ticks : tick[v].due # {} => holding[v] = RecurringLock /\ v \notin overrun
  BY DEF RecurringInv, TicksHold, Regular
<1>2. \A v \in Ticks : tick[v].due # {} => lock[RecurringLock] = v
  BY <1>1, Apart DEF HoldersExclude
<1> QED BY <1>2

LEMMA NoTickYet ==
  ASSUME RecurringInv, LockTypeOK, HoldersExclude, Regular, lock[RecurringLock] = NoJob
  PROVE  \A v \in Ticks : tick[v].due = {}
BY SoleTick, Apart, JobsAssumption

LEMMA TickFields ==
  ASSUME RecurringInv, NEW t \in Ticks
  PROVE  /\ tick[t] = TickAt(tick[t].copy, tick[t].due, tick[t].done)
         /\ tick[t].copy \in [Items -> ItemRow]
         /\ tick[t].due \subseteq Items /\ tick[t].done \subseteq tick[t].due
BY DEF RecurringInv, RecurringTyped, TickKind, TickAt

LEMMA TickAtFields ==
  ASSUME NEW copy, NEW due, NEW done
  PROVE  /\ TickAt(copy, due, done).copy = copy /\ TickAt(copy, due, done).due = due
         /\ TickAt(copy, due, done).done = done
         /\ copy \in [Items -> ItemRow] /\ due \subseteq Items /\ done \subseteq Items =>
               TickAt(copy, due, done) \in TickKind
BY DEF TickAt, TickKind

LEMMA RowFields ==
  ASSUME NEW status, NEW next, NEW runs, NEW failures
  PROVE  /\ RowOf(status, next, runs, failures).status = status
         /\ RowOf(status, next, runs, failures).next = next
         /\ RowOf(status, next, runs, failures).runs = runs
         /\ RowOf(status, next, runs, failures).failures = failures
         /\ \/ RowOf(status, next, runs, failures) \in ItemRow
            \/ status \notin {"ACTIVE", "PAUSED", "COMPLETED", "FAILED", "removed"}
            \/ next \notin Nat \/ runs \notin Nat \/ failures \notin 0..3
BY DEF RowOf, ItemRow

LEMMA ItemFields ==
  ASSUME NEW row \in ItemRow
  PROVE  /\ row = RowOf(row.status, row.next, row.runs, row.failures)
         /\ row.status \in {"ACTIVE", "PAUSED", "COMPLETED", "FAILED", "removed"}
         /\ row.next \in Nat /\ row.runs \in Nat /\ row.failures \in 0..3
BY DEF RowOf, ItemRow

(* An item whose row, postings and jobs stay as they are keeps what is said *)
(* of it, later and after more slips.                                       *)
LEMMA ItemUnmoved ==
  ASSUME RecurringInv, NEW i \in Items, ItemHolds(i), posted'[i] = posted[i], item'[i] = item[i],
         InHandOf(i)' = InHandOf(i), Reopened => Reopened', today' \in Int, today' >= today,
         \A t \in InHandOf(i) : tick'[t].copy[i] = tick[t].copy[i] /\ (i \in tick'[t].done <=> i \in tick[t].done)
  PROVE  ItemHolds(i)'
<1>1. \A next, runs : Fits(i, next, runs) => Fits(i, next, runs)'
  BY DEF Fits, Once
<1>2. Once(i)' /\ Within(i)'
  BY DEF ItemHolds, Once, Within
<1>3. ASSUME InHandOf(i) = {} PROVE AtItsEnd(i)'
  <2>1. Fits(i, item[i].next, item[i].runs) => Fits(i, item[i].next, item[i].runs)'
    BY DEF Fits, Once
  <2> QED BY <1>3, <2>1 DEF ItemHolds, AtItsEnd
<1>4. ASSUME NEW t \in InHandOf(i) PROVE Underway(t, i)'
  <2>1. tick'[t].copy[i] = tick[t].copy[i] /\ (i \in tick'[t].done <=> i \in tick[t].done)
    OBVIOUS
  <2>2. PICK c : c = tick[t].copy[i]
    OBVIOUS
  <2>3. c.next \in Nat /\ today \in Int
    BY <2>2, TickFields, ItemFields DEF InHandOf, RecurringInv, RecurringTyped
  <2>4. Underway(t, i)
    BY DEF ItemHolds
  <2>5. /\ c.status = "ACTIVE" /\ c.next <= today'
        /\ Reopened' \/ c.runs < MaxOccurrences[i]
        /\ item'[i].status # "removed" => item'[i].next = c.next /\ item'[i].runs = c.runs
    BY <2>2, <2>3, <2>4 DEF Underway
  <2>6. IF i \in tick'[t].done THEN Fits(i, c.next + 1, c.runs + 1)' ELSE Fits(i, c.next, c.runs)'
    BY <1>1, <2>1, <2>2, <2>4 DEF Underway
  <2> QED BY <2>1, <2>2, <2>5, <2>6 DEF Underway
<1> QED BY <1>2, <1>3, <1>4 DEF ItemHolds
----------------------------------------------------------------------------
LEMMA MidnightKeeps == ASSUME RecurringInv, Midnight PROVE RecurringInv'
<1>1. /\ UNCHANGED <<holding, overrun, item, posted, tick, editor, slip>>
      /\ today' = today + 1 /\ today' \in 0..Horizon /\ today \in 0..Horizon
  BY RecurringAssumption DEF Midnight, lockVars, RecurringInv, RecurringTyped
<1>2. RecurringTyped' /\ TicksHold'
  BY <1>1 DEF RecurringInv, RecurringTyped, TicksHold
<1>3. ASSUME Regular', NEW i \in Items PROVE ItemHolds(i)'
  <2>1. Regular /\ ItemHolds(i)
    BY <1>1, <1>3 DEF Regular, RecurringInv
  <2>2. InHandOf(i)' = InHandOf(i) /\ (Reopened => Reopened')
    BY <1>1 DEF InHandOf, Reopened
  <2>3. today' \in Int /\ today' >= today
    BY <1>1
  <2> QED BY <1>1, <2>1, <2>2, <2>3, ItemUnmoved
<1> QED BY <1>2, <1>3 DEF RecurringInv

(* An edit that begins only reads. *)
LEMMA EditBegunKeeps ==
  ASSUME RecurringInv, NEW u \in Editors, NEW i \in Items, NEW status \in Edits, BeginEdit(u, i, status)
  PROVE  RecurringInv'
<1>1. /\ UNCHANGED <<holding, overrun, today, item, posted, tick, slip>>
      /\ editor' = [editor EXCEPT ![u] = EditorAt(i, item[i], status)]
      /\ item[i].status # "removed" /\ item[i] \in ItemRow /\ today \in 0..Horizon
  BY DEF BeginEdit, lockVars, RecurringInv, RecurringTyped
<1>2. /\ DOMAIN editor' = Editors /\ editor'[u] = EditorAt(i, item[i], status)
      /\ \A v \in Editors : v # u => editor'[v] = editor[v]
  BY <1>1 DEF RecurringInv, RecurringTyped
<1>3. /\ editor'[u].item = i /\ editor'[u].read = item[i] /\ editor'[u].status = status
  BY <1>2 DEF EditorAt
<1>4. RecurringTyped'
  <2>1. ASSUME NEW v \in Editors, editor'[v].status # "none"
        PROVE  /\ editor'[v].item \in Items
               /\ editor'[v].read \in ItemRow /\ editor'[v].read.status # "removed"
               /\ editor'[v].status \in Edits
    <3>1. CASE v = u
      BY <1>1, <1>3, <3>1
    <3>2. CASE v # u
      BY <1>2, <2>1, <3>2 DEF RecurringInv, RecurringTyped
    <3> QED BY <3>1, <3>2
  <2> QED BY <1>1, <1>2, <2>1 DEF RecurringInv, RecurringTyped
<1>5. TicksHold'
  BY <1>1 DEF RecurringInv, TicksHold
<1>6. Regular' => \A j \in Items : ItemHolds(j)'
  BY <1>1 DEF RecurringInv, Regular, ItemHolds, Once, Within, Reopened, InHandOf, AtItsEnd, Underway, Fits
<1> QED BY <1>4, <1>5, <1>6 DEF RecurringInv

(* A tick that starts reads the rows as they are, and no other tick has     *)
(* any in hand.                                                             *)
LEMMA StartTickKeeps ==
  ASSUME RecurringInv, LockTypeOK, HoldersExclude, NEW t \in Ticks, StartTick(t)
  PROVE  RecurringInv'
<1>1. /\ UNCHANGED <<overrun, today, item, posted, editor, slip>>
      /\ tick' = [tick EXCEPT ![t] = TickAt(item, {i \in Items : Due(i)}, {})]
      /\ lock[RecurringLock] = NoJob /\ holding' = [holding EXCEPT ![t] = RecurringLock]
  BY DEF StartTick, Acquire
<1>2. PICK new : new = TickAt(item, {i \in Items : Due(i)}, {})
  OBVIOUS
<1>3. /\ new.copy = item /\ new.due = {i \in Items : Due(i)} /\ new.done = {} /\ new \in TickKind
  BY <1>2, TickAtFields DEF RecurringInv, RecurringTyped
<1>4. /\ tick' = [tick EXCEPT ![t] = new] /\ tick'[t] = new
      /\ \A v \in Ticks : v # t => tick'[v] = tick[v]
  BY <1>1, <1>2 DEF RecurringInv, RecurringTyped
<1>5. holding'[t] = RecurringLock /\ \A v \in Ticks : v # t => holding'[v] = holding[v]
  BY <1>1, Apart DEF LockTypeOK
<1>6. RecurringTyped'
  BY <1>1, <1>3, <1>4 DEF RecurringInv, RecurringTyped
<1>7. TicksHold'
  BY <1>1, <1>4, <1>5 DEF RecurringInv, TicksHold
<1>8. ASSUME Regular', NEW i \in Items PROVE ItemHolds(i)'
  <2>1. Regular /\ ItemHolds(i)
    BY <1>1, <1>8 DEF Regular, RecurringInv
  <2>2. \A v \in Ticks : tick[v].due = {}
    BY <1>1, <2>1, NoTickYet
  <2>3. InHandOf(i) = {} /\ AtItsEnd(i)
    BY <2>1, <2>2 DEF InHandOf, ItemHolds
  <2>4. Once(i)' /\ Within(i)' /\ AtItsEnd(i)'
    BY <1>1, <2>1, <2>3 DEF ItemHolds, Once, Within, AtItsEnd, Fits, Reopened
  <2>5. ASSUME NEW v \in InHandOf(i)' PROVE Underway(v, i)'
    <3>1. v = t /\ Due(i)
      BY <1>3, <1>4, <2>2 DEF InHandOf
    <3>2. tick'[v].copy[i] = item[i] /\ i \notin tick'[v].done
      BY <1>3, <1>4, <3>1
    <3>3. /\ item[i].status = "ACTIVE" /\ item[i].next <= today
          /\ Fits(i, item[i].next, item[i].runs) /\ (Reopened \/ item[i].runs < MaxOccurrences[i])
      BY <2>3, <3>1 DEF Due, AtItsEnd
    <3> QED BY <1>1, <3>2, <3>3 DEF Underway, Fits, Once, Reopened
  <2> QED BY <2>4, <2>5 DEF ItemHolds
<1> QED BY <1>6, <1>7, <1>8 DEF RecurringInv

(* A tick that has nothing in hand ends, and leaves the others as they are. *)
LEMMA EndTickKeeps ==
  ASSUME RecurringInv, LockTypeOK, NEW t \in Ticks, EndTick(t)
  PROVE  RecurringInv'
<1>1. /\ UNCHANGED <<today, item, posted, editor, slip>> /\ tick[t].due = {}
      /\ tick' = [tick EXCEPT ![t] = NoTick] /\ overrun' = overrun \ {t}
      /\ holding' = [holding EXCEPT ![t] = Nothing] /\ today \in 0..Horizon
  BY DEF EndTick, Release, RecurringInv, RecurringTyped
<1>2. /\ NoTick.due = {} /\ NoTick.done = {} /\ NoTick \in TickKind
  BY TickAtFields, RowFields DEF NoTick, NewItem
<1>3. /\ tick'[t] = NoTick /\ \A v \in Ticks : v # t => tick'[v] = tick[v]
      /\ \A v \in Ticks : v # t => holding'[v] = holding[v]
  BY <1>1, Apart DEF RecurringInv, RecurringTyped, LockTypeOK
<1>4. RecurringTyped'
  BY <1>1, <1>2, <1>3 DEF RecurringInv, RecurringTyped
<1>5. TicksHold'
  BY <1>1, <1>2, <1>3 DEF RecurringInv, TicksHold
<1>6. ASSUME Regular', NEW i \in Items PROVE ItemHolds(i)'
  <2>1. Regular /\ ItemHolds(i)
    BY <1>1, <1>6 DEF Regular, RecurringInv
  <2>2. InHandOf(i)' = InHandOf(i) /\ t \notin InHandOf(i)
    BY <1>1, <1>2, <1>3 DEF InHandOf
  <2>3. \A v \in InHandOf(i) : tick'[v] = tick[v]
    BY <1>3, <2>2 DEF InHandOf
  <2>4. today' \in Int /\ today' >= today /\ (Reopened => Reopened')
    BY <1>1 DEF Reopened
  <2> QED BY <1>1, <2>1, <2>2, <2>3, <2>4, ItemUnmoved
<1> QED BY <1>4, <1>5, <1>6 DEF RecurringInv

LEMMA CrashTickKeeps ==
  ASSUME RecurringInv, LockTypeOK, NEW t \in Ticks, CrashTick(t)
  PROVE  RecurringInv'
<1>1. /\ UNCHANGED <<today, item, posted, editor>> /\ Slips("crash")
      /\ tick' = [tick EXCEPT ![t] = NoTick] /\ overrun' = overrun \ {t}
      /\ holding' = [holding EXCEPT ![t] = Nothing]
  BY DEF CrashTick, Abandon
<1>2. /\ NoTick.due = {} /\ NoTick.done = {} /\ NoTick \in TickKind
  BY TickAtFields, RowFields DEF NoTick, NewItem
<1>3. /\ tick'[t] = NoTick /\ \A v \in Ticks : v # t => tick'[v] = tick[v]
      /\ \A v \in Ticks : v # t => holding'[v] = holding[v]
  BY <1>1, Apart DEF RecurringInv, RecurringTyped, LockTypeOK
<1>4. /\ slip'.kinds = slip.kinds \cup {"crash"} /\ slip'.count \in Nat
      /\ slip' = [kinds |-> slip'.kinds, count |-> slip'.count]
  BY <1>1 DEF Slips, RecurringInv, RecurringTyped
<1>5. RecurringTyped'
  BY <1>1, <1>2, <1>3, <1>4 DEF RecurringInv, RecurringTyped
<1>6. TicksHold'
  BY <1>1, <1>2, <1>3, <1>4 DEF RecurringInv, TicksHold
<1>7. ~Regular'
  BY <1>4 DEF Regular
<1> QED BY <1>5, <1>6, <1>7 DEF RecurringInv

LEMMA TickExpiryKeeps ==
  ASSUME RecurringInv, TickLockExpires(RecurringLock)
  PROVE  RecurringInv'
<1>1. /\ UNCHANGED <<today, item, posted, tick, editor, holding>>
      /\ overrun' = overrun \cup Holders(RecurringLock)
      /\ IF Holders(RecurringLock) = {} THEN UNCHANGED slip ELSE Slips("overrun")
  BY DEF TickLockExpires, Expire
<1>2. CASE Holders(RecurringLock) = {}
  <2>1. UNCHANGED <<overrun, slip>>
    BY <1>1, <1>2
  <2>2. RecurringTyped' /\ TicksHold'
    BY <1>1, <2>1 DEF RecurringInv, RecurringTyped, TicksHold
  <2>3. Regular' => \A j \in Items : ItemHolds(j)'
    BY <1>1, <2>1 DEF RecurringInv, Regular, ItemHolds, Once, Within, Reopened, InHandOf, AtItsEnd, Underway, Fits
  <2> QED BY <2>2, <2>3 DEF RecurringInv
<1>3. CASE Holders(RecurringLock) # {}
  <2>1. /\ slip'.kinds = slip.kinds \cup {"overrun"} /\ slip'.count \in Nat
        /\ slip' = [kinds |-> slip'.kinds, count |-> slip'.count]
    BY <1>1, <1>3 DEF Slips, RecurringInv, RecurringTyped
  <2>2. RecurringTyped'
    BY <1>1, <2>1 DEF RecurringInv, RecurringTyped
  <2>3. TicksHold' /\ ~Regular'
    BY <1>1, <2>1 DEF RecurringInv, TicksHold, Regular
  <2> QED BY <2>2, <2>3 DEF RecurringInv
<1> QED BY <1>2, <1>3
(* A tick has one of its items in another way: the rest stays as it is. *)
LEMMA OthersUnmoved ==
  ASSUME RecurringInv, LockTypeOK, HoldersExclude, Regular,
         NEW t \in Ticks, NEW i \in tick[t].due, NEW new,
         tick' = [tick EXCEPT ![t] = new], new.copy = tick[t].copy,
         new.due \ {i} = tick[t].due \ {i}, new.done \ {i} = tick[t].done \ {i},
         UNCHANGED today, Reopened => Reopened',
         \A j \in Items : j # i => posted'[j] = posted[j] /\ item'[j] = item[j]
  PROVE  /\ \A j \in Items : j # i => ItemHolds(j)'
         /\ ItemHolds(i) /\ InHandOf(i) = {t} /\ Underway(t, i)
         /\ InHandOf(i)' = IF i \in new.due THEN {t} ELSE {}
<1>1. /\ tick'[t] = new /\ \A v \in Ticks : v # t => tick'[v] = tick[v]
      /\ today \in 0..Horizon /\ i \in Items
  BY TickFields DEF RecurringInv, RecurringTyped
<1>2. \A v \in Ticks : v # t => tick[v].due = {}
  BY SoleTick
<1>3. ItemHolds(i) /\ InHandOf(i) = {t} /\ Underway(t, i)
  BY <1>1, <1>2 DEF RecurringInv, ItemHolds, InHandOf
<1>4. InHandOf(i)' = IF i \in new.due THEN {t} ELSE {}
  BY <1>1, <1>2 DEF InHandOf
<1>5. ASSUME NEW j \in Items, j # i PROVE ItemHolds(j)'
  <2>1. InHandOf(j)' = InHandOf(j)
    BY <1>1, <1>5 DEF InHandOf
  <2>2. \A v \in InHandOf(j) : tick'[v].copy[j] = tick[v].copy[j] /\ (j \in tick'[v].done <=> j \in tick[v].done)
    BY <1>1, <1>5 DEF InHandOf
  <2>3. ItemHolds(j) /\ today' \in Int /\ today' >= today
    BY <1>1 DEF RecurringInv
  <2> QED BY <1>5, <2>1, <2>2, <2>3, ItemUnmoved
<1> QED BY <1>3, <1>4, <1>5

(* One posting more for one date. *)
LEMMA OnePostingMore ==
  ASSUME NEW dates, IsFiniteSet(dates), NEW p, NEW q, DOMAIN p = dates, DOMAIN q = dates,
         \A d \in dates : p[d] \in Nat /\ q[d] \in Nat,
         NEW next \in dates, q[next] = p[next] + 1, \A d \in dates \ {next} : p[d] = q[d]
  PROVE  SumFunction(q) = SumFunction(p) + 1 /\ SumFunction(p) \in Nat
<1>1. SumFunction(p) = SumFunctionOnSet(p, dates) /\ SumFunction(q) = SumFunctionOnSet(q, dates)
  BY DEF SumFunction
<1>2. SumFunctionOnSet(p, dates) \in Nat
  BY SumIsNat
<1>3. SumFunctionOnSet(q, dates) = SumFunctionOnSet(p, dates) - p[next] + q[next]
  BY SumOfOneChange
<1>4. p[next] \in Nat
  OBVIOUS
<1> QED BY <1>1, <1>2, <1>3, <1>4

LEMMA PostDueKeeps ==
  ASSUME RecurringInv, LockTypeOK, HoldersExclude, NEW t \in Ticks, NEW i \in Items, PostDue(t, i)
  PROVE  RecurringInv'
<1>1. PICK c : c = tick[t].copy[i]
  OBVIOUS
<1>2. PICK new : new = TickAt(tick[t].copy, tick[t].due, tick[t].done \cup {i})
  OBVIOUS
<1>3. /\ i \in tick[t].due /\ i \notin tick[t].done
      /\ tick' = [tick EXCEPT ![t] = new]
      /\ posted' = [posted EXCEPT ![i][c.next] = @ + 1]
      /\ UNCHANGED <<holding, overrun, today, item, editor, slip>>
  BY <1>1, <1>2 DEF PostDue, lockVars
<1>4. /\ new.copy = tick[t].copy /\ new.due = tick[t].due /\ new.done = tick[t].done \cup {i}
      /\ new \in TickKind
  BY <1>2, <1>3, TickFields, TickAtFields
<1>5. c \in ItemRow /\ c.next \in Nat /\ c.runs \in Nat /\ today \in 0..Horizon
  BY <1>1, TickFields, ItemFields DEF RecurringInv, RecurringTyped
<1>6. /\ tick'[t] = new /\ \A v \in Ticks : v # t => tick'[v] = tick[v]
      /\ \A v \in Ticks : holding'[v] = holding[v]
  BY <1>3 DEF RecurringInv, RecurringTyped
<1>7. PICK p, q, next : p = posted[i] /\ next = c.next /\ q = [p EXCEPT ![next] = @ + 1]
  OBVIOUS
<1>8. /\ p \in [0..Horizon -> Nat] /\ q \in [0..Horizon -> Nat]
      /\ \A d \in 0..Horizon : q[d] = IF d = next THEN p[d] + 1 ELSE p[d]
  <2>1. p \in [0..Horizon -> Nat]
    BY <1>7 DEF RecurringInv, RecurringTyped
  <2>2. DOMAIN q = 0..Horizon /\ \A d \in 0..Horizon : q[d] = IF d = next THEN p[d] + 1 ELSE p[d]
    BY <1>7, <2>1
  <2>3. \A d \in 0..Horizon : q[d] \in Nat
    BY <2>1, <2>2
  <2>4. q = [d \in 0..Horizon |-> q[d]]
    BY <1>7, <2>2
  <2> QED BY <2>1, <2>2, <2>3, <2>4
<1>9. posted' = [posted EXCEPT ![i] = q] /\ posted'[i] = q /\ posted' \in [Items -> [0..Horizon -> Nat]]
  BY <1>3, <1>7, <1>8 DEF RecurringInv, RecurringTyped
<1>10. RecurringTyped'
  BY <1>3, <1>4, <1>6, <1>9 DEF RecurringInv, RecurringTyped
<1>11. TicksHold'
  BY <1>3, <1>4, <1>6 DEF RecurringInv, TicksHold
<1>12. ASSUME Regular' PROVE \A j \in Items : ItemHolds(j)'
  <2>1. Regular /\ (Reopened => Reopened')
    BY <1>3, <1>12 DEF Regular, Reopened
  <2>2. \A j \in Items : j # i => posted'[j] = posted[j] /\ item'[j] = item[j]
    BY <1>3 DEF RecurringInv, RecurringTyped
  <2>3. new.due \ {i} = tick[t].due \ {i} /\ new.done \ {i} = tick[t].done \ {i}
    BY <1>4
  <2>4. /\ \A j \in Items : j # i => ItemHolds(j)'
        /\ ItemHolds(i) /\ InHandOf(i) = {t} /\ Underway(t, i)
        /\ InHandOf(i)' = IF i \in new.due THEN {t} ELSE {}
    BY <1>3, <1>4, <2>1, <2>2, <2>3, OthersUnmoved
  <2>5. /\ c.status = "ACTIVE" /\ c.next <= today
        /\ Reopened \/ c.runs < MaxOccurrences[i]
        /\ Fits(i, c.next, c.runs)
        /\ item[i].status # "removed" => item[i].next = c.next /\ item[i].runs = c.runs
    BY <1>1, <1>3, <2>4 DEF Underway
  <2>6. /\ next \in 0..Horizon
        /\ \A d \in 0..Horizon : d >= next => p[d] = 0
        /\ \A d \in 0..Horizon : p[d] <= 1
        /\ Reopened \/ (SumFunction(p) <= c.runs /\ c.runs <= MaxOccurrences[i])
    BY <1>5, <1>7, <2>5, RecurringAssumption DEF Fits, Once
  <2>7. q[next] = p[next] + 1 /\ \A d \in 0..Horizon : d # next => q[d] = p[d]
    BY <1>8, <2>6
  <2>8. /\ \A d \in 0..Horizon : q[d] <= 1
        /\ \A d \in 0..Horizon : d >= next + 1 => q[d] = 0
        /\ SumFunction(q) = SumFunction(p) + 1 /\ SumFunction(p) \in Nat
    <3>1. p[next] = 0 /\ next \in Int
      BY <1>8, <2>6
    <3>2. \A d \in 0..Horizon : q[d] <= 1 /\ (d >= next + 1 => q[d] = 0)
      BY <1>8, <2>6, <2>7, <3>1
    <3>3. PICK dates : dates = 0..Horizon
      OBVIOUS
    <3>4. /\ DOMAIN p = dates /\ DOMAIN q = dates /\ next \in dates
          /\ \A d \in dates : p[d] \in Nat /\ q[d] \in Nat
          /\ \A d \in dates \ {next} : p[d] = q[d]
      BY <1>8, <2>6, <2>7, <3>3
    <3>5. IsFiniteSet(dates)
      BY <3>3, FS_Interval, RecurringAssumption
    <3> QED BY ONLY <2>7, <3>2, <3>4, <3>5, OnePostingMore
  <2>9. MaxOccurrences[i] \in Nat
    BY RecurringAssumption
  <2>10. Reopened' \/ (SumFunction(q) <= c.runs + 1 /\ c.runs + 1 <= MaxOccurrences[i])
    BY <1>5, <2>1, <2>5, <2>6, <2>8, <2>9
  <2>11. Once(i)' /\ Fits(i, c.next + 1, c.runs + 1)'
    BY <1>7, <1>9, <2>8, <2>10 DEF Once, Fits
  <2>12. Within(i)'
    BY <1>5, <1>9, <2>8, <2>9, <2>10 DEF Within
  <2>13. InHandOf(i)' = {t}
    BY <1>3, <1>4, <2>4
  <2>14. Underway(t, i)'
    <3>1. tick'[t].copy[i] = c /\ i \in tick'[t].done
      BY <1>1, <1>4, <1>6
    <3>2. /\ c.next <= today' /\ (Reopened' \/ c.runs < MaxOccurrences[i])
          /\ item'[i].status # "removed" => item'[i].next = c.next /\ item'[i].runs = c.runs
      BY <1>3, <2>1, <2>5
    <3> QED BY <2>5, <2>11, <3>1, <3>2 DEF Underway
  <2> QED BY <2>4, <2>11, <2>12, <2>13, <2>14 DEF ItemHolds
<1> QED BY <1>10, <1>11, <1>12 DEF RecurringInv
(* A row saved for an item that was in hand: the schedule it goes on at     *)
(* fits what was posted, and the item is nobody's any more.                 *)
LEMMA SavedKeeps ==
  ASSUME RecurringInv, LockTypeOK, HoldersExclude,
         NEW t \in Ticks, NEW i \in tick[t].due, NEW row \in ItemRow, Saved(t, i, row),
         UNCHANGED <<holding, overrun, today, posted, editor>>,
         slip'.kinds \in {slip.kinds, slip.kinds \cup {"failedSave"}}, slip'.count \in Nat,
         slip' = [kinds |-> slip'.kinds, count |-> slip'.count],
         Regular /\ Underway(t, i) =>
            /\ Fits(i, row.next, row.runs)
            /\ row.status = "ACTIVE" => Reopened \/ row.runs < MaxOccurrences[i]
  PROVE  RecurringInv'
<1>1. PICK new : new = TickAt(tick[t].copy, tick[t].due \ {i}, tick[t].done \ {i})
  OBVIOUS
<1>2. tick' = [tick EXCEPT ![t] = new] /\ item' = [item EXCEPT ![i] = row]
  BY <1>1 DEF Saved
<1>3. /\ new.copy = tick[t].copy /\ new.due = tick[t].due \ {i} /\ new.done = tick[t].done \ {i}
      /\ new \in TickKind /\ i \in Items
  BY <1>1, TickFields, TickAtFields
<1>4. /\ tick'[t] = new /\ \A v \in Ticks : v # t => tick'[v] = tick[v]
      /\ item'[i] = row /\ \A j \in Items : j # i => item'[j] = item[j]
  BY <1>2, <1>3 DEF RecurringInv, RecurringTyped
<1>5. RecurringTyped'
  <2>1. item' \in [Items -> ItemRow] /\ tick' \in [Ticks -> TickKind]
    BY <1>2, <1>3 DEF RecurringInv, RecurringTyped
  <2>2. \A v \in Ticks : tick'[v].done \subseteq tick'[v].due
    BY <1>3, <1>4 DEF RecurringInv, RecurringTyped
  <2> QED BY <2>1, <2>2 DEF RecurringInv, RecurringTyped
<1>6. TicksHold'
  BY <1>3, <1>4 DEF RecurringInv, TicksHold
<1>7. ASSUME Regular' PROVE \A j \in Items : ItemHolds(j)'
  <2>1. Regular /\ (Reopened <=> Reopened')
    BY <1>7 DEF Regular, Reopened
  <2>2. \A j \in Items : j # i => posted'[j] = posted[j] /\ item'[j] = item[j]
    BY <1>4
  <2>3. new.due \ {i} = tick[t].due \ {i} /\ new.done \ {i} = tick[t].done \ {i}
    BY <1>3
  <2>4. /\ \A j \in Items : j # i => ItemHolds(j)'
        /\ ItemHolds(i) /\ Underway(t, i)
        /\ InHandOf(i)' = IF i \in new.due THEN {t} ELSE {}
    BY <1>2, <1>3, <2>1, <2>2, <2>3, OthersUnmoved
  <2>5. InHandOf(i)' = {}
    BY <1>3, <2>4
  <2>6. Once(i)' /\ Within(i)'
    BY <2>1, <2>4 DEF ItemHolds, Once, Within
  <2>7. AtItsEnd(i)'
    BY <1>4, <2>1, <2>4 DEF AtItsEnd, Fits, Once, Reopened
  <2> QED BY <2>4, <2>5, <2>6, <2>7 DEF ItemHolds
<1> QED BY <1>5, <1>6, <1>7 DEF RecurringInv

(* What the job makes of a row it has in hand. *)
LEMMA AdvancedRow ==
  ASSUME NEW c \in ItemRow, c.status = "ACTIVE", NEW i \in Items
  PROVE  /\ Advanced(c, i) \in ItemRow
         /\ Advanced(c, i).next = c.next + 1 /\ Advanced(c, i).runs = c.runs + 1
         /\ Advanced(c, i).status = "ACTIVE" => c.runs + 1 < MaxOccurrences[i]
         /\ Advanced(c, i).status \in {"ACTIVE", "COMPLETED"}
<1>1. PICK status : status = IF c.runs + 1 >= MaxOccurrences[i] THEN "COMPLETED" ELSE c.status
  OBVIOUS
<1>2. c.next \in Nat /\ c.runs \in Nat /\ MaxOccurrences[i] \in Nat
  BY ItemFields, RecurringAssumption
<1>3. status \in {"ACTIVE", "COMPLETED"} /\ (status = "ACTIVE" => c.runs + 1 < MaxOccurrences[i])
  BY <1>1, <1>2
<1>4. PICK next, runs : next = c.next + 1 /\ runs = c.runs + 1
  OBVIOUS
<1>5. Advanced(c, i) = RowOf(status, next, runs, 0)
  BY <1>1, <1>4 DEF Advanced
<1>6. next \in Nat /\ runs \in Nat /\ 0 \in 0..3
  BY <1>2, <1>4
<1> QED BY <1>3, <1>4, <1>5, <1>6, RowFields

LEMMA AfterFailureRow ==
  ASSUME NEW c \in ItemRow
  PROVE  /\ AfterFailure(c) \in ItemRow
         /\ AfterFailure(c).next = c.next /\ AfterFailure(c).runs = c.runs
         /\ AfterFailure(c).status = "ACTIVE" => c.status = "ACTIVE"
<1>1. PICK failures : failures = IF c.failures < 3 THEN c.failures + 1 ELSE 3
  OBVIOUS
<1>2. PICK status : status = IF failures = 3 THEN "FAILED" ELSE c.status
  OBVIOUS
<1>3. AfterFailure(c) = RowOf(status, c.next, c.runs, failures)
  BY <1>1, <1>2 DEF AfterFailure
<1>4. /\ failures \in 0..3 /\ c.next \in Nat /\ c.runs \in Nat
      /\ status \in {"ACTIVE", "PAUSED", "COMPLETED", "FAILED", "removed"}
      /\ status = "ACTIVE" => c.status = "ACTIVE"
  BY <1>1, <1>2, ItemFields
<1>5. PICK next, runs : next = c.next /\ runs = c.runs
  OBVIOUS
<1> QED BY <1>3, <1>4, <1>5, RowFields

(* What is in hand is a row, and what the job has read of it is active. *)
LEMMA RowInHand ==
  ASSUME RecurringInv, NEW t \in Ticks, NEW i \in tick[t].due
  PROVE  /\ tick[t].copy[i] \in ItemRow /\ i \in Items
         /\ slip.count \in Nat /\ slip = [kinds |-> slip.kinds, count |-> slip.count]
BY TickFields DEF RecurringInv, RecurringTyped

LEMMA SaveStepsKeep ==
  ASSUME RecurringInv, LockTypeOK, HoldersExclude, NEW t \in Ticks, NEW i \in Items,
         SaveDue(t, i) \/ PostFails(t, i) \/ SaveFails(t, i)
  PROVE  RecurringInv'
<1>1. /\ i \in tick[t].due /\ UNCHANGED <<holding, overrun, today, posted, editor>>
      /\ SaveDue(t, i) \/ SaveFails(t, i) => i \in tick[t].done
      /\ PostFails(t, i) => i \notin tick[t].done
  BY TickFields DEF SaveDue, PostFails, SaveFails, lockVars
<1>2. PICK c : c = tick[t].copy[i]
  OBVIOUS
<1>3. /\ c \in ItemRow
      /\ slip.count \in Nat /\ slip = [kinds |-> slip.kinds, count |-> slip.count]
  BY <1>1, <1>2, RowInHand
<1>4. Underway(t, i) => /\ c.status = "ACTIVE" /\ (Reopened \/ c.runs < MaxOccurrences[i])
                        /\ i \in tick[t].done => Fits(i, c.next + 1, c.runs + 1)
                        /\ i \notin tick[t].done => Fits(i, c.next, c.runs)
  BY <1>2 DEF Underway
<1>5. ASSUME SaveDue(t, i) PROVE RecurringInv'
  <2>1. PICK row : row = Advanced(c, i)
    OBVIOUS
  <2>2. Saved(t, i, row) /\ UNCHANGED slip
    BY <1>2, <1>5, <2>1 DEF SaveDue
  <2>3. row \in ItemRow
    BY <1>3, <2>1, ItemFields, RecurringAssumption DEF Advanced, RowOf, ItemRow
  <2>4. Underway(t, i) => /\ Fits(i, row.next, row.runs)
                          /\ row.status = "ACTIVE" => Reopened \/ row.runs < MaxOccurrences[i]
    BY <1>1, <1>3, <1>4, <1>5, <2>1, AdvancedRow
  <2> QED BY <1>1, <1>3, <2>2, <2>3, <2>4, SavedKeeps
<1>6. ASSUME PostFails(t, i) PROVE RecurringInv'
  <2>1. PICK row : row = AfterFailure(c)
    OBVIOUS
  <2>2. Saved(t, i, row) /\ UNCHANGED slip
    BY <1>2, <1>6, <2>1 DEF PostFails
  <2>3. row \in ItemRow
    BY <1>3, <2>1, AfterFailureRow
  <2>4. Underway(t, i) => /\ Fits(i, row.next, row.runs)
                          /\ row.status = "ACTIVE" => Reopened \/ row.runs < MaxOccurrences[i]
    BY <1>1, <1>3, <1>4, <1>6, <2>1, AfterFailureRow
  <2> QED BY <1>1, <1>3, <2>2, <2>3, <2>4, SavedKeeps
<1>7. ASSUME SaveFails(t, i) PROVE RecurringInv'
  <2>1. PICK next, row : next = Advanced(c, i) /\ row = AfterFailure(next)
    OBVIOUS
  <2>2. Saved(t, i, row) /\ Slips("failedSave")
    BY <1>2, <1>7, <2>1 DEF SaveFails
  <2>3. /\ slip'.kinds = slip.kinds \cup {"failedSave"} /\ slip'.count \in Nat
        /\ slip' = [kinds |-> slip'.kinds, count |-> slip'.count]
    BY <1>3, <2>2 DEF Slips
  <2>4. next \in ItemRow
    BY <1>3, <2>1, ItemFields, RecurringAssumption DEF Advanced, RowOf, ItemRow
  <2>5. row \in ItemRow /\ row.next = next.next /\ row.runs = next.runs
        /\ (row.status = "ACTIVE" => next.status = "ACTIVE")
    BY <2>1, <2>4, AfterFailureRow
  <2>6. Underway(t, i) => /\ Fits(i, row.next, row.runs)
                          /\ row.status = "ACTIVE" => Reopened \/ row.runs < MaxOccurrences[i]
    BY <1>1, <1>3, <1>4, <1>7, <2>1, <2>5, AdvancedRow
  <2> QED BY <1>1, <2>2, <2>3, <2>5, <2>6, SavedKeeps
<1> QED BY <1>5, <1>6, <1>7
(* An edit saves the schedule it read: unless that is a slip, the row has   *)
(* not changed since, or the edit removes it.                               *)
LEMMA SaveEditKeeps ==
  ASSUME RecurringInv, NEW u \in Editors, SaveEdit(u)
  PROVE  RecurringInv'
<1>1. PICK e, i, row : e = editor[u] /\ i = e.item /\ row = Edited(e)
  OBVIOUS
<1>2. /\ e.status # "none" /\ item' = [item EXCEPT ![i] = row] /\ EditSlip(e)
      /\ editor' = [editor EXCEPT ![u] = NoEdit]
      /\ UNCHANGED <<holding, overrun, today, posted, tick>>
  BY <1>1 DEF SaveEdit, lockVars
<1>3. /\ i \in Items /\ e.read \in ItemRow /\ e.read.status # "removed" /\ e.status \in Edits
      /\ today \in 0..Horizon
  BY <1>1, <1>2 DEF RecurringInv, RecurringTyped
<1>4. PICK status, next, runs, failures :
         /\ status = IF e.status = "same" THEN e.read.status ELSE e.status
         /\ next = e.read.next /\ runs = e.read.runs /\ failures = e.read.failures
  OBVIOUS
<1>5. row = RowOf(status, next, runs, failures)
  BY <1>1, <1>4 DEF Edited
<1>6. /\ row \in ItemRow /\ row.next = next /\ row.runs = runs /\ row.status = status
      /\ e.status = "removed" => status = "removed"
      /\ status = "ACTIVE" => e.status = "ACTIVE" \/ e.read.status = "ACTIVE"
  BY <1>3, <1>4, <1>5, ItemFields, RowFields DEF Edits
<1>7. /\ item'[i] = row /\ \A j \in Items : j # i => item'[j] = item[j]
      /\ item' \in [Items -> ItemRow]
  BY <1>2, <1>3, <1>6 DEF RecurringInv, RecurringTyped
<1>8. /\ editor'[u].status = "none" /\ \A v \in Editors : v # u => editor'[v] = editor[v]
      /\ DOMAIN editor' = Editors
  BY <1>2 DEF RecurringInv, RecurringTyped, NoEdit, EditorAt
<1>9. /\ slip.kinds \subseteq slip'.kinds /\ slip'.count \in Nat
      /\ slip' = [kinds |-> slip'.kinds, count |-> slip'.count]
      /\ "overrun" \in slip'.kinds => "overrun" \in slip.kinds
  BY <1>2 DEF EditSlip, Slips, RecurringInv, RecurringTyped
<1>10. RecurringTyped'
  <2>1. ASSUME NEW v \in Editors, editor'[v].status # "none"
        PROVE  /\ editor'[v].item \in Items
               /\ editor'[v].read \in ItemRow /\ editor'[v].read.status # "removed"
               /\ editor'[v].status \in Edits
    BY <1>8, <2>1 DEF RecurringInv, RecurringTyped
  <2> QED BY <1>2, <1>7, <1>8, <1>9, <2>1 DEF RecurringInv, RecurringTyped
<1>11. TicksHold'
  BY <1>2, <1>9 DEF RecurringInv, TicksHold
<1>12. ASSUME Regular' PROVE \A j \in Items : ItemHolds(j)'
  <2>1. Regular /\ (Reopened => Reopened') /\ "staleEdit" \notin slip'.kinds
    BY <1>9, <1>12 DEF Regular, Reopened
  <2>2. \A j \in Items : InHandOf(j)' = InHandOf(j) /\ ItemHolds(j)
    BY <1>2, <2>1 DEF InHandOf, RecurringInv
  <2>3. ASSUME NEW j \in Items, j # i PROVE ItemHolds(j)'
    BY <1>2, <1>3, <1>7, <2>1, <2>2, <2>3, ItemUnmoved
  <2>4. status = "removed" \/ item[i] = e.read
    BY <1>1, <1>2, <1>6, <2>1 DEF EditSlip, Slips
  <2>5. item[i] = e.read /\ e.status = "ACTIVE" => Reopened' \/ runs < MaxOccurrences[i]
    <3>1. runs \in Nat /\ MaxOccurrences[i] \in Nat
      BY <1>3, <1>4, ItemFields, RecurringAssumption
    <3>2. ASSUME item[i] = e.read, e.status = "ACTIVE", runs >= MaxOccurrences[i] PROVE Reopened'
      <4>1. Slips("reopened")
        BY <1>1, <1>2, <1>4, <3>2 DEF EditSlip
      <4> QED BY <4>1 DEF Slips, Reopened
    <3> QED BY <3>1, <3>2
  <2>6. Once(i)' /\ Within(i)'
    BY <1>2, <1>3, <2>1, <2>2 DEF ItemHolds, Once, Within
  <2>7. \A n, m : Fits(i, n, m) => Fits(i, n, m)'
    BY <1>2, <2>1 DEF Fits, Once
  <2>8. ASSUME InHandOf(i) = {} PROVE AtItsEnd(i)'
    <3>1. CASE status = "removed"
      BY <1>6, <1>7, <3>1 DEF AtItsEnd
    <3>2. CASE status # "removed"
      <4>1. item[i] = e.read /\ AtItsEnd(i)
        BY <1>3, <2>2, <2>4, <2>8, <3>2 DEF ItemHolds
      <4>2. Fits(i, next, runs) /\ (e.read.status = "ACTIVE" => Reopened \/ runs < MaxOccurrences[i])
        BY <1>3, <1>4, <4>1 DEF AtItsEnd
      <4>3. Fits(i, next, runs)'
        BY <2>7, <4>2
      <4>4. status = "ACTIVE" => Reopened' \/ runs < MaxOccurrences[i]
        BY <1>6, <2>1, <2>5, <4>1, <4>2
      <4> QED BY <1>6, <1>7, <4>3, <4>4 DEF AtItsEnd
    <3> QED BY <3>1, <3>2
  <2>9. ASSUME NEW t \in InHandOf(i) PROVE Underway(t, i)'
    <3>1. PICK c : c = tick[t].copy[i]
      OBVIOUS
    <3>2. tick'[t].copy[i] = c /\ (i \in tick'[t].done <=> i \in tick[t].done)
      BY <1>2, <3>1
    <3>3. Underway(t, i)
      BY <1>3, <2>2, <2>9 DEF ItemHolds
    <3>4. /\ c.status = "ACTIVE" /\ c.next <= today' /\ (Reopened' \/ c.runs < MaxOccurrences[i])
      BY <1>2, <2>1, <3>1, <3>3 DEF Underway
    <3>5. IF i \in tick'[t].done THEN Fits(i, c.next + 1, c.runs + 1)' ELSE Fits(i, c.next, c.runs)'
      BY <2>7, <3>1, <3>2, <3>3 DEF Underway
    <3>6. item'[i].status # "removed" => item'[i].next = c.next /\ item'[i].runs = c.runs
      BY <1>3, <1>4, <1>6, <1>7, <2>4, <3>1, <3>3 DEF Underway
    <3> QED BY <3>2, <3>4, <3>5, <3>6 DEF Underway
  <2>10. ItemHolds(i)'
    BY <1>3, <2>2, <2>6, <2>8, <2>9 DEF ItemHolds
  <2> QED BY <2>3, <2>10
<1> QED BY <1>10, <1>11, <1>12 DEF RecurringInv

(* Every step of the recurring transactions keeps their invariant. *)
LEMMA RecurringStepKeeps ==
  ASSUME RecurringInv, LockInv, RecurringNext
  PROVE  RecurringInv'
<1> USE DEF LockInv
<1>1. ASSUME NEW t \in Ticks, StartTick(t) \/ EndTick(t) \/ CrashTick(t) PROVE RecurringInv'
  BY <1>1, StartTickKeeps, EndTickKeeps, CrashTickKeeps
<1>2. ASSUME NEW t \in Ticks, NEW i \in Items,
             PostDue(t, i) \/ SaveDue(t, i) \/ PostFails(t, i) \/ SaveFails(t, i)
      PROVE  RecurringInv'
  BY <1>2, PostDueKeeps, SaveStepsKeep
<1>3. ASSUME NEW u \in Editors, NEW i \in Items, NEW status \in Edits, BeginEdit(u, i, status)
      PROVE  RecurringInv'
  BY <1>3, EditBegunKeeps
<1>4. ASSUME NEW u \in Editors, SaveEdit(u) PROVE RecurringInv'
  BY <1>4, SaveEditKeeps
<1> QED BY <1>1, <1>2, <1>3, <1>4, MidnightKeeps, TickExpiryKeeps DEF RecurringNext
----------------------------------------------------------------------------
(* All jobs together. *)
JobsInv == TypedInv /\ Places /\ WatchInv /\ RecurringInv

LEMMA JobsInitially == JobsInit => JobsInv
<1> SUFFICES ASSUME JobsInit PROVE JobsInv
  OBVIOUS
<1>1. TypedInv
  BY PaidInitially, RunsTypedInitially DEF JobsInit, TypedInv
<1>2. Places
  BY Apart, PayrollAssumption DEF JobsInit, PayrollInit, LockInit, Places
<1>3. WatchInv
  <2>1. /\ age = [k \in Keys |-> 0] /\ watch = [w \in Watchers |-> NoWatch] /\ alarms = {}
    BY DEF JobsInit, WatchInit
  <2>2. NoWatch \in WatchKind /\ NoWatch.todo = {} /\ NoWatch.owed = {} /\ NoWatch.found = {}
    BY WatchAtFields DEF NoWatch
  <2> QED BY <2>1, <2>2 DEF WatchInv, WatchTyped, WatchKeeps
<1>4. RecurringInv
  <2>1. /\ today = 0 /\ item = [i \in Items |-> NewItem]
        /\ posted = [i \in Items |-> [d \in 0..Horizon |-> 0]]
        /\ tick = [t \in Ticks |-> NoTick] /\ editor = [u \in Editors |-> NoEdit]
        /\ slip = [kinds |-> {}, count |-> 0] /\ overrun = {}
    BY DEF JobsInit, RecurringInit, LockInit
  <2>2. /\ NewItem \in ItemRow /\ NewItem.next = 0 /\ NewItem.runs = 0
        /\ NoTick \in TickKind /\ NoTick.due = {} /\ NoTick.done = {} /\ NoEdit.status = "none"
    BY TickAtFields, RowFields DEF NewItem, NoTick, NoEdit, EditorAt
  <2>3. RecurringTyped /\ TicksHold
    BY <2>1, <2>2, RecurringAssumption DEF RecurringTyped, TicksHold
  <2>4. ASSUME NEW i \in Items PROVE ItemHolds(i)
    <3>1. PICK p : p = [d \in 0..Horizon |-> 0]
      OBVIOUS
    <3>2. posted[i] = p /\ \A d \in 0..Horizon : p[d] = 0
      BY <2>1, <3>1
    <3>3. SumFunction(p) = 0
      <4>1. IsFiniteSet(0..Horizon) /\ DOMAIN p = 0..Horizon
        BY <3>1, FS_Interval, RecurringAssumption
      <4>2. PICK dates : dates = 0..Horizon
        OBVIOUS
      <4>3. SumFunctionOnSet(p, dates) = 0
        BY <3>2, <4>1, <4>2, SumOfZeros
      <4> QED BY <4>1, <4>2, <4>3 DEF SumFunction
    <3>4. MaxOccurrences[i] \in Nat \ {0}
      BY RecurringAssumption
    <3>5. Once(i) /\ Within(i) /\ Fits(i, 0, 0)
      BY <3>2, <3>3, <3>4 DEF Once, Within, Fits
    <3>6. AtItsEnd(i)
      BY <2>1, <2>2, <3>4, <3>5 DEF AtItsEnd
    <3>7. InHandOf(i) = {}
      BY <2>1, <2>2 DEF InHandOf
    <3> QED BY <3>5, <3>6, <3>7 DEF ItemHolds
  <2> QED BY <2>3, <2>4 DEF RecurringInv
<1> QED BY <1>1, <1>2, <1>3, <1>4 DEF JobsInv

LEMMA JobsStep == JobsInv /\ [JobsNext]_JobsVars => JobsInv'
<1> SUFFICES ASSUME JobsInv, [JobsNext]_JobsVars PROVE JobsInv'
  OBVIOUS
<1>1. TypedInv /\ PaidInv /\ LockInv /\ LockTypeOK /\ Places /\ WatchInv /\ RecurringInv
  BY DEF JobsInv, TypedInv, PaidInv, LockInv
<1>2. CASE PayrollNext /\ UNCHANGED <<watchVars, recurringVars>>
  <2>1. PayrollLock /\ UNCHANGED watchVars /\ UNCHANGED recurringVars
    BY <1>2, PayrollLocks
  <2>2. TypedInv'
    BY <1>1, <1>2, PaidStep, RunsTypedStep DEF TypedInv
  <2>3. Places' /\ WatchInv' /\ RecurringInv'
    BY <1>1, <1>2, <2>1, PlacesKept, WatchUnderPayroll, RecurringBesides
  <2> QED BY <2>2, <2>3 DEF JobsInv
<1>3. CASE WatchNext /\ UNCHANGED recurringVars
  <2>1. WatchLock /\ OthersLock /\ UNCHANGED payrollVars
    BY <1>3, WatchLocks DEF OthersLock
  <2>2. LockInv'
    BY <1>1, <2>1, OthersAreLockSteps, LockStepKeepsInv
  <2>3. TypedInv'
    BY <1>1, <2>1, <2>2, BesidePayroll
  <2>4. Places' /\ WatchInv' /\ RecurringInv'
    BY <1>1, <1>3, <2>1, PlacesKept, WatchStepKeeps, RecurringBesides
  <2> QED BY <2>3, <2>4 DEF JobsInv
<1>4. CASE RecurringNext /\ UNCHANGED <<payrollVars, watchVars>>
  <2>1. OthersLock /\ UNCHANGED payrollVars
    BY <1>4, RecurringLocks DEF OthersLock
  <2>2. LockInv'
    BY <1>1, <2>1, OthersAreLockSteps, LockStepKeepsInv
  <2>3. TypedInv'
    BY <1>1, <2>1, <2>2, BesidePayroll
  <2>4. Places' /\ WatchInv' /\ RecurringInv'
    BY <1>1, <1>4, <2>1, PlacesKept, WatchBesides, RecurringStepKeeps
  <2> QED BY <2>3, <2>4 DEF JobsInv
<1>5. CASE UNCHANGED JobsVars
  <2>1. /\ UNCHANGED lockVars /\ UNCHANGED payrollVars /\ UNCHANGED watchVars
        /\ UNCHANGED recurringVars /\ OthersLock /\ WatchLock
    BY <1>5 DEF JobsVars, OthersLock, WatchLock
  <2>2. LockInv'
    BY <1>1, <2>1, OthersAreLockSteps, LockStepKeepsInv
  <2>3. TypedInv'
    BY <1>1, <2>1, <2>2, BesidePayroll
  <2>4. Places' /\ WatchInv' /\ RecurringInv'
    BY <1>1, <2>1, PlacesKept, WatchBesides, RecurringBesides
  <2> QED BY <2>3, <2>4 DEF JobsInv
<1> QED BY <1>2, <1>3, <1>4, <1>5 DEF JobsNext

LEMMA JobsAlways == JobsSpec => []JobsInv
BY JobsInitially, JobsStep, PTL DEF JobsSpec

(* The wallets and the pages of the payroll, beside the other jobs. *)
LEMMA WalletsAndPagesStep ==
  ASSUME JobsInv, CommissionInv, PagesInv, [JobsNext]_JobsVars
  PROVE  CommissionInv' /\ PagesInv'
<1>1. TypedInv' /\ LockInv
  BY JobsStep DEF JobsInv, TypedInv, PaidInv
<1>2. CASE PayrollNext
  BY <1>2, CommissionStep, PagesStep
<1>3. CASE OthersLock /\ UNCHANGED payrollVars
  <2>1. LockStep /\ UNCHANGED <<staff, payable, earned, payout, run, relay>>
    BY <1>3, OthersAreLockSteps DEF payrollVars
  <2>2. CommissionInv'
    BY <1>1, <2>1, BesideTheWallets DEF InHand
  <2>3. PagesInv'
    BY <1>1, <2>1 DEF PagesInv, RunKept, SettledStaff, Owed, OwedPaid, HasPayout, PageIndex, Before
  <2> QED BY <2>2, <2>3
<1>4. CASE UNCHANGED JobsVars
  <2>1. OthersLock /\ UNCHANGED payrollVars
    BY <1>4 DEF JobsVars, OthersLock, WatchLock
  <2> QED BY <1>3, <2>1
<1>5. (WatchNext \/ (RecurringNext /\ UNCHANGED payrollVars)) => OthersLock /\ UNCHANGED payrollVars
  BY WatchLocks, RecurringLocks DEF OthersLock
<1> QED BY <1>2, <1>3, <1>4, <1>5 DEF JobsNext

(* Whatever payroll runs, relays, requests, edits, jobs that watch and      *)
(* nightly ticks do in any order: no date of a recurring transaction is     *)
(* posted twice and no more of them than were asked for, unless the job     *)
(* crashed between its two transactions, overran its lock or a stale edit   *)
(* wrote the old schedule back; no alarm says of a transfer what was not    *)
(* so; and a job that is done has told of every transfer it could see that  *)
(* the books have missed, but for the payouts it had to leave out.          *)
THEOREM NightlyJobs == JobsSpec => []NightlyJobsHold
<1>1. JobsInv => NightlyJobsHold
  <2> SUFFICES ASSUME JobsInv PROVE NightlyJobsHold
    OBVIOUS
  <2>1. RecurringPostedOnce
    <3> SUFFICES ASSUME Regular, NEW i \in Items
                 PROVE  /\ \A d \in 0..Horizon : posted[i][d] <= 1
                        /\ "reopened" \in slip.kinds \/ SumFunction(posted[i]) <= MaxOccurrences[i]
      BY DEF RecurringPostedOnce, Regular
    <3> QED BY DEF JobsInv, RecurringInv, ItemHolds, Once, Within, Reopened
  <2>2. AlarmsAreReal
    BY DEF JobsInv, WatchInv, Justified, AlarmsAreReal
  <2>3. LostTransfersReported
    <3> SUFFICES ASSUME NEW w \in Watchers, Finished(w)
                 PROVE  watch[w].owed \subseteq watch[w].told \cup watch[w].missed
      BY DEF LostTransfersReported
    <3>1. watch[w].todo = {} /\ Named(watch[w].found) = {}
      BY DEF Finished, Named
    <3>2. watch[w].owed \subseteq
             watch[w].todo \cup watch[w].told \cup watch[w].missed \cup Named(watch[w].found)
      BY DEF JobsInv, WatchInv, WatchKeeps
    <3> QED BY <3>1, <3>2
  <2> QED BY <2>1, <2>2, <2>3 DEF NightlyJobsHold
<1> QED BY <1>1, JobsAlways, PTL

(* Every variable of the four modules keeps its kind, the payouts' ages and *)
(* the reports of the jobs that watch among them, while all jobs interleave.*)
THEOREM PartsTypeCorrect == JobsSpec => []PartsTypeOK
<1>1. JobsInv => PartsTypeOK
  <2> SUFFICES ASSUME JobsInv PROVE PartsTypeOK
    OBVIOUS
  <2>1. PayrollTypeOK
    BY TypedSuffices DEF JobsInv
  <2>2. WatchTypeOK
    <3>1. \A r \in Reports : r.payout \in Keys /\ r.status \in {"COMPLETED", "FAILED"}
      BY DEF Reports
    <3> QED BY <3>1, WatchFields DEF JobsInv, WatchInv, WatchTyped, WatchTypeOK
  <2>3. RecurringTypeOK
    BY DEF JobsInv, RecurringInv, RecurringTyped, RecurringTypeOK
  <2> QED BY <2>1, <2>2, <2>3 DEF PartsTypeOK
<1> QED BY <1>1, JobsAlways, PTL

----------------------------------------------------------------------------
(* Every step of the instances MCPayroll chooses from is one of these. *)
LEMMA PartsAreJobs == [PartNext]_PartVars => [JobsNext]_JobsVars
<1> SUFFICES ASSUME [PartNext]_PartVars PROVE [JobsNext]_JobsVars
  OBVIOUS
<1>1. ASSUME UNCHANGED PartVars PROVE UNCHANGED JobsVars
  BY <1>1 DEF PartVars, JobsVars
<1>2. ASSUME NEW someRuns \in SUBSET Runs, NEW someEmployees \in SUBSET Employees,
             NEW months \in SUBSET Periods, NEW mayFail, RunsOf(someRuns, someEmployees, months, mayFail)
      PROVE  PayrollNext
  BY <1>2 DEF RunsOf, PayrollNext
<1>3. ASSUME NEW someRelays \in SUBSET Relays, RelaysOf(someRelays) PROVE PayrollNext
  BY <1>3 DEF RelaysOf, PayrollNext
<1>4. ASSUME PayrollParts PROVE PayrollNext
  <2>1. (ChangeStaff(e1) \/ LockExpires(RunLock) \/ LockExpires(RelayLock)) => PayrollNext
    BY MembersAssumption DEF PayrollNext
  <2>2. \/ RunsOf(Runs, Employees, {m1}, faults = 0)
        \/ ChangeStaff(e1) \/ LockExpires(RunLock) \/ LockExpires(RelayLock)
        \/ RunsOf({r2}, {e2}, IF part = "months" THEN Periods ELSE {m1}, FALSE)
        \/ RelaysOf(Relays) \/ RunsOf({r2}, {e1}, Periods, FALSE) \/ RelaysOf({q1})
    BY <1>4 DEF PayrollParts
  <2>3. /\ Runs \in SUBSET Runs /\ {r2} \in SUBSET Runs /\ Employees \in SUBSET Employees
        /\ {e1} \in SUBSET Employees /\ {e2} \in SUBSET Employees
        /\ {m1} \in SUBSET Periods /\ Periods \in SUBSET Periods
        /\ Relays \in SUBSET Relays /\ {q1} \in SUBSET Relays
    BY MembersAssumption
  <2>4. (IF part = "months" THEN Periods ELSE {m1}) \in SUBSET Periods
    BY <2>3
  <2> QED BY <1>2, <1>3, <2>1, <2>2, <2>3, <2>4
<1>5. ASSUME WatchParts PROVE (PayrollNext /\ UNCHANGED watchVars) \/ WatchNext
  <2>1. ASSUME \/ \E m \in Periods : RunOnce(m)
               \/ RunStep(r2) \/ RelaysOf({q1}) \/ LockExpires(RelayLock)
        PROVE  PayrollNext
    <3>1. r2 \in Runs /\ {q1} \in SUBSET Relays
      BY MembersAssumption
    <3> QED BY <1>3, <2>1, <3>1 DEF RunOnce, PayrollNext
  <2>2. m1 \in Periods
    BY MembersAssumption
  <2>3. ((\E w \in Watchers : WatchStep(w)) \/ \E k \in Keys : TimePasses(k)) => WatchNext
    BY DEF WatchNext
  <2> QED BY <1>5, <2>1, <2>2, <2>3 DEF WatchParts
<1> QED BY <1>1, <1>4, <1>5 DEF PartNext, JobsNext

(* What the run of MCPayroll checks of its instances holds of them for any  *)
(* staff, months, jobs and bounds: the locks exclude, no commission is paid *)
(* out twice or lost, transfers are as recorded, nobody is skipped, and the *)
(* jobs beside the payroll keep their promises.                             *)
THEOREM PartsHold ==
  PartSpec => [](/\ HoldersExclude /\ CommissionConserved /\ PaidAsRecorded
                 /\ NobodySkipped /\ NightlyJobsHold /\ PartsTypeOK)
<1>1. PartInit => JobsInit
  BY DEF PartInit, JobsInit
<1>2. JobsInit => CommissionInv /\ PagesInv
  BY CommissionInitially, PagesInitially DEF JobsInit
<1>3. CommissionInv => CommissionConserved
  BY DEF CommissionInv
<1>4. PagesInv => NobodySkipped
  BY PagesSuffice
<1>5. JobsInv => HoldersExclude /\ PaidAsRecorded
  BY PaidInvSuffices DEF JobsInv, TypedInv, PaidInv, LockInv
<1>6. PartSpec => JobsSpec
  BY <1>1, PartsAreJobs, PTL DEF PartSpec, JobsSpec
<1>7. JobsSpec => [](CommissionInv /\ PagesInv)
  <2>1. JobsInv /\ (CommissionInv /\ PagesInv) /\ [JobsNext]_JobsVars => (CommissionInv /\ PagesInv)'
    BY WalletsAndPagesStep
  <2> QED BY <1>2, <2>1, JobsAlways, PTL DEF JobsSpec
<1> QED BY <1>3, <1>4, <1>5, <1>6, <1>7, JobsAlways, NightlyJobs, PartsTypeCorrect, PTL
==============================================================================
