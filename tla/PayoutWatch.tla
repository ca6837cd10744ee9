----------------------------- MODULE PayoutWatch -----------------------------
(***************************************************************************)
(* The two jobs that look for payouts the relay has left behind: the       *)
(* nightly reconciliation, which files a ticket for every payout that is   *)
(* PENDING for a day and that the gateway has paid or refused, and the     *)
(* consistency check, every ten minutes, which logs what it finds.  They   *)
(* change nothing of the payroll; they read it while runs and relays work. *)
(***************************************************************************)
EXTENDS PayrollPayout

CONSTANTS
    Nightly, Monitors,       \* the jobs of Jobs that reconcile, those that check
    NightlyLock, MonitorLock,
    StuckLimit               \* findStuckPayouts: how many the check takes

ASSUME WatchAssumption ==
    /\ Nightly \subseteq Jobs /\ Monitors \subseteq Jobs /\ Nightly \cap Monitors = {}
    /\ (Nightly \cup Monitors) \cap (Runs \cup Relays) = {}
    /\ {NightlyLock, MonitorLock} \subseteq Resources \ {RunLock, RelayLock}
    /\ StuckLimit \in Nat \ {0}

VARIABLES
    age,    \* payout -> 0, 1 (ten minutes) or 2 (a day)
    watch,  \* job -> the payouts it has to ask for, and what it found and told
    alarms  \* history: the last reports of a payout paid by the gateway and PENDING here

watchVars == <<age, watch, alarms>>

Watchers == Nightly \cup Monitors
LockOf(w) == IF w \in Nightly THEN NightlyLock ELSE MonitorLock

\* "owed" and "missed" are history: the payouts read that the gateway had
\* paid by then, and those for which the gateway or the ticketing failed.
WatchAt(todo, found, told, owed, missed) ==
    [todo |-> todo, found |-> found, told |-> told, owed |-> owed, missed |-> missed]
NoWatch == WatchAt({}, {}, {}, {}, {})

WatchInit ==
    /\ age = [k \in Keys |-> 0]
    /\ watch = [w \in Watchers |-> NoWatch]
    /\ alarms = {}
----------------------------------------------------------------------------
TimePasses(k) ==
    /\ k \in Pending /\ age[k] < 2
    /\ age' = [age EXCEPT ![k] = @ + 1]
    /\ UNCHANGED <<allPayrollVars, watch, alarms>>

(* findStalePayouts takes all that are older than a day, findStuckPayouts   *)
(* the oldest of those older than ten minutes.                              *)
Stale == {k \in Pending : age[k] = 2}
Stuck == {k \in Pending : age[k] >= 1}

Lists(w) ==
    IF w \in Nightly THEN {Stale}
    ELSE {some \in SUBSET Stuck :
            /\ Cardinality(some) = IF Cardinality(Stuck) < StuckLimit THEN Cardinality(Stuck) ELSE StuckLimit
            /\ \A k \in some, later \in Stuck \ some : age[k] >= age[later]}

StartWatch(w) ==
    /\ Acquire(w, LockOf(w))
    /\ \E list \in Lists(w) :
          watch' = [watch EXCEPT ![w] = WatchAt(list, {}, {}, {k \in list : bank[k] > 0}, {})]
    /\ UNCHANGED <<payrollVars, age, alarms>>

(* The gateway's answer for a reference it has paid, and for another one.   *)
GatewayStatus(k) == IF bank[k] > 0 THEN {"COMPLETED"} ELSE {"FAILED", "NOT_FOUND"}

(* Mutation: only a payout that the gateway refused is a mismatch. *)
MismatchRefused(status) == status = "FAILED"

(* A PENDING payout of which the gateway says otherwise. *)
Mismatch(status) == status \in {"COMPLETED", "FAILED"}

(* A report, with what was true of the payout when the gateway was asked.   *)
Report(k, status) ==
    [payout |-> k, status |-> status, row |-> payout[k].status,
     relayed |-> \E q \in Relays : k \in relay[q].paid, faulty |-> faults > 0]

Raised(reports) == alarms' = {r \in reports : r.status = "COMPLETED"}

(* checkPayoutStatus for one payout of the list.  The reconciliation keeps  *)
(* a mismatch until all are checked, the consistency check logs it.         *)
Ask(w, k) ==
    /\ k \in watch[w].todo
    /\ \E status \in GatewayStatus(k) :
         LET reports == IF Mismatch(status) THEN {Report(k, status)} ELSE {} IN
         IF w \in Nightly
           THEN /\ watch' = [watch EXCEPT ![w].todo = @ \ {k}, ![w].found = @ \cup reports]
                /\ UNCHANGED alarms
           ELSE /\ watch' = [watch EXCEPT ![w].todo = @ \ {k}, ![w].told = @ \cup {r.payout : r \in reports}]
                /\ Raised(reports)
    /\ UNCHANGED <<allPayrollVars, age>>

(* The gateway does not answer: the error is logged and the payout is left. *)
AskFails(w, k) ==
    /\ k \in watch[w].todo
    /\ watch' = [watch EXCEPT ![w].todo = @ \ {k}, ![w].missed = @ \cup {k}]
    /\ UNCHANGED <<allPayrollVars, age, alarms>>

(* createMismatchTicket, after all payouts of the tenant have been checked. *)
FileTicket(w, r) ==
    /\ watch[w].todo = {} /\ r \in watch[w].found
    /\ watch' = [watch EXCEPT ![w].found = @ \ {r}, ![w].told = @ \cup {r.payout}]
    /\ Raised({r})
    /\ UNCHANGED <<allPayrollVars, age>>

(* The ticketing webhook fails; allSettled goes on with the others. *)
TicketFails(w, r) ==
    /\ watch[w].todo = {} /\ r \in watch[w].found
    /\ watch' = [watch EXCEPT ![w].found = @ \ {r}, ![w].missed = @ \cup {r.payout}]
    /\ UNCHANGED <<allPayrollVars, age, alarms>>

Finished(w) == holding[w] = LockOf(w) /\ watch[w].todo = {} /\ watch[w].found = {}

EndWatch(w) ==
    /\ Finished(w)
    /\ Release(w)
    /\ watch' = [watch EXCEPT ![w] = NoWatch]
    /\ UNCHANGED <<payrollVars, age, alarms>>

CrashWatch(w) ==
    /\ holding[w] # Nothing
    /\ Abandon(w)
    /\ watch' = [watch EXCEPT ![w] = NoWatch]
    /\ UNCHANGED <<payrollVars, age, alarms>>

(* The keys live for two minutes and one; a job may overrun its own. *)
WatchLockExpires ==
    /\ \E r \in {NightlyLock, MonitorLock} : Expire(r)
    /\ UNCHANGED <<payrollVars, watchVars>>

WatchStep(w) ==
    \/ StartWatch(w) \/ EndWatch(w)
    \/ \E k \in Keys : Ask(w, k) \/ AskFails(w, k)
    \/ \E r \in watch[w].found : FileTicket(w, r) \/ TicketFails(w, r)

WatchNext ==
    \/ \E k \in Keys : TimePasses(k)
    \/ \E w \in Watchers : WatchStep(w) \/ CrashWatch(w)
    \/ WatchLockExpires
----------------------------------------------------------------------------
WatchTypeOK ==
    /\ age \in [Keys -> 0..2]
    /\ \A w \in Watchers :
         /\ watch[w].todo \cup watch[w].told \cup watch[w].owed \cup watch[w].missed \subseteq Keys
         /\ \A r \in watch[w].found : r.payout \in Keys /\ r.status \in {"COMPLETED", "FAILED"}

(* "Money has left the account but the ledger has not been updated" is      *)
(* reported for a reason: when the gateway was asked, the relay was between *)
(* its call and its commit, or had settled the payout after the list was    *)
(* read, or something had crashed, failed or overrun its lock before.       *)
AlarmsAreReal ==
    \A r \in alarms :
        /\ r.row = "PENDING" => r.relayed \/ r.faulty
        /\ r.row = "FAILED" => r.faulty
        /\ r.row # "none"

(* A job that is done has told of every payout it read that the gateway had *)
(* paid by then, but for those of which the gateway did not answer or whose *)
(* ticket failed, whatever relays and other jobs did meanwhile.             *)
LostTransfersReported ==
    \A w \in Watchers : Finished(w) => watch[w].owed \subseteq watch[w].told \cup watch[w].missed
==============================================================================
