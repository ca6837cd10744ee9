--------------------------- MODULE TaskCommission ---------------------------
(***************************************************************************)
(* The tasks of confirmed bookings, the staff assigned to them and the     *)
(* commissions in their wallets: pending while a task is open, payable     *)
(* once it is completed.                                                   *)
(*                                                                         *)
(* The handlers that take the task with findTaskWithLock keep its lock to  *)
(* the end and are one action each; what they refuse is rolled back and    *)
(* changes nothing.  startTask and update read a task without a lock and   *)
(* save the entity, cancelBooking does so with every task of the booking:  *)
(* these are split at the read, at the reload that an ORM save starts with *)
(* and at the update of the columns in which the entity differs from the   *)
(* reloaded row.                                                           *)
(***************************************************************************)
EXTENDS Integers, FiniteSets, Functions

CONSTANTS
    Tasks, Users, NoUser,
    Bookings,
    BookingOf,      \* task -> its booking
    Commission,     \* task -> its commissionSnapshot
    Shares,         \* commissions given with addTaskAssignee
    Sessions,       \* handlers that hold unlocked copies at the same time
    NoSession,
    MaxBalance,     \* bound on wallet balances, for model checking
    MaxCompletions  \* bound on completions of one task, for model checking

ASSUME NamesAssumption == NoUser \notin Users /\ NoSession \notin Sessions
ASSUME TasksAssumption == IsFiniteSet(Tasks)
ASSUME BookingsAssumption == BookingOf \in [Tasks -> Bookings]
ASSUME AmountsAssumption == Commission \in [Tasks -> Nat] /\ Shares \subseteq Nat \ {0}
ASSUME BoundsAssumption == MaxBalance \in Nat /\ MaxCompletions \in Nat

VARIABLES
    task,        \* the tasks rows
    assignee,    \* task -> user -> the task_assignees row
    wallet,      \* user -> the employee_wallets row
    cancelled,   \* bookings that are CANCELLED
    locked,      \* booking -> the cancelBooking that holds its row
    pc,          \* session -> how far its handler is
    copy,        \* session -> task -> the row it read
    diff,        \* session -> task -> the columns its save is about to update
    completions, \* task -> TaskCompletedEvent rows in the outbox
    slips        \* kinds of irregular step that have happened

vars == <<task, assignee, wallet, cancelled, locked, pc, copy, diff, completions, slips>>
----------------------------------------------------------------------------
Statuses == {"PENDING", "IN_PROGRESS", "COMPLETED", "CANCELLED"}
Final == {"COMPLETED", "CANCELLED"}
Task == [status : Statuses, assigned : Users \cup {NoUser}]
Assignee == [role : {"none", "ASSISTANT", "LEAD"}, share : Nat]
Wallet == [pending : Nat, payable : Nat]
Columns == {"status", "assigned"}
Steps == {"idle", "save", "write", "cancel", "cancelWrite"}
Slips == {"legacy", "late", "undone"}

TaskRow(status, assigned) == [status |-> status, assigned |-> assigned]
Member(role, share) == [role |-> role, share |-> share]
Balances(pending, payable) == [pending |-> pending, payable |-> payable]
NoMember == Member("none", 0)

(* A copy of a task the session did not read. *)
NotRead == TaskRow("PENDING", NoUser)
NoCopies == [t \in Tasks |-> NotRead]
NoDiff == [t \in Tasks |-> {}]

(* spawnTasksForConfirm: a task is PENDING, assigned to nobody, with the    *)
(* commission of its processing type.                                       *)
Init ==
    /\ task = [t \in Tasks |-> TaskRow("PENDING", NoUser)]
    /\ assignee = [t \in Tasks |-> [u \in Users |-> NoMember]]
    /\ wallet = [u \in Users |-> Balances(0, 0)]
    /\ cancelled = {}
    /\ locked = [b \in Bookings |-> NoSession]
    /\ pc = [s \in Sessions |-> "idle"]
    /\ copy = [s \in Sessions |-> NoCopies]
    /\ diff = [s \in Sessions |-> NoDiff]
    /\ completions = [t \in Tasks |-> 0]
    /\ slips = {}

(* What the irregular steps of the properties are, in terms of the code:    *)
(* "legacy"  a commission went over task.assignedUserId, not an assignee;   *)
(* "late"    an assignee was added to or removed from a finished task;      *)
(* "undone"  an ORM save took a task out of a final status.                 *)
Slip(kind, happened) == slips' = IF happened THEN slips \cup {kind} ELSE slips

Idle == UNCHANGED <<cancelled, locked, pc, copy, diff>>
Team(t) == {u \in Users : assignee[t][u].role # "none"}
Finished(t) == task[t].status \in Final
----------------------------------------------------------------------------
(* The values the assignedUserId column may have after a save that sets it  *)
(* to u: the entity also holds the assignedUser it was loaded with, if any, *)
(* and of the two either may win.                                           *)
AssignedAfter(t, u) == IF task[t].assigned = NoUser THEN {u} ELSE {u, task[t].assigned}

Assigns(t, u) == \E v \in AssignedAfter(t, u) :
                    task' = [task EXCEPT ![t] = TaskRow(task[t].status, v)]

(* The operations of WalletService on a row it has locked. *)
AddPending(w, amount) == Balances(w.pending + amount, w.payable)
SubtractPending(w, amount) == Balances(w.pending - amount, w.payable)
MoveToPayable(w, amount) == Balances(w.pending - amount, w.payable + amount)
AddToPayable(w, amount) == Balances(w.pending, w.payable + amount)

(* transferPendingCommission: from the one user's pending balance, unless   *)
(* it is the same user, to the other's.                                     *)
TransferPending(from, to, amount) ==
    LET taken(v) == IF v = from /\ from # to THEN amount ELSE 0
        added(v) == IF v = to THEN amount ELSE 0
    IN  /\ \A v \in Users : /\ taken(v) <= wallet[v].pending
                            /\ wallet[v].pending + added(v) <= MaxBalance
        /\ wallet' = [v \in Users |->
              Balances(wallet[v].pending - taken(v) + added(v), wallet[v].payable)]

(* assignTask: the task's commission goes with the assigned user. *)
AssignTask(t, u) ==
    /\ TransferPending(task[t].assigned, u, Commission[t])
    /\ Assigns(t, u)
    /\ Slip("legacy", Commission[t] > 0)
    /\ Idle
    /\ UNCHANGED <<assignee, completions>>

(* syncLegacyAssignedUserIdWithLead, on the assignees it finds. *)
Sync(t, team) ==
    LET leads == {u \in Users : team[u].role = "LEAD"}
        next == IF leads = {} THEN {NoUser} ELSE leads
    IN  \E u \in next : IF task[t].assigned = u THEN UNCHANGED task ELSE Assigns(t, u)

(* Mutation: a new lead does not demote the old one. *)
WithRoleTwoLeads(t, u, role, share) == [assignee[t] EXCEPT ![u] = Member(role, share)]

(* The assignees of t once u has the role: a new lead demotes the others.   *)
WithRole(t, u, role, share) ==
    [v \in Users |->
        IF v = u THEN Member(role, share)
        ELSE IF role = "LEAD" /\ assignee[t][v].role = "LEAD"
             THEN Member("ASSISTANT", assignee[t][v].share)
             ELSE assignee[t][v]]

SetTeam(t, team) == assignee' = [assignee EXCEPT ![t] = team] /\ Sync(t, team)

(* addTaskAssignee, with the commission of the request or of the task. *)
AddTaskAssignee(t, u, role, share) ==
    /\ u \notin Team(t)
    /\ share > 0
    /\ wallet[u].pending + share <= MaxBalance
    /\ SetTeam(t, WithRole(t, u, role, share))
    /\ wallet' = [wallet EXCEPT ![u] = AddPending(@, share)]
    /\ Slip("late", Finished(t))
    /\ Idle
    /\ UNCHANGED completions

UpdateTaskAssignee(t, u, role) ==
    /\ u \in Team(t)
    /\ SetTeam(t, WithRole(t, u, role, assignee[t][u].share))
    /\ Idle
    /\ UNCHANGED <<wallet, completions, slips>>

WithoutShare(t, u) == SubtractPending(wallet[u], assignee[t][u].share)

(* Mutation: the balance is not compared with what is taken from it. *)
PendingCoversAnything(t, u) == TRUE
PendingCovers(t, u) == assignee[t][u].share <= wallet[u].pending

(* removeTaskAssignee, whatever the status of the task. *)
RemoveTaskAssignee(t, u) ==
    /\ u \in Team(t)
    /\ PendingCovers(t, u)
    /\ wallet' = [wallet EXCEPT ![u] = WithoutShare(t, u)]
    /\ SetTeam(t, [assignee[t] EXCEPT ![u] = NoMember])
    /\ Slip("late", Finished(t))
    /\ Idle
    /\ UNCHANGED completions

(* Mutation: a completed task may be completed. *)
CompletableAgain(t) == BookingOf[t] \notin cancelled
Completable(t) == task[t].status # "COMPLETED" /\ BookingOf[t] \notin cancelled

MarkCompleted(t) ==
    /\ Completable(t)
    /\ completions[t] < MaxCompletions
    /\ task' = [task EXCEPT ![t] = TaskRow("COMPLETED", task[t].assigned)]
    /\ completions' = [completions EXCEPT ![t] = @ + 1]
    /\ Idle
    /\ UNCHANGED assignee

(* completeTask of a task with assignees: each one's commission moves from  *)
(* pending to payable, or the whole is refused.                             *)
CompleteByTeam(t) ==
    /\ Team(t) # {}
    /\ \A u \in Users : PendingCovers(t, u)
    /\ MarkCompleted(t)
    /\ wallet' = [u \in Users |-> MoveToPayable(wallet[u], assignee[t][u].share)]
    /\ UNCHANGED slips

(* completeTask of a task without: the assigned user gets the task's own    *)
(* commission, added to payable; the pending balance is not touched.        *)
CompleteByAssigned(t) ==
    /\ Team(t) = {}
    /\ task[t].assigned # NoUser
    /\ wallet[task[t].assigned].payable + Commission[t] <= MaxBalance
    /\ MarkCompleted(t)
    /\ wallet' = [wallet EXCEPT ![task[t].assigned] = AddToPayable(@, Commission[t])]
    /\ Slip("legacy", Commission[t] > 0)
----------------------------------------------------------------------------
Goto(s, step, rows) == pc' = [pc EXCEPT ![s] = step] /\ copy' = [copy EXCEPT ![s] = rows]

(* startTask and update read the task ... *)
ReadTask(s, t, status) ==
    /\ pc[s] = "idle"
    /\ Goto(s, "save", [NoCopies EXCEPT ![t] = TaskRow(status, task[t].assigned)])
    /\ diff' = [diff EXCEPT ![s] = [NoDiff EXCEPT ![t] = Columns]]
    /\ UNCHANGED <<task, assignee, wallet, cancelled, locked, completions, slips>>

StartTask(s, t) == task[t].status = "PENDING" /\ ReadTask(s, t, "IN_PROGRESS")
EditTask(s, t) == ReadTask(s, t, task[t].status)

(* ... cancelBooking locks the booking and reads its tasks, none COMPLETED, *)
(* to save them as CANCELLED ...                                            *)
TasksOf(b) == {t \in Tasks : BookingOf[t] = b}

CancelRead(s, b) ==
    /\ pc[s] = "idle"
    /\ b \notin cancelled
    /\ locked[b] = NoSession
    /\ \A t \in TasksOf(b) : task[t].status # "COMPLETED"
    /\ locked' = [locked EXCEPT ![b] = s]
    /\ Goto(s, "cancel", [t \in Tasks |-> IF t \in TasksOf(b)
                             THEN TaskRow("CANCELLED", task[t].assigned) ELSE NotRead])
    /\ diff' = [diff EXCEPT ![s] = [t \in Tasks |-> IF t \in TasksOf(b) THEN Columns ELSE {}]]
    /\ UNCHANGED <<task, assignee, wallet, cancelled, completions, slips>>

(* ... the save reloads the rows and finds the columns that differ ...      *)
Differing(s) == [t \in Tasks |-> {c \in diff[s][t] : copy[s][t][c] # task[t][c]}]

SaveReload(s) ==
    /\ pc[s] \in {"save", "cancel"}
    /\ pc' = [pc EXCEPT ![s] = IF pc[s] = "save" THEN "write" ELSE "cancelWrite"]
    /\ diff' = [diff EXCEPT ![s] = Differing(s)]
    /\ UNCHANGED <<task, assignee, wallet, cancelled, locked, copy, completions, slips>>

(* ... and updates these columns, whatever the row says by then.            *)
Written(s, t) ==
    LET source(c) == IF c \in diff[s][t] THEN copy[s][t] ELSE task[t]
    IN  TaskRow(source("status").status, source("assigned").assigned)

SavesTasks(s) ==
    /\ task' = [t \in Tasks |-> Written(s, t)]
    /\ Goto(s, "idle", NoCopies)
    /\ diff' = [diff EXCEPT ![s] = NoDiff]

Undoes(s) == \E t \in Tasks : Finished(t) /\ Written(s, t).status # task[t].status

SaveWrite(s) ==
    /\ pc[s] = "write"
    /\ SavesTasks(s)
    /\ Slip("undone", Undoes(s))
    /\ UNCHANGED <<assignee, wallet, cancelled, locked, completions>>

(* reverseTaskCommissions: what is taken from the pending balance of u for  *)
(* t, by its assignees or by the assigned user of the copy.                 *)
Reversed(s, t, u) ==
    IF Team(t) # {} THEN assignee[t][u].share
    ELSE IF copy[s][t].assigned = u THEN Commission[t] ELSE 0

(* Mutation: nothing is taken back. *)
NothingReversed(s, b, u) == 0
ReversedInAll(s, b, u) ==
    SumFunction([t \in Tasks |-> IF t \in TasksOf(b) THEN Reversed(s, t, u) ELSE 0])

ByAssigned(s, b) ==
    \E t \in TasksOf(b) : Team(t) = {} /\ copy[s][t].assigned # NoUser /\ Commission[t] > 0

CancelCommit(s, b) ==
    /\ pc[s] = "cancelWrite"
    /\ locked[b] = s
    /\ \A u \in Users : ReversedInAll(s, b, u) \in 0..wallet[u].pending
    /\ SavesTasks(s)
    /\ wallet' = [u \in Users |-> SubtractPending(wallet[u], ReversedInAll(s, b, u))]
    /\ cancelled' = cancelled \cup {b}
    /\ locked' = [locked EXCEPT ![b] = NoSession]
    /\ slips' = slips \cup (IF Undoes(s) THEN {"undone"} ELSE {})
                      \cup (IF ByAssigned(s, b) THEN {"legacy"} ELSE {})
    /\ UNCHANGED <<assignee, completions>>

(* A pending balance that does not cover what is taken rolls it all back.   *)
CancelRefused(s, b) ==
    /\ pc[s] = "cancelWrite"
    /\ locked[b] = s
    /\ ~ \A u \in Users : ReversedInAll(s, b, u) \in 0..wallet[u].pending
    /\ Goto(s, "idle", NoCopies)
    /\ diff' = [diff EXCEPT ![s] = NoDiff]
    /\ locked' = [locked EXCEPT ![b] = NoSession]
    /\ UNCHANGED <<task, assignee, wallet, cancelled, completions, slips>>

Assignment(t) ==
    \E u \in Users :
        \/ AssignTask(t, u) \/ RemoveTaskAssignee(t, u)
        \/ \E role \in {"ASSISTANT", "LEAD"} :
              \/ UpdateTaskAssignee(t, u, role)
              \/ \E share \in Shares \cup {Commission[t]} : AddTaskAssignee(t, u, role, share)
Completion(t) == CompleteByTeam(t) \/ CompleteByAssigned(t)
Saving(s) == (\E t \in Tasks : StartTask(s, t) \/ EditTask(s, t)) \/ SaveReload(s) \/ SaveWrite(s)
Cancellation(s, b) == CancelRead(s, b) \/ CancelCommit(s, b) \/ CancelRefused(s, b)

Next ==
    \/ \E t \in Tasks : Assignment(t) \/ Completion(t)
    \/ \E s \in Sessions : Saving(s) \/ \E b \in Bookings : Cancellation(s, b)

Spec == Init /\ [][Next]_vars
----------------------------------------------------------------------------
(* Every variable holds a value of its kind; whatever the order in which    *)
(* commissions are added, moved and taken back, no balance goes below zero. *)
TypeOK ==
    /\ task \in [Tasks -> Task]
    /\ assignee \in [Tasks -> [Users -> Assignee]]
    /\ wallet \in [Users -> Wallet]
    /\ cancelled \subseteq Bookings
    /\ locked \in [Bookings -> Sessions \cup {NoSession}]
    /\ pc \in [Sessions -> Steps]
    /\ copy \in [Sessions -> [Tasks -> Task]]
    /\ diff \in [Sessions -> [Tasks -> SUBSET Columns]]
    /\ completions \in [Tasks -> Nat]
    /\ slips \subseteq Slips

(* addTaskAssignee and updateTaskAssignee: a task has at most one LEAD, in  *)
(* whatever order leads are made, demoted and removed.                      *)
OneLead ==
    \A t \in Tasks : \A u, v \in Users :
        assignee[t][u].role = "LEAD" /\ assignee[t][v].role = "LEAD" => u = v

(* "prevent task double-completion": a task's commission is accrued and its *)
(* completion published once.                                               *)
AccruedOnce == \A t \in Tasks : completions[t] <= 1

(* Nothing but a save of an old copy completes a task twice: without one a  *)
(* task has been completed exactly when it says so, however assignments,    *)
(* cancellations and completions interleave.                                *)
AccruedOnceUnlessUndone ==
    "undone" \notin slips =>
        \A t \in Tasks : completions[t] = IF task[t].status = "COMPLETED" THEN 1 ELSE 0

(* The wallets hold the commissions of the tasks: pending what the open     *)
(* tasks of a user owe, payable what the completed ones earned.  It takes   *)
(* one of the irregular steps to make them differ: a commission that went   *)
(* over assignedUserId, an assignee changed on a finished task, or a task   *)
(* taken out of a final status by an old copy.                              *)
ShareWhere(u, statuses) ==
    SumFunction([t \in Tasks |-> IF task[t].status \in statuses THEN assignee[t][u].share ELSE 0])

WalletsMatchTasks ==
    slips = {} => \A u \in Users :
        /\ wallet[u].pending = ShareWhere(u, {"PENDING", "IN_PROGRESS"})
        /\ wallet[u].payable = ShareWhere(u, {"COMPLETED"})
=============================================================================
