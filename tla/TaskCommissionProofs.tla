----------------------- MODULE TaskCommissionProofs -----------------------
(* Theorems about TaskCommission, for every number of tasks, users,         *)
(* bookings and sessions, every commission and every bound.                 *)
EXTENDS TaskCommission, SumFacts

LEMMA TaskRowType ==
    ASSUME NEW status \in Statuses, NEW u \in Users \cup {NoUser}
    PROVE  TaskRow(status, u) \in Task /\ TaskRow(status, u).status = status
  BY DEF TaskRow, Task

LEMMA NotReadType == NotRead \in Task
  BY TaskRowType DEF NotRead, Statuses

LEMMA MemberType ==
    ASSUME NEW role \in {"none", "ASSISTANT", "LEAD"}, NEW share \in Nat
    PROVE  /\ Member(role, share) \in Assignee
           /\ Member(role, share).role = role
           /\ Member(role, share).share = share
  BY DEF Member, Assignee

LEMMA BalancesType ==
    ASSUME NEW pending \in Nat, NEW payable \in Nat
    PROVE  Balances(pending, payable) \in Wallet
  BY DEF Balances, Wallet

(* What a handler that sets the assigned user leaves: tasks, with the       *)
(* statuses they had.                                                       *)
StatusKept == /\ task' \in [Tasks -> Task]
              /\ \A t \in Tasks : task'[t].status = task[t].status

(* What a completion leaves: tasks, one of them with a new status. *)
StatusesAfter(t, status) ==
    /\ task' \in [Tasks -> Task]
    /\ \A r \in Tasks : task'[r].status = IF r = t THEN status ELSE task[r].status

LEMMA AssignsKeepStatus ==
    ASSUME TypeOK, NEW t \in Tasks, NEW u \in Users \cup {NoUser}, Assigns(t, u)
    PROVE  StatusKept
  <1>1. task \in [Tasks -> Task] /\ task[t] \in Task
    BY DEF TypeOK
  <1>2. task[t].status \in Statuses /\ task[t].assigned \in Users \cup {NoUser}
    BY <1>1 DEF Task
  <1>3. PICK v \in AssignedAfter(t, u) :
             task' = [task EXCEPT ![t] = TaskRow(task[t].status, v)]
    BY DEF Assigns
  <1>4. v \in Users \cup {NoUser}
    BY <1>2 DEF AssignedAfter
  <1>5. TaskRow(task[t].status, v) \in Task /\ TaskRow(task[t].status, v).status = task[t].status
    BY <1>2, <1>4, TaskRowType
  <1> QED BY <1>1, <1>3, <1>5 DEF StatusKept

LEMMA SyncKeepsStatus ==
    ASSUME TypeOK, NEW t \in Tasks, NEW team, Sync(t, team)
    PROVE  StatusKept
  <1> DEFINE leads == {u \in Users : team[u].role = "LEAD"}
             next == IF leads = {} THEN {NoUser} ELSE leads
  <1>1. PICK u \in next : IF task[t].assigned = u THEN UNCHANGED task ELSE Assigns(t, u)
    BY DEF Sync
  <1>2. u \in Users \cup {NoUser}
    OBVIOUS
  <1> HIDE DEF next
  <1>3. CASE UNCHANGED task
    BY <1>3 DEF TypeOK, StatusKept
  <1>4. CASE Assigns(t, u)
    BY <1>2, <1>4, AssignsKeepStatus
  <1> QED BY <1>1, <1>3, <1>4

(* The team of a task once a user has a role in it. *)
LEMMA WithRoleTeam ==
    ASSUME TypeOK, NEW t \in Tasks, NEW u \in Users,
           NEW role \in {"ASSISTANT", "LEAD"}, NEW share \in Nat
    PROVE  /\ WithRole(t, u, role, share) \in [Users -> Assignee]
           /\ WithRole(t, u, role, share)[u] = Member(role, share)
           /\ \A v \in Users \ {u} :
                 LET w == WithRole(t, u, role, share)[v]
                 IN  w.role = "LEAD" => role # "LEAD" /\ assignee[t][v].role = "LEAD"
  <1>1. assignee[t] \in [Users -> Assignee]
    BY DEF TypeOK
  <1>2. \A v \in Users : assignee[t][v] \in Assignee /\ assignee[t][v].share \in Nat
    BY <1>1 DEF Assignee
  <1>3. Member(role, share) \in Assignee
    BY MemberType
  <1>4. \A v \in Users : /\ Member("ASSISTANT", assignee[t][v].share) \in Assignee
                         /\ Member("ASSISTANT", assignee[t][v].share).role = "ASSISTANT"
    BY <1>2, MemberType
  <1> QED BY <1>2, <1>3, <1>4 DEF WithRole
----------------------------------------------------------------------------
(* The part of the type invariant about the sessions' own state. *)
SessionsOK ==
    /\ pc \in [Sessions -> Steps]
    /\ copy \in [Sessions -> [Tasks -> Task]]
    /\ diff \in [Sessions -> [Tasks -> SUBSET Columns]]

LEMMA WalletTypes ==
    ASSUME TypeOK, NEW u \in Users
    PROVE  wallet[u].pending \in Nat /\ wallet[u].payable \in Nat
  BY DEF TypeOK, Wallet

LEMMA SlipType ==
    ASSUME TypeOK, NEW kind \in Slips, NEW happened, Slip(kind, happened)
    PROVE  slips' \subseteq Slips
  BY DEF TypeOK, Slip

(* What the handlers that do not save an old copy leave of the type         *)
(* invariant to show.                                                       *)
LEMMA IdleType ==
    ASSUME TypeOK, Idle, task' \in [Tasks -> Task],
           assignee' \in [Tasks -> [Users -> Assignee]], wallet' \in [Users -> Wallet],
           completions' \in [Tasks -> Nat], slips' \subseteq Slips
    PROVE  TypeOK'
  BY DEF TypeOK, Idle

LEMMA AssignTaskType ==
    ASSUME TypeOK, NEW t \in Tasks, NEW u \in Users, AssignTask(t, u)
    PROVE  TypeOK'
  <1> DEFINE old == task[t].assigned
             taken(v) == IF v = old /\ old # u THEN Commission[t] ELSE 0
             added(v) == IF v = u THEN Commission[t] ELSE 0
             left(v) == wallet[v].pending - taken(v) + added(v)
  <1>1. Commission[t] \in Nat
    BY AmountsAssumption
  <1>2. \A v \in Users : left(v) \in Nat
    <2> TAKE v \in Users
    <2>1. taken(v) <= wallet[v].pending
      BY DEF AssignTask, TransferPending
    <2>2. taken(v) \in Nat /\ added(v) \in Nat /\ wallet[v].pending \in Nat
      BY <1>1, WalletTypes
    <2> HIDE DEF taken, added
    <2> QED BY <2>1, <2>2
  <1>3. wallet' = [v \in Users |-> Balances(left(v), wallet[v].payable)]
    BY Zenon DEF AssignTask, TransferPending
  <1> HIDE DEF left
  <1>4. wallet' \in [Users -> Wallet]
    BY <1>2, <1>3, WalletTypes, BalancesType
  <1>5. StatusKept
    BY AssignsKeepStatus DEF AssignTask
  <1>6. slips' \subseteq Slips
    <2>1. Slip("legacy", Commission[t] > 0)
      BY DEF AssignTask
    <2> QED BY <2>1, SlipType DEF Slips
  <1> QED BY <1>4, <1>5, <1>6, IdleType DEF AssignTask, TypeOK, StatusKept

LEMMA AddTaskAssigneeType ==
    ASSUME TypeOK, NEW t \in Tasks, NEW u \in Users, NEW role \in {"ASSISTANT", "LEAD"},
           NEW share \in Nat, AddTaskAssignee(t, u, role, share)
    PROVE  TypeOK'
  <1> DEFINE team == WithRole(t, u, role, share)
  <1>1. team \in [Users -> Assignee]
    BY WithRoleTeam
  <1>2. assignee' = [assignee EXCEPT ![t] = team] /\ Sync(t, team)
    BY DEF AddTaskAssignee, SetTeam
  <1> HIDE DEF team
  <1>3. StatusKept /\ assignee' \in [Tasks -> [Users -> Assignee]]
    BY <1>1, <1>2, SyncKeepsStatus DEF TypeOK
  <1>4. wallet' \in [Users -> Wallet]
    <2>1. wallet' = [wallet EXCEPT ![u] = Balances(wallet[u].pending + share, wallet[u].payable)]
      BY DEF AddTaskAssignee, AddPending
    <2>2. Balances(wallet[u].pending + share, wallet[u].payable) \in Wallet
      BY WalletTypes, BalancesType
    <2> QED BY <2>1, <2>2 DEF TypeOK
  <1>5. slips' \subseteq Slips
    <2>1. Slip("late", Finished(t))
      BY DEF AddTaskAssignee
    <2> QED BY <2>1, SlipType DEF Slips
  <1> QED BY <1>3, <1>4, <1>5, IdleType DEF AddTaskAssignee, TypeOK, StatusKept

LEMMA UpdateTaskAssigneeType ==
    ASSUME TypeOK, NEW t \in Tasks, NEW u \in Users, NEW role \in {"ASSISTANT", "LEAD"},
           UpdateTaskAssignee(t, u, role)
    PROVE  TypeOK'
  <1> DEFINE team == WithRole(t, u, role, assignee[t][u].share)
  <1>1. assignee[t][u].share \in Nat
    BY DEF TypeOK, Assignee
  <1>2. team \in [Users -> Assignee]
    BY <1>1, WithRoleTeam
  <1>3. assignee' = [assignee EXCEPT ![t] = team] /\ Sync(t, team)
    BY DEF UpdateTaskAssignee, SetTeam
  <1> HIDE DEF team
  <1>4. StatusKept /\ assignee' \in [Tasks -> [Users -> Assignee]]
    BY <1>2, <1>3, SyncKeepsStatus DEF TypeOK
  <1> QED BY <1>4, IdleType DEF UpdateTaskAssignee, TypeOK, StatusKept

LEMMA RemoveTaskAssigneeType ==
    ASSUME TypeOK, NEW t \in Tasks, NEW u \in Users, RemoveTaskAssignee(t, u)
    PROVE  TypeOK'
  <1> DEFINE team == [assignee[t] EXCEPT ![u] = NoMember]
  <1>1. team \in [Users -> Assignee]
    BY MemberType DEF TypeOK, NoMember
  <1>2. assignee' = [assignee EXCEPT ![t] = team] /\ Sync(t, team)
    BY DEF RemoveTaskAssignee, SetTeam
  <1> HIDE DEF team
  <1>3. StatusKept /\ assignee' \in [Tasks -> [Users -> Assignee]]
    BY <1>1, <1>2, SyncKeepsStatus DEF TypeOK
  <1>4. wallet' \in [Users -> Wallet]
    <2>1. assignee[t][u].share \in Nat /\ assignee[t][u].share <= wallet[u].pending
      BY DEF TypeOK, Assignee, RemoveTaskAssignee, PendingCovers
    <2>2. WithoutShare(t, u) \in Wallet
      BY <2>1, WalletTypes, BalancesType DEF WithoutShare, SubtractPending
    <2> QED BY <2>2 DEF TypeOK, RemoveTaskAssignee
  <1>5. slips' \subseteq Slips
    <2>1. Slip("late", Finished(t))
      BY DEF RemoveTaskAssignee
    <2> QED BY <2>1, SlipType DEF Slips
  <1> QED BY <1>3, <1>4, <1>5, IdleType DEF RemoveTaskAssignee, TypeOK, StatusKept

LEMMA MarkCompletedTypes ==
    ASSUME TypeOK, NEW t \in Tasks, MarkCompleted(t)
    PROVE  StatusesAfter(t, "COMPLETED") /\ completions' \in [Tasks -> Nat]
  <1>1. task[t].assigned \in Users \cup {NoUser}
    BY DEF TypeOK, Task
  <1>2. /\ TaskRow("COMPLETED", task[t].assigned) \in Task
        /\ TaskRow("COMPLETED", task[t].assigned).status = "COMPLETED"
    BY <1>1, TaskRowType DEF Statuses
  <1>3. completions[t] + 1 \in Nat
    BY DEF TypeOK
  <1> QED BY <1>2, <1>3 DEF MarkCompleted, TypeOK, StatusesAfter

LEMMA CompleteByTeamType ==
    ASSUME TypeOK, NEW t \in Tasks, CompleteByTeam(t)
    PROVE  TypeOK'
  <1> DEFINE after(u) == Balances(wallet[u].pending - assignee[t][u].share,
                                  wallet[u].payable + assignee[t][u].share)
  <1>1. \A u \in Users : after(u) \in Wallet
    <2> TAKE u \in Users
    <2>1. assignee[t][u].share \in Nat /\ assignee[t][u].share <= wallet[u].pending
      BY DEF TypeOK, Assignee, CompleteByTeam, PendingCovers
    <2> QED BY <2>1, WalletTypes, BalancesType
  <1>2. wallet' = [u \in Users |-> after(u)]
    BY Zenon DEF CompleteByTeam, MoveToPayable
  <1> HIDE DEF after
  <1>3. wallet' \in [Users -> Wallet]
    BY <1>1, <1>2
  <1> QED BY <1>3, MarkCompletedTypes, IdleType
          DEF CompleteByTeam, MarkCompleted, TypeOK, StatusesAfter

LEMMA CompleteByAssignedType ==
    ASSUME TypeOK, NEW t \in Tasks, CompleteByAssigned(t)
    PROVE  TypeOK'
  <1> DEFINE u == task[t].assigned
  <1>1. u \in Users
    BY DEF CompleteByAssigned, TypeOK, Task
  <1>2. wallet' \in [Users -> Wallet]
    <2>1. wallet' = [wallet EXCEPT ![u] = Balances(wallet[u].pending,
                                                   wallet[u].payable + Commission[t])]
      BY DEF CompleteByAssigned, AddToPayable
    <2>2. Balances(wallet[u].pending, wallet[u].payable + Commission[t]) \in Wallet
      BY <1>1, WalletTypes, BalancesType, AmountsAssumption
    <2> QED BY <2>1, <2>2 DEF TypeOK
  <1>3. slips' \subseteq Slips
    <2>1. Slip("legacy", Commission[t] > 0)
      BY DEF CompleteByAssigned
    <2> QED BY <2>1, SlipType DEF Slips
  <1> QED BY <1>2, <1>3, MarkCompletedTypes, IdleType
          DEF CompleteByAssigned, MarkCompleted, TypeOK, StatusesAfter

(* The steps of startTask, update and cancelBooking between their reads and *)
(* their writes touch the sessions' own state only.                         *)
LEMMA GotoType ==
    ASSUME TypeOK, NEW s \in Sessions, NEW step \in Steps, NEW rows \in [Tasks -> Task],
           NEW columns \in [Tasks -> SUBSET Columns], Goto(s, step, rows),
           diff' = [diff EXCEPT ![s] = columns]
    PROVE  SessionsOK'
  BY DEF TypeOK, Goto, SessionsOK

LEMMA NothingRead == NoCopies \in [Tasks -> Task] /\ NoDiff \in [Tasks -> SUBSET Columns]
  BY NotReadType DEF NoCopies, NoDiff

LEMMA ReadTaskType ==
    ASSUME TypeOK, NEW s \in Sessions, NEW t \in Tasks, NEW status \in Statuses,
           ReadTask(s, t, status)
    PROVE  TypeOK'
  <1>1. TaskRow(status, task[t].assigned) \in Task
    BY TaskRowType DEF TypeOK, Task
  <1>2. /\ [NoCopies EXCEPT ![t] = TaskRow(status, task[t].assigned)] \in [Tasks -> Task]
        /\ [NoDiff EXCEPT ![t] = Columns] \in [Tasks -> SUBSET Columns]
    BY <1>1, NothingRead
  <1>3. SessionsOK'
    BY <1>2, GotoType DEF ReadTask, Steps
  <1> QED BY <1>3 DEF ReadTask, TypeOK, SessionsOK

LEMMA CancelReadType ==
    ASSUME TypeOK, NEW s \in Sessions, NEW b \in Bookings, CancelRead(s, b)
    PROVE  TypeOK'
  <1> DEFINE rows == [t \in Tasks |-> IF t \in TasksOf(b)
                         THEN TaskRow("CANCELLED", task[t].assigned) ELSE NotRead]
             columns == [t \in Tasks |-> IF t \in TasksOf(b) THEN Columns ELSE {}]
  <1>1. \A t \in Tasks : TaskRow("CANCELLED", task[t].assigned) \in Task
    BY TaskRowType DEF TypeOK, Task, Statuses
  <1>2. rows \in [Tasks -> Task] /\ columns \in [Tasks -> SUBSET Columns]
    BY <1>1, NotReadType
  <1>3. Goto(s, "cancel", rows) /\ diff' = [diff EXCEPT ![s] = columns]
    BY Zenon DEF CancelRead
  <1> HIDE DEF rows, columns
  <1>4. SessionsOK'
    BY <1>2, <1>3, GotoType DEF Steps
  <1>5. locked' \in [Bookings -> Sessions \cup {NoSession}]
    BY DEF CancelRead, TypeOK
  <1> QED BY <1>4, <1>5 DEF CancelRead, TypeOK, SessionsOK

LEMMA SaveReloadType ==
    ASSUME TypeOK, NEW s \in Sessions, SaveReload(s)
    PROVE  TypeOK'
  <1>1. Differing(s) \in [Tasks -> SUBSET Columns]
    BY DEF Differing, TypeOK
  <1>2. diff' \in [Sessions -> [Tasks -> SUBSET Columns]]
    BY <1>1 DEF SaveReload, TypeOK
  <1>3. pc' \in [Sessions -> Steps]
    BY DEF SaveReload, TypeOK, Steps
  <1> QED BY <1>2, <1>3 DEF SaveReload, TypeOK

(* What a save writes: in each column the session's copy or what was there. *)
LEMMA WrittenType ==
    ASSUME TypeOK, NEW s \in Sessions, NEW t \in Tasks
    PROVE  /\ Written(s, t) \in Task
           /\ Written(s, t).status =
                 IF "status" \in diff[s][t] THEN copy[s][t].status ELSE task[t].status
  <1> DEFINE status == IF "status" \in diff[s][t] THEN copy[s][t].status ELSE task[t].status
             assigned == IF "assigned" \in diff[s][t] THEN copy[s][t].assigned ELSE task[t].assigned
  <1>1. copy[s][t] \in Task /\ task[t] \in Task
    BY DEF TypeOK
  <1>2. status \in Statuses /\ assigned \in Users \cup {NoUser}
    BY <1>1 DEF Task
  <1>3. Written(s, t) = TaskRow(status, assigned)
    BY DEF Written
  <1> HIDE DEF assigned
  <1> QED BY <1>2, <1>3, TaskRowType

LEMMA SavesTasksType ==
    ASSUME TypeOK, NEW s \in Sessions, SavesTasks(s)
    PROVE  task' \in [Tasks -> Task] /\ SessionsOK'
  <1>1. task' \in [Tasks -> Task]
    BY WrittenType DEF SavesTasks
  <1>2. SessionsOK'
    BY NothingRead, GotoType DEF SavesTasks, Steps
  <1> QED BY <1>1, <1>2

LEMMA SaveWriteType ==
    ASSUME TypeOK, NEW s \in Sessions, SaveWrite(s)
    PROVE  TypeOK'
  <1>1. slips' \subseteq Slips
    <2>1. Slip("undone", Undoes(s))
      BY DEF SaveWrite
    <2> QED BY <2>1, SlipType DEF Slips
  <1> QED BY <1>1, SavesTasksType DEF SaveWrite, TypeOK, SessionsOK

LEMMA CancelCommitType ==
    ASSUME TypeOK, NEW s \in Sessions, NEW b \in Bookings, CancelCommit(s, b)
    PROVE  TypeOK'
  <1> DEFINE after(u) == Balances(wallet[u].pending - ReversedInAll(s, b, u), wallet[u].payable)
  <1>1. \A u \in Users : after(u) \in Wallet
    <2> TAKE u \in Users
    <2>1. ReversedInAll(s, b, u) \in 0..wallet[u].pending
      BY DEF CancelCommit
    <2> QED BY <2>1, WalletTypes, BalancesType
  <1>2. wallet' = [u \in Users |-> after(u)]
    BY Zenon DEF CancelCommit, SubtractPending
  <1> HIDE DEF after
  <1>3. wallet' \in [Users -> Wallet]
    BY <1>1, <1>2
  <1>4. slips' \subseteq Slips
    BY DEF CancelCommit, TypeOK, Slips
  <1>5. locked' \in [Bookings -> Sessions \cup {NoSession}] /\ cancelled' \subseteq Bookings
    BY DEF CancelCommit, TypeOK
  <1> QED BY <1>3, <1>4, <1>5, SavesTasksType DEF CancelCommit, TypeOK, SessionsOK

LEMMA CancelRefusedType ==
    ASSUME TypeOK, NEW s \in Sessions, NEW b \in Bookings, CancelRefused(s, b)
    PROVE  TypeOK'
  <1>1. SessionsOK'
    BY NothingRead, GotoType DEF CancelRefused, Steps
  <1>2. locked' \in [Bookings -> Sessions \cup {NoSession}]
    BY DEF CancelRefused, TypeOK
  <1> QED BY <1>1, <1>2 DEF CancelRefused, TypeOK, SessionsOK

LEMMA TypeInit == Init => TypeOK
  <1> SUFFICES ASSUME Init PROVE TypeOK
    OBVIOUS
  <1>1. TaskRow("PENDING", NoUser) \in Task /\ NoMember \in Assignee /\ Balances(0, 0) \in Wallet
    BY TaskRowType, MemberType, BalancesType DEF Statuses, NoMember
  <1>2. /\ task \in [Tasks -> Task]
        /\ assignee \in [Tasks -> [Users -> Assignee]]
        /\ wallet \in [Users -> Wallet]
    BY <1>1 DEF Init
  <1> QED BY <1>2, NothingRead DEF Init, TypeOK, Steps

(* A session's steps take the session, and a step of a handler its task or  *)
(* its booking: the disjuncts of Next, one by one.                          *)
LEMMA TypeNext == TypeOK /\ [Next]_vars => TypeOK'
  <1> SUFFICES ASSUME TypeOK, [Next]_vars PROVE TypeOK'
    OBVIOUS
  <1>1. CASE UNCHANGED vars
    BY <1>1 DEF vars, TypeOK
  <1>2. ASSUME NEW t \in Tasks, Assignment(t) PROVE TypeOK'
    <2>1. PICK u \in Users :
             \/ AssignTask(t, u) \/ RemoveTaskAssignee(t, u)
             \/ \E role \in {"ASSISTANT", "LEAD"} :
                   \/ UpdateTaskAssignee(t, u, role)
                   \/ \E share \in Shares \cup {Commission[t]} : AddTaskAssignee(t, u, role, share)
      BY <1>2 DEF Assignment
    <2>2. Shares \cup {Commission[t]} \subseteq Nat
      BY AmountsAssumption
    <2> QED BY <2>1, <2>2, AssignTaskType, RemoveTaskAssigneeType, UpdateTaskAssigneeType,
               AddTaskAssigneeType
  <1>3. ASSUME NEW t \in Tasks, Completion(t) PROVE TypeOK'
    BY <1>3, CompleteByTeamType, CompleteByAssignedType DEF Completion
  <1>4. ASSUME NEW s \in Sessions, Saving(s) PROVE TypeOK'
    <2>1. ASSUME NEW t \in Tasks, StartTask(s, t) \/ EditTask(s, t) PROVE TypeOK'
      <3>1. task[t].status \in Statuses /\ "IN_PROGRESS" \in Statuses
        BY DEF TypeOK, Task, Statuses
      <3> QED BY <2>1, <3>1, ReadTaskType DEF StartTask, EditTask
    <2> QED BY <1>4, <2>1, SaveReloadType, SaveWriteType DEF Saving
  <1>5. ASSUME NEW s \in Sessions, NEW b \in Bookings, Cancellation(s, b) PROVE TypeOK'
    BY <1>5, CancelReadType, CancelCommitType, CancelRefusedType DEF Cancellation
  <1> QED BY <1>1, <1>2, <1>3, <1>4, <1>5 DEF Next

(* No balance of a wallet ever goes below zero and every row has its type,  *)
(* in whatever order commissions are added, moved and taken back.           *)
THEOREM WalletsNeverNegative == Spec => []TypeOK
  BY TypeInit, TypeNext, PTL DEF Spec
----------------------------------------------------------------------------
LEMMA LeadInit == Init => OneLead
  <1> SUFFICES ASSUME Init, NEW t \in Tasks, NEW u \in Users PROVE assignee[t][u].role # "LEAD"
    BY DEF OneLead
  <1>1. assignee[t][u] = NoMember
    BY DEF Init
  <1> QED BY <1>1, MemberType DEF NoMember

(* Giving a user a role keeps the task at one lead. *)
LEMMA WithRoleOneLead ==
    ASSUME TypeOK, OneLead, NEW t \in Tasks, NEW u \in Users,
           NEW role \in {"ASSISTANT", "LEAD"}, NEW share \in Nat,
           assignee' = [assignee EXCEPT ![t] = WithRole(t, u, role, share)]
    PROVE  OneLead'
  <1> DEFINE team == WithRole(t, u, role, share)
  <1>1. team[u].role = role
    BY WithRoleTeam, MemberType
  <1>2. \A v \in Users \ {u} :
           team[v].role = "LEAD" => role # "LEAD" /\ assignee[t][v].role = "LEAD"
    BY WithRoleTeam
  <1>3. assignee' = [assignee EXCEPT ![t] = team] /\ assignee \in [Tasks -> [Users -> Assignee]]
    BY DEF TypeOK
  <1> HIDE DEF team
  <1> QED BY <1>1, <1>2, <1>3 DEF OneLead

LEMMA LeadNext == TypeOK /\ OneLead /\ [Next]_vars => OneLead'
  <1> SUFFICES ASSUME TypeOK, OneLead, [Next]_vars PROVE OneLead'
    OBVIOUS
  <1>1. CASE UNCHANGED assignee
    BY <1>1 DEF OneLead
  <1>2. ASSUME NEW t \in Tasks, Assignment(t) PROVE OneLead'
    <2>1. PICK u \in Users :
             \/ AssignTask(t, u) \/ RemoveTaskAssignee(t, u)
             \/ \E role \in {"ASSISTANT", "LEAD"} :
                   \/ UpdateTaskAssignee(t, u, role)
                   \/ \E share \in Shares \cup {Commission[t]} : AddTaskAssignee(t, u, role, share)
      BY <1>2 DEF Assignment
    <2>2. CASE AssignTask(t, u)
      BY <1>1, <2>2 DEF AssignTask
    <2>3. CASE RemoveTaskAssignee(t, u)
      <3>1. assignee' = [assignee EXCEPT ![t] = [assignee[t] EXCEPT ![u] = NoMember]]
        BY <2>3 DEF RemoveTaskAssignee, SetTeam
      <3>2. NoMember.role = "none"
        BY MemberType DEF NoMember
      <3> QED BY <3>1, <3>2 DEF OneLead, TypeOK
    <2>4. ASSUME NEW role \in {"ASSISTANT", "LEAD"}, UpdateTaskAssignee(t, u, role) PROVE OneLead'
      <3>1. assignee[t][u].share \in Nat
        BY DEF TypeOK, Assignee
      <3> QED BY <2>4, <3>1, WithRoleOneLead DEF UpdateTaskAssignee, SetTeam
    <2>5. ASSUME NEW role \in {"ASSISTANT", "LEAD"}, NEW share \in Shares \cup {Commission[t]},
                 AddTaskAssignee(t, u, role, share)
          PROVE  OneLead'
      <3>1. share \in Nat
        BY AmountsAssumption
      <3> QED BY <2>5, <3>1, WithRoleOneLead DEF AddTaskAssignee, SetTeam
    <2> QED BY <2>1, <2>2, <2>3, <2>4, <2>5
  <1>3. (\A t \in Tasks : ~ Assignment(t)) => UNCHANGED assignee
    BY DEF Next, Completion, CompleteByTeam, CompleteByAssigned, MarkCompleted, Saving, StartTask,
           EditTask, ReadTask, SaveReload, SaveWrite, Cancellation, CancelRead, CancelCommit,
           CancelRefused, vars
  <1> QED BY <1>1, <1>2, <1>3

(* A task never has two leads. *)
THEOREM LeadIsUnique == Spec => []OneLead
  BY TypeInit, TypeNext, LeadInit, LeadNext, PTL DEF Spec
----------------------------------------------------------------------------
(* Unless a save has undone a final status, a task is accrued when it says  *)
(* COMPLETED, and no session is about to write COMPLETED over another       *)
(* status: a copy that says so was taken of a task that still says so.      *)
AccrualInv ==
    /\ AccruedOnceUnlessUndone
    /\ "undone" \notin slips =>
          \A s \in Sessions, t \in Tasks :
             "status" \in diff[s][t] /\ copy[s][t].status = "COMPLETED"
                => task[t].status = "COMPLETED"

LEMMA AccrualInit == Init => AccrualInv
  <1> SUFFICES ASSUME Init PROVE AccrualInv
    OBVIOUS
  <1>1. TaskRow("PENDING", NoUser).status = "PENDING"
    BY TaskRowType DEF Statuses
  <1> QED BY <1>1 DEF Init, AccrualInv, AccruedOnceUnlessUndone, NoDiff

(* The handlers that change assignments leave the statuses alone. *)
LEMMA AssignmentAccrual ==
    ASSUME TypeOK, AccrualInv, NEW t \in Tasks, Assignment(t)
    PROVE  AccrualInv'
  <1>1. PICK u \in Users :
           \/ AssignTask(t, u) \/ RemoveTaskAssignee(t, u)
           \/ \E role \in {"ASSISTANT", "LEAD"} :
                 \/ UpdateTaskAssignee(t, u, role)
                 \/ \E share \in Shares \cup {Commission[t]} : AddTaskAssignee(t, u, role, share)
    BY DEF Assignment
  <1>2. StatusKept
    BY <1>1, AssignsKeepStatus, SyncKeepsStatus
       DEF AssignTask, RemoveTaskAssignee, UpdateTaskAssignee, AddTaskAssignee, SetTeam
  <1>3. Idle /\ UNCHANGED completions
    BY <1>1 DEF AssignTask, RemoveTaskAssignee, UpdateTaskAssignee, AddTaskAssignee
  <1>4. slips \subseteq slips'
    BY <1>1 DEF AssignTask, RemoveTaskAssignee, UpdateTaskAssignee, AddTaskAssignee, Slip
  <1> QED BY <1>2, <1>3, <1>4 DEF AccrualInv, AccruedOnceUnlessUndone, Idle, StatusKept

LEMMA CompletionAccrual ==
    ASSUME TypeOK, AccrualInv, NEW t \in Tasks, Completion(t)
    PROVE  AccrualInv'
  <1>1. MarkCompleted(t) /\ slips \subseteq slips'
    BY DEF Completion, CompleteByTeam, CompleteByAssigned, Slip
  <1>2. StatusesAfter(t, "COMPLETED")
    BY <1>1, MarkCompletedTypes
  <1>3. /\ task[t].status # "COMPLETED" /\ Idle
        /\ completions' = [completions EXCEPT ![t] = @ + 1]
    BY <1>1 DEF MarkCompleted, Completable
  <1>4. \A r \in Tasks : completions'[r] = IF r = t THEN completions[t] + 1 ELSE completions[r]
    BY <1>3 DEF TypeOK
  <1>5. AccruedOnceUnlessUndone'
    BY <1>1, <1>2, <1>3, <1>4 DEF AccrualInv, AccruedOnceUnlessUndone, StatusesAfter
  <1> QED BY <1>1, <1>2, <1>3, <1>5 DEF AccrualInv, Idle, StatusesAfter

(* A read copies statuses that are not COMPLETED, or the row's own. *)
LEMMA ReadAccrual ==
    ASSUME TypeOK, AccrualInv, NEW s \in Sessions, NEW rows \in [Tasks -> Task],
           NEW columns \in [Tasks -> SUBSET Columns], NEW step,
           Goto(s, step, rows), diff' = [diff EXCEPT ![s] = columns],
           \A t \in Tasks : "status" \in columns[t] /\ rows[t].status = "COMPLETED"
                               => task[t].status = "COMPLETED",
           UNCHANGED <<task, completions, slips>>
    PROVE  AccrualInv'
  BY DEF TypeOK, AccrualInv, AccruedOnceUnlessUndone, Goto

LEMMA ReadTaskAccrual ==
    ASSUME TypeOK, AccrualInv, NEW s \in Sessions, NEW t \in Tasks,
           StartTask(s, t) \/ EditTask(s, t)
    PROVE  AccrualInv'
  <1>1. PICK status \in {"IN_PROGRESS", task[t].status} : ReadTask(s, t, status)
    BY DEF StartTask, EditTask
  <1> DEFINE rows == [NoCopies EXCEPT ![t] = TaskRow(status, task[t].assigned)]
             columns == [NoDiff EXCEPT ![t] = Columns]
  <1>2. /\ TaskRow(status, task[t].assigned) \in Task
        /\ TaskRow(status, task[t].assigned).status = status
    <2>1. task[t].status \in Statuses /\ task[t].assigned \in Users \cup {NoUser}
      BY DEF TypeOK, Task
    <2>2. status \in Statuses
      BY <2>1 DEF Statuses
    <2> QED BY <2>1, <2>2, TaskRowType
  <1>3. rows \in [Tasks -> Task] /\ columns \in [Tasks -> SUBSET Columns]
    BY <1>2, NothingRead
  <1>4. \A r \in Tasks : "status" \in columns[r] /\ rows[r].status = "COMPLETED"
                            => task[r].status = "COMPLETED"
    BY <1>2, NothingRead DEF NoDiff
  <1>5. /\ Goto(s, "save", rows) /\ diff' = [diff EXCEPT ![s] = columns]
        /\ UNCHANGED <<task, completions, slips>>
    BY <1>1 DEF ReadTask
  <1> HIDE DEF rows, columns
  <1> QED BY <1>3, <1>4, <1>5, ReadAccrual

LEMMA CancelReadAccrual ==
    ASSUME TypeOK, AccrualInv, NEW s \in Sessions, NEW b \in Bookings, CancelRead(s, b)
    PROVE  AccrualInv'
  <1> DEFINE rows == [t \in Tasks |-> IF t \in TasksOf(b)
                         THEN TaskRow("CANCELLED", task[t].assigned) ELSE NotRead]
             columns == [t \in Tasks |-> IF t \in TasksOf(b) THEN Columns ELSE {}]
  <1>1. \A t \in Tasks : /\ TaskRow("CANCELLED", task[t].assigned) \in Task
                         /\ TaskRow("CANCELLED", task[t].assigned).status = "CANCELLED"
    BY TaskRowType DEF TypeOK, Task, Statuses
  <1>2. rows \in [Tasks -> Task] /\ columns \in [Tasks -> SUBSET Columns]
    BY <1>1, NotReadType
  <1>3. \A t \in Tasks : "status" \in columns[t] /\ rows[t].status = "COMPLETED"
                            => task[t].status = "COMPLETED"
    BY <1>1
  <1>4. /\ Goto(s, "cancel", rows) /\ diff' = [diff EXCEPT ![s] = columns]
        /\ UNCHANGED <<task, completions, slips>>
    BY Zenon DEF CancelRead
  <1> HIDE DEF rows, columns
  <1> QED BY <1>2, <1>3, <1>4, ReadAccrual

(* Reloading only takes columns off the list of what is written. *)
LEMMA SaveReloadAccrual ==
    ASSUME TypeOK, AccrualInv, NEW s \in Sessions, SaveReload(s)
    PROVE  AccrualInv'
  <1>1. \A t \in Tasks : Differing(s)[t] \subseteq diff[s][t]
    BY DEF Differing
  <1>2. \A r \in Sessions, t \in Tasks : diff'[r][t] \subseteq diff[r][t]
    BY <1>1 DEF SaveReload, TypeOK
  <1>3. UNCHANGED <<task, copy, completions, slips>>
    BY DEF SaveReload
  <1> QED BY <1>2, <1>3 DEF AccrualInv, AccruedOnceUnlessUndone

(* A save that undoes nothing writes no COMPLETED that was not there, and   *)
(* takes none away.                                                         *)
LEMMA SavesTasksAccrual ==
    ASSUME TypeOK, AccrualInv, NEW s \in Sessions, SavesTasks(s), UNCHANGED completions,
           slips \subseteq slips', Undoes(s) => "undone" \in slips'
    PROVE  AccrualInv'
  <1> SUFFICES ASSUME "undone" \notin slips'
               PROVE  AccrualInv'
    BY DEF AccrualInv, AccruedOnceUnlessUndone
  <1>1. ~ Undoes(s) /\ "undone" \notin slips
    OBVIOUS
  <1>2. \A t \in Tasks : task'[t].status = "COMPLETED" <=> task[t].status = "COMPLETED"
    <2> TAKE t \in Tasks
    <2>1. task'[t].status =
             IF "status" \in diff[s][t] THEN copy[s][t].status ELSE task[t].status
      BY WrittenType DEF SavesTasks
    <2>2. CASE Finished(t)
      BY <1>1, <2>2 DEF Undoes, SavesTasks
    <2>3. CASE ~ Finished(t)
      BY <1>1, <2>1, <2>3 DEF Finished, Final, AccrualInv
    <2> QED BY <2>2, <2>3
  <1>3. \A r \in Sessions, t \in Tasks :
           "status" \in diff'[r][t] => r # s /\ diff'[r][t] = diff[r][t] /\ copy'[r] = copy[r]
    BY DEF SavesTasks, Goto, TypeOK, NoDiff
  <1> QED BY <1>1, <1>2, <1>3 DEF AccrualInv, AccruedOnceUnlessUndone

LEMMA CancelRefusedAccrual ==
    ASSUME TypeOK, AccrualInv, NEW s \in Sessions, NEW b \in Bookings, CancelRefused(s, b)
    PROVE  AccrualInv'
  <1>1. \A t \in Tasks : ~ ("status" \in NoDiff[t])
    BY DEF NoDiff
  <1>2. /\ Goto(s, "idle", NoCopies) /\ diff' = [diff EXCEPT ![s] = NoDiff]
        /\ UNCHANGED <<task, completions, slips>>
    BY DEF CancelRefused
  <1> QED BY <1>1, <1>2, NothingRead, ReadAccrual

LEMMA AccrualNext == TypeOK /\ AccrualInv /\ [Next]_vars => AccrualInv'
  <1> SUFFICES ASSUME TypeOK, AccrualInv, [Next]_vars PROVE AccrualInv'
    OBVIOUS
  <1>1. CASE UNCHANGED vars
    BY <1>1 DEF vars, AccrualInv, AccruedOnceUnlessUndone
  <1>2. ASSUME NEW t \in Tasks, Assignment(t) \/ Completion(t) PROVE AccrualInv'
    BY <1>2, AssignmentAccrual, CompletionAccrual
  <1>3. ASSUME NEW s \in Sessions, Saving(s) PROVE AccrualInv'
    <2>1. CASE SaveWrite(s)
      BY <2>1, SavesTasksAccrual DEF SaveWrite, Slip
    <2> QED BY <1>3, <2>1, ReadTaskAccrual, SaveReloadAccrual DEF Saving
  <1>4. ASSUME NEW s \in Sessions, NEW b \in Bookings, Cancellation(s, b) PROVE AccrualInv'
    <2>1. CASE CancelCommit(s, b)
      <3>1. slips \subseteq slips' /\ (Undoes(s) => "undone" \in slips')
        BY <2>1 DEF CancelCommit
      <3> QED BY <2>1, <3>1, SavesTasksAccrual DEF CancelCommit
    <2> QED BY <1>4, <2>1, CancelReadAccrual, CancelRefusedAccrual DEF Cancellation
  <1> QED BY <1>1, <1>2, <1>3, <1>4 DEF Next

(* Only a save of an old copy makes a commission accrue twice, or leaves a  *)
(* completed task unaccrued.                                                *)
THEOREM AccrualFollowsStatus == Spec => []AccruedOnceUnlessUndone
  <1>1. AccrualInv => AccruedOnceUnlessUndone
    BY DEF AccrualInv
  <1> QED BY <1>1, TypeInit, TypeNext, AccrualInit, AccrualNext, PTL DEF Spec
----------------------------------------------------------------------------
(* What ties the wallets to the rows.  A user without a role in a task has  *)
(* no commission there; a booking's lock is held by a cancellation that     *)
(* read all of its tasks and nothing else; and unless a final status was    *)
(* undone, a task is CANCELLED exactly when its booking is, and no copy is  *)
(* about to say otherwise.                                                  *)
SharesOfTeam ==
    \A t \in Tasks, u \in Users : assignee[t][u].role = "none" => assignee[t][u].share = 0

OneBookingEach ==
    \A b, d \in Bookings : locked[b] # NoSession /\ locked[b] = locked[d] => b = d

Holding(s, b) ==
    /\ b \notin cancelled
    /\ pc[s] \in {"cancel", "cancelWrite"}
    /\ \A t \in TasksOf(b) : copy[s][t].status = "CANCELLED"
    /\ \A t \in Tasks \ TasksOf(b) : diff[s][t] = {}

HeldByCancellations == \A s \in Sessions, b \in Bookings : locked[b] = s => Holding(s, b)

CancelsAll ==
    \A s \in Sessions, b \in Bookings :
        locked[b] = s => \A t \in TasksOf(b) : "status" \in diff[s][t]

CancelledTogether == \A t \in Tasks : task[t].status = "CANCELLED" <=> BookingOf[t] \in cancelled

CopiesCancelled ==
    \A s \in Sessions, t \in Tasks :
        pc[s] \in {"save", "write"} /\ "status" \in diff[s][t] /\ copy[s][t].status = "CANCELLED"
            => BookingOf[t] \in cancelled

LocksInv == OneBookingEach /\ HeldByCancellations
CancelInv == "undone" \notin slips => CancelsAll /\ CancelledTogether /\ CopiesCancelled

LEMMA SharesInit == Init => SharesOfTeam
  <1>1. NoMember.share = 0
    BY MemberType DEF NoMember
  <1> QED BY <1>1 DEF Init, SharesOfTeam

(* A role given to one user leaves the others' commissions as they are. *)
LEMMA WithRoleShares ==
    ASSUME TypeOK, SharesOfTeam, NEW t \in Tasks, NEW u \in Users,
           NEW role \in {"ASSISTANT", "LEAD"}, NEW share \in Nat
    PROVE  LET team == WithRole(t, u, role, share)
           IN  /\ team \in [Users -> Assignee]
               /\ team[u].role = role /\ team[u].share = share
               /\ \A v \in Users \ {u} : /\ team[v].share = assignee[t][v].share
                                         /\ team[v].role = "none" => assignee[t][v].role = "none"
  <1> DEFINE team == WithRole(t, u, role, share)
  <1>1. team \in [Users -> Assignee] /\ team[u] = Member(role, share)
    BY WithRoleTeam
  <1>2. team[u].role = role /\ team[u].share = share
    BY <1>1, MemberType
  <1>3. \A v \in Users : assignee[t][v].share \in Nat
    BY DEF TypeOK, Assignee
  <1>4. \A v \in Users : /\ Member("ASSISTANT", assignee[t][v].share).share = assignee[t][v].share
                         /\ Member("ASSISTANT", assignee[t][v].share).role = "ASSISTANT"
    BY <1>3, MemberType
  <1>5. \A v \in Users \ {u} : /\ team[v].share = assignee[t][v].share
                               /\ team[v].role = "none" => assignee[t][v].role = "none"
    BY <1>4 DEF WithRole
  <1> HIDE DEF team
  <1> QED BY <1>1, <1>2, <1>5 DEF team

(* What a change of the assignees of t does to one user's commission in it. *)
OneShareChanges(t, u, share) ==
    /\ \A r \in Tasks \ {t} : assignee'[r] = assignee[r]
    /\ \A v \in Users \ {u} : assignee'[t][v].share = assignee[t][v].share
    /\ assignee'[t][u].share = share

LEMMA AddTaskAssigneeShares ==
    ASSUME TypeOK, SharesOfTeam, NEW t \in Tasks, NEW u \in Users,
           NEW role \in {"ASSISTANT", "LEAD"}, NEW share \in Nat,
           AddTaskAssignee(t, u, role, share)
    PROVE  OneShareChanges(t, u, share) /\ SharesOfTeam' /\ assignee[t][u].share = 0
  <1> DEFINE team == WithRole(t, u, role, share)
  <1>1. /\ team \in [Users -> Assignee] /\ team[u].role = role /\ team[u].share = share
        /\ \A v \in Users \ {u} : /\ team[v].share = assignee[t][v].share
                                  /\ team[v].role = "none" => assignee[t][v].role = "none"
    BY WithRoleShares
  <1>2. assignee' = [assignee EXCEPT ![t] = team] /\ u \notin Team(t)
    BY DEF AddTaskAssignee, SetTeam
  <1> HIDE DEF team
  <1>3. assignee \in [Tasks -> [Users -> Assignee]]
    BY DEF TypeOK
  <1>4. OneShareChanges(t, u, share)
    BY <1>1, <1>2, <1>3 DEF OneShareChanges
  <1>5. SharesOfTeam'
    BY <1>1, <1>2, <1>3 DEF SharesOfTeam
  <1>6. assignee[t][u].share = 0
    BY <1>2 DEF Team, SharesOfTeam
  <1> QED BY <1>4, <1>5, <1>6

LEMMA UpdateTaskAssigneeShares ==
    ASSUME TypeOK, SharesOfTeam, NEW t \in Tasks, NEW u \in Users,
           NEW role \in {"ASSISTANT", "LEAD"}, UpdateTaskAssignee(t, u, role)
    PROVE  OneShareChanges(t, u, assignee[t][u].share) /\ SharesOfTeam'
  <1>1. PICK share : share = assignee[t][u].share
    OBVIOUS
  <1>2. share \in Nat
    BY <1>1 DEF TypeOK, Assignee
  <1> DEFINE team == WithRole(t, u, role, share)
  <1>3. /\ team \in [Users -> Assignee] /\ team[u].role = role /\ team[u].share = share
        /\ \A v \in Users \ {u} : /\ team[v].share = assignee[t][v].share
                                  /\ team[v].role = "none" => assignee[t][v].role = "none"
    BY <1>2, WithRoleShares
  <1>4. assignee' = [assignee EXCEPT ![t] = team]
    BY <1>1 DEF UpdateTaskAssignee, SetTeam
  <1> HIDE DEF team
  <1>5. assignee \in [Tasks -> [Users -> Assignee]]
    BY DEF TypeOK
  <1>6. OneShareChanges(t, u, share)
    BY <1>3, <1>4, <1>5 DEF OneShareChanges
  <1>7. SharesOfTeam'
    BY <1>3, <1>4, <1>5 DEF SharesOfTeam
  <1> QED BY <1>1, <1>6, <1>7

LEMMA RemoveTaskAssigneeShares ==
    ASSUME TypeOK, SharesOfTeam, NEW t \in Tasks, NEW u \in Users, RemoveTaskAssignee(t, u)
    PROVE  OneShareChanges(t, u, 0) /\ SharesOfTeam'
  <1>1. NoMember.share = 0 /\ NoMember.role = "none"
    BY MemberType DEF NoMember
  <1>2. assignee' = [assignee EXCEPT ![t] = [assignee[t] EXCEPT ![u] = NoMember]]
    BY DEF RemoveTaskAssignee, SetTeam
  <1>3. assignee \in [Tasks -> [Users -> Assignee]]
    BY DEF TypeOK
  <1>4. OneShareChanges(t, u, 0)
    BY <1>1, <1>2, <1>3 DEF OneShareChanges
  <1>5. SharesOfTeam'
    BY <1>1, <1>2, <1>3 DEF SharesOfTeam
  <1> QED BY <1>4, <1>5

LEMMA OthersKeepAssignees ==
    ASSUME [Next]_vars, \A t \in Tasks : ~ Assignment(t)
    PROVE  UNCHANGED assignee
  BY DEF Next, Completion, CompleteByTeam, CompleteByAssigned, MarkCompleted, Saving, StartTask,
         EditTask, ReadTask, SaveReload, SaveWrite, Cancellation, CancelRead, CancelCommit,
         CancelRefused, vars

LEMMA SharesNext == TypeOK /\ SharesOfTeam /\ [Next]_vars => SharesOfTeam'
  <1> SUFFICES ASSUME TypeOK, SharesOfTeam, [Next]_vars PROVE SharesOfTeam'
    OBVIOUS
  <1>1. CASE UNCHANGED assignee
    BY <1>1 DEF SharesOfTeam
  <1>2. ASSUME NEW t \in Tasks, Assignment(t) PROVE SharesOfTeam'
    <2>1. PICK u \in Users :
             \/ AssignTask(t, u) \/ RemoveTaskAssignee(t, u)
             \/ \E role \in {"ASSISTANT", "LEAD"} :
                   \/ UpdateTaskAssignee(t, u, role)
                   \/ \E share \in Shares \cup {Commission[t]} : AddTaskAssignee(t, u, role, share)
      BY <1>2 DEF Assignment
    <2>2. Shares \cup {Commission[t]} \subseteq Nat
      BY AmountsAssumption
    <2>3. CASE AssignTask(t, u)
      BY <1>1, <2>3 DEF AssignTask
    <2> QED BY <2>1, <2>2, <2>3, RemoveTaskAssigneeShares, UpdateTaskAssigneeShares,
               AddTaskAssigneeShares
  <1> QED BY <1>1, <1>2, OthersKeepAssignees
----------------------------------------------------------------------------
LEMMA CancelInit == Init => LocksInv /\ CancelInv
  <1> SUFFICES ASSUME Init PROVE LocksInv /\ CancelInv
    OBVIOUS
  <1>1. TaskRow("PENDING", NoUser).status = "PENDING"
    BY TaskRowType DEF Statuses
  <1>2. LocksInv
    BY NamesAssumption DEF Init, LocksInv, OneBookingEach, HeldByCancellations
  <1>3. CancelInv
    BY <1>1, NamesAssumption
       DEF Init, CancelInv, CancelsAll, CancelledTogether, CopiesCancelled, NoDiff
  <1> QED BY <1>2, <1>3

(* What the other sessions have in hand when s takes a step. *)
OthersKept(s) ==
    /\ \A r \in Sessions \ {s} : pc'[r] = pc[r] /\ copy'[r] = copy[r] /\ diff'[r] = diff[r]
    /\ \A r \in Sessions \ {s}, b \in Bookings : locked'[b] = r => locked[b] = r

LEMMA AssignmentSteps ==
    ASSUME TypeOK, NEW t \in Tasks, Assignment(t)
    PROVE  StatusKept /\ Idle /\ slips \subseteq slips'
  <1>1. PICK u \in Users :
           \/ AssignTask(t, u) \/ RemoveTaskAssignee(t, u)
           \/ \E role \in {"ASSISTANT", "LEAD"} :
                 \/ UpdateTaskAssignee(t, u, role)
                 \/ \E share \in Shares \cup {Commission[t]} : AddTaskAssignee(t, u, role, share)
    BY DEF Assignment
  <1>2. StatusKept
    BY <1>1, AssignsKeepStatus, SyncKeepsStatus
       DEF AssignTask, RemoveTaskAssignee, UpdateTaskAssignee, AddTaskAssignee, SetTeam
  <1>3. Idle
    BY <1>1 DEF AssignTask, RemoveTaskAssignee, UpdateTaskAssignee, AddTaskAssignee
  <1>4. slips \subseteq slips'
    BY <1>1 DEF AssignTask, RemoveTaskAssignee, UpdateTaskAssignee, AddTaskAssignee, Slip
  <1> QED BY <1>2, <1>3, <1>4

LEMMA AssignmentCancel ==
    ASSUME TypeOK, LocksInv, CancelInv, NEW t \in Tasks, Assignment(t)
    PROVE  LocksInv' /\ CancelInv'
  <1>1. StatusKept /\ Idle /\ slips \subseteq slips'
    BY AssignmentSteps
  <1>2. LocksInv'
    BY <1>1 DEF LocksInv, OneBookingEach, HeldByCancellations, Holding, Idle, TasksOf
  <1>3. CancelInv'
    BY <1>1 DEF CancelInv, CancelsAll, CancelledTogether, CopiesCancelled, Idle, StatusKept, TasksOf
  <1> QED BY <1>2, <1>3

LEMMA CompletionCancel ==
    ASSUME TypeOK, LocksInv, CancelInv, NEW t \in Tasks, Completion(t)
    PROVE  LocksInv' /\ CancelInv'
  <1>1. MarkCompleted(t) /\ slips \subseteq slips'
    BY DEF Completion, CompleteByTeam, CompleteByAssigned, Slip
  <1>2. Idle /\ BookingOf[t] \notin cancelled
    BY <1>1 DEF MarkCompleted, Completable
  <1>3. StatusesAfter(t, "COMPLETED")
    BY <1>1, MarkCompletedTypes
  <1>4. LocksInv'
    BY <1>2 DEF LocksInv, OneBookingEach, HeldByCancellations, Holding, Idle, TasksOf
  <1>5. CancelInv'
    BY <1>1, <1>2, <1>3
       DEF CancelInv, CancelsAll, CancelledTogether, CopiesCancelled, Idle, StatusesAfter, TasksOf
  <1> QED BY <1>4, <1>5

(* startTask and update keep no lock. *)
LEMMA ReadTaskCancel ==
    ASSUME TypeOK, LocksInv, CancelInv, NEW s \in Sessions, NEW t \in Tasks,
           StartTask(s, t) \/ EditTask(s, t)
    PROVE  LocksInv' /\ CancelInv'
  <1>1. PICK status \in {"IN_PROGRESS", task[t].status} : ReadTask(s, t, status)
    BY DEF StartTask, EditTask
  <1> DEFINE rows == [NoCopies EXCEPT ![t] = TaskRow(status, task[t].assigned)]
             columns == [NoDiff EXCEPT ![t] = Columns]
  <1>2. TaskRow(status, task[t].assigned).status = status
    <2>1. task[t].status \in Statuses /\ task[t].assigned \in Users \cup {NoUser}
      BY DEF TypeOK, Task
    <2>2. status \in Statuses
      BY <2>1 DEF Statuses
    <2> QED BY <2>1, <2>2, TaskRowType
  <1>3. \A r \in Tasks : "status" \in columns[r] /\ rows[r].status = "CANCELLED"
                            => task[r].status = "CANCELLED"
    BY <1>2, NothingRead DEF NoDiff
  <1>4. pc[s] = "idle" /\ UNCHANGED <<task, cancelled, locked, slips>>
    BY <1>1 DEF ReadTask
  <1>5. Goto(s, "save", rows) /\ diff' = [diff EXCEPT ![s] = columns]
    BY <1>1 DEF ReadTask
  <1> HIDE DEF rows, columns
  <1>6. /\ OthersKept(s) /\ copy'[s] = rows /\ diff'[s] = columns
        /\ \A b \in Bookings : locked[b] # s
    BY <1>4, <1>5 DEF TypeOK, Goto, OthersKept, LocksInv, HeldByCancellations, Holding
  <1>7. LocksInv'
    BY <1>4, <1>6 DEF LocksInv, OneBookingEach, HeldByCancellations, Holding, OthersKept, TasksOf
  <1>8. CancelInv'
    BY <1>3, <1>4, <1>6 DEF CancelInv, CancelsAll, CancelledTogether, CopiesCancelled, OthersKept,
                            TasksOf
  <1> QED BY <1>7, <1>8

LEMMA CancelReadCancel ==
    ASSUME TypeOK, LocksInv, CancelInv, NEW s \in Sessions, NEW b \in Bookings, CancelRead(s, b)
    PROVE  LocksInv' /\ CancelInv'
  <1> DEFINE rows == [t \in Tasks |-> IF t \in TasksOf(b)
                         THEN TaskRow("CANCELLED", task[t].assigned) ELSE NotRead]
             columns == [t \in Tasks |-> IF t \in TasksOf(b) THEN Columns ELSE {}]
  <1>1. \A t \in Tasks : TaskRow("CANCELLED", task[t].assigned).status = "CANCELLED"
    BY TaskRowType DEF TypeOK, Task, Statuses
  <1>2. TasksOf(b) \subseteq Tasks
    BY DEF TasksOf
  <1>3. /\ \A t \in TasksOf(b) : rows[t].status = "CANCELLED" /\ "status" \in columns[t]
        /\ \A t \in Tasks \ TasksOf(b) : columns[t] = {}
    BY <1>1, <1>2 DEF Columns
  <1>4. /\ pc[s] = "idle" /\ b \notin cancelled /\ locked[b] = NoSession
        /\ locked' = [locked EXCEPT ![b] = s] /\ UNCHANGED <<task, cancelled, slips>>
    BY DEF CancelRead
  <1>5. Goto(s, "cancel", rows) /\ diff' = [diff EXCEPT ![s] = columns]
    BY Zenon DEF CancelRead
  <1> HIDE DEF rows, columns
  <1>6. /\ OthersKept(s) /\ pc'[s] = "cancel" /\ copy'[s] = rows /\ diff'[s] = columns
        /\ \A d \in Bookings : locked[d] # s
        /\ \A d \in Bookings : locked'[d] = IF d = b THEN s ELSE locked[d]
    BY <1>4, <1>5 DEF TypeOK, Goto, OthersKept, LocksInv, HeldByCancellations, Holding
  <1>7. LocksInv'
    <2>1. OneBookingEach'
      BY <1>6 DEF LocksInv, OneBookingEach
    <2>2. HeldByCancellations'
      BY <1>3, <1>4, <1>6 DEF LocksInv, HeldByCancellations, Holding, OthersKept, TasksOf
    <2> QED BY <2>1, <2>2 DEF LocksInv
  <1>8. CancelInv'
    BY <1>3, <1>4, <1>6 DEF CancelInv, CancelsAll, CancelledTogether, CopiesCancelled, OthersKept,
                            TasksOf
  <1> QED BY <1>7, <1>8

(* The reload leaves the status on the list of a cancellation's columns: no *)
(* task of a booking that is not CANCELLED says CANCELLED yet.              *)
LEMMA SaveReloadCancel ==
    ASSUME TypeOK, LocksInv, CancelInv, NEW s \in Sessions, SaveReload(s)
    PROVE  LocksInv' /\ CancelInv'
  <1>1. /\ UNCHANGED <<task, cancelled, locked, copy, slips>>
        /\ pc[s] \in {"save", "cancel"}
        /\ pc'[s] = IF pc[s] = "save" THEN "write" ELSE "cancelWrite"
        /\ \A r \in Sessions \ {s} : pc'[r] = pc[r] /\ diff'[r] = diff[r]
        /\ diff'[s] = Differing(s)
    BY DEF SaveReload, TypeOK
  <1>2. \A t \in Tasks : Differing(s)[t] \subseteq diff[s][t]
    BY DEF Differing
  <1>3. \A t \in Tasks : "status" \in diff[s][t] /\ copy[s][t].status # task[t].status
                            => "status" \in Differing(s)[t]
    BY DEF Differing
  <1>4. LocksInv'
    BY <1>1, <1>2 DEF LocksInv, OneBookingEach, HeldByCancellations, Holding, TasksOf
  <1>5. ASSUME "undone" \notin slips' PROVE CancelsAll' /\ CancelledTogether' /\ CopiesCancelled'
    <2>1. CancelsAll /\ CancelledTogether /\ CopiesCancelled
      BY <1>1, <1>5 DEF CancelInv
    <2>2. CancelsAll'
      BY <1>1, <1>3, <2>1
         DEF CancelsAll, CancelledTogether, LocksInv, HeldByCancellations, Holding, TasksOf
    <2>3. CancelledTogether' /\ CopiesCancelled'
      BY <1>1, <1>2, <2>1 DEF CancelledTogether, CopiesCancelled
    <2> QED BY <2>2, <2>3
  <1> QED BY <1>4, <1>5 DEF CancelInv

(* What a session's own state is after its save. *)
LEMMA SavesTasksLeaves ==
    ASSUME TypeOK, NEW s \in Sessions, SavesTasks(s)
    PROVE  /\ \A r \in Sessions \ {s} : /\ pc'[r] = pc[r] /\ copy'[r] = copy[r]
                                        /\ diff'[r] = diff[r]
           /\ pc'[s] = "idle"
           /\ \A t \in Tasks : diff'[s][t] = {}
           /\ \A t \in Tasks :
                 task'[t].status =
                    IF "status" \in diff[s][t] THEN copy[s][t].status ELSE task[t].status
  <1>1. \A t \in Tasks :
           task'[t].status = IF "status" \in diff[s][t] THEN copy[s][t].status ELSE task[t].status
    BY WrittenType DEF SavesTasks
  <1> QED BY <1>1 DEF SavesTasks, Goto, TypeOK, NoDiff

(* A save that undoes nothing moves no task between open, COMPLETED and     *)
(* CANCELLED.                                                               *)
LEMMA SaveKeepsFinal ==
    ASSUME TypeOK, AccrualInv, CancelInv, "undone" \notin slips, NEW s \in Sessions,
           pc[s] = "write", SavesTasks(s), ~ Undoes(s), NEW t \in Tasks
    PROVE  Finished(t)' = Finished(t) /\ (Finished(t) => task'[t].status = task[t].status)
  <1>1. task'[t].status = IF "status" \in diff[s][t] THEN copy[s][t].status ELSE task[t].status
    BY SavesTasksLeaves
  <1>2. CASE Finished(t)
    <2>1. task'[t].status = task[t].status
      BY <1>2 DEF Undoes, SavesTasks
    <2> QED BY <1>2, <2>1 DEF Finished
  <1>3. CASE ~ Finished(t)
    <2>1. "status" \in diff[s][t] => copy[s][t].status \notin Final
      BY <1>3 DEF AccrualInv, CancelInv, CancelledTogether, CopiesCancelled, Finished, Final
    <2> QED BY <1>1, <1>3, <2>1 DEF Finished
  <1> QED BY <1>2, <1>3

LEMMA SaveWriteCancel ==
    ASSUME TypeOK, AccrualInv, LocksInv, CancelInv, NEW s \in Sessions, SaveWrite(s)
    PROVE  LocksInv' /\ CancelInv'
  <1>1. /\ pc[s] = "write" /\ SavesTasks(s) /\ UNCHANGED <<cancelled, locked>>
        /\ slips \subseteq slips' /\ (Undoes(s) => "undone" \in slips')
    BY DEF SaveWrite, Slip
  <1>2. /\ \A r \in Sessions \ {s} : pc'[r] = pc[r] /\ copy'[r] = copy[r] /\ diff'[r] = diff[r]
        /\ pc'[s] = "idle"
        /\ \A t \in Tasks : diff'[s][t] = {}
    BY <1>1, SavesTasksLeaves
  <1>3. \A b \in Bookings : locked[b] # s
    BY <1>1 DEF LocksInv, HeldByCancellations, Holding
  <1>4. LocksInv'
    BY <1>1, <1>2, <1>3 DEF LocksInv, OneBookingEach, HeldByCancellations, Holding, TasksOf
  <1>5. ASSUME "undone" \notin slips' PROVE CancelsAll' /\ CancelledTogether' /\ CopiesCancelled'
    <2>1. "undone" \notin slips /\ ~ Undoes(s)
      BY <1>1, <1>5
    <2>2. CancelsAll /\ CancelledTogether /\ CopiesCancelled
      BY <2>1 DEF CancelInv
    <2>3. CancelsAll' /\ CopiesCancelled'
      BY <1>1, <1>2, <1>3, <2>2 DEF CancelsAll, CopiesCancelled, TasksOf
    <2>4. CancelledTogether'
      <3>1. \A t \in Tasks : task'[t].status = "CANCELLED" <=> task[t].status = "CANCELLED"
        BY <1>1, <2>1, SaveKeepsFinal DEF Finished, Final
      <3> QED BY <1>1, <2>2, <3>1 DEF CancelledTogether
    <2> QED BY <2>3, <2>4
  <1> QED BY <1>4, <1>5 DEF CancelInv

(* The tasks of the booking, and no others, are saved as CANCELLED. *)
LEMMA CancelCommitStatuses ==
    ASSUME TypeOK, LocksInv, CancelInv, "undone" \notin slips,
           NEW s \in Sessions, NEW b \in Bookings, locked[b] = s, SavesTasks(s)
    PROVE  \A t \in Tasks : task'[t].status = IF t \in TasksOf(b) THEN "CANCELLED"
                                              ELSE task[t].status
  BY SavesTasksLeaves
     DEF LocksInv, CancelInv, CancelsAll, HeldByCancellations, Holding

LEMMA CancelCommitCancel ==
    ASSUME TypeOK, LocksInv, CancelInv, NEW s \in Sessions, NEW b \in Bookings,
           CancelCommit(s, b)
    PROVE  LocksInv' /\ CancelInv'
  <1>1. /\ locked[b] = s /\ SavesTasks(s) /\ cancelled' = cancelled \cup {b}
        /\ locked' = [locked EXCEPT ![b] = NoSession] /\ slips \subseteq slips'
    BY DEF CancelCommit
  <1>2. /\ \A r \in Sessions \ {s} : pc'[r] = pc[r] /\ copy'[r] = copy[r] /\ diff'[r] = diff[r]
        /\ pc'[s] = "idle"
        /\ \A t \in Tasks : diff'[s][t] = {}
    BY <1>1, SavesTasksLeaves
  <1>3. /\ \A d \in Bookings : locked'[d] = IF d = b THEN NoSession ELSE locked[d]
        /\ \A d \in Bookings \ {b} : locked[d] # s
    BY <1>1, NamesAssumption DEF TypeOK, LocksInv, OneBookingEach
  <1>4. LocksInv'
    <2>1. OneBookingEach'
      BY <1>3 DEF LocksInv, OneBookingEach
    <2>2. HeldByCancellations'
      BY <1>1, <1>2, <1>3, NamesAssumption
         DEF LocksInv, HeldByCancellations, Holding, TasksOf
    <2> QED BY <2>1, <2>2 DEF LocksInv
  <1>5. ASSUME "undone" \notin slips' PROVE CancelsAll' /\ CancelledTogether' /\ CopiesCancelled'
    <2>1. "undone" \notin slips
      BY <1>1, <1>5
    <2>2. CancelsAll /\ CancelledTogether /\ CopiesCancelled
      BY <2>1 DEF CancelInv
    <2>3. CancelsAll' /\ CopiesCancelled'
      BY <1>1, <1>2, <1>3, <2>2, NamesAssumption DEF CancelsAll, CopiesCancelled, TasksOf
    <2>4. CancelledTogether'
      <3>1. \A t \in Tasks : task'[t].status = IF t \in TasksOf(b) THEN "CANCELLED"
                                               ELSE task[t].status
        BY <1>1, <2>1, CancelCommitStatuses
      <3> QED BY <1>1, <2>2, <3>1 DEF CancelledTogether, TasksOf
    <2> QED BY <2>3, <2>4
  <1> QED BY <1>4, <1>5 DEF CancelInv

LEMMA CancelRefusedCancel ==
    ASSUME TypeOK, LocksInv, CancelInv, NEW s \in Sessions, NEW b \in Bookings,
           CancelRefused(s, b)
    PROVE  LocksInv' /\ CancelInv'
  <1>1. /\ locked[b] = s /\ Goto(s, "idle", NoCopies) /\ diff' = [diff EXCEPT ![s] = NoDiff]
        /\ locked' = [locked EXCEPT ![b] = NoSession] /\ UNCHANGED <<task, cancelled, slips>>
    BY DEF CancelRefused
  <1>2. /\ \A r \in Sessions \ {s} : pc'[r] = pc[r] /\ copy'[r] = copy[r] /\ diff'[r] = diff[r]
        /\ pc'[s] = "idle"
        /\ \A t \in Tasks : diff'[s][t] = {}
    BY <1>1 DEF Goto, TypeOK, NoDiff
  <1>3. /\ \A d \in Bookings : locked'[d] = IF d = b THEN NoSession ELSE locked[d]
        /\ \A d \in Bookings \ {b} : locked[d] # s
    BY <1>1, NamesAssumption DEF TypeOK, LocksInv, OneBookingEach
  <1>4. LocksInv'
    <2>1. OneBookingEach'
      BY <1>3 DEF LocksInv, OneBookingEach
    <2>2. HeldByCancellations'
      BY <1>1, <1>2, <1>3, NamesAssumption
         DEF LocksInv, HeldByCancellations, Holding, TasksOf
    <2> QED BY <2>1, <2>2 DEF LocksInv
  <1>5. CancelInv'
    BY <1>1, <1>2, <1>3, NamesAssumption
       DEF CancelInv, CancelsAll, CancelledTogether, CopiesCancelled, TasksOf
  <1> QED BY <1>4, <1>5

LEMMA CancelNext == TypeOK /\ AccrualInv /\ LocksInv /\ CancelInv /\ [Next]_vars
                       => LocksInv' /\ CancelInv'
  <1> SUFFICES ASSUME TypeOK, AccrualInv, LocksInv, CancelInv, [Next]_vars
               PROVE  LocksInv' /\ CancelInv'
    OBVIOUS
  <1>1. CASE UNCHANGED vars
    BY <1>1 DEF vars, LocksInv, OneBookingEach, HeldByCancellations, Holding, CancelInv,
                CancelsAll, CancelledTogether, CopiesCancelled, TasksOf
  <1>2. ASSUME NEW t \in Tasks, Assignment(t) \/ Completion(t) PROVE LocksInv' /\ CancelInv'
    BY <1>2, AssignmentCancel, CompletionCancel
  <1>3. ASSUME NEW s \in Sessions, Saving(s) PROVE LocksInv' /\ CancelInv'
    BY <1>3, ReadTaskCancel, SaveReloadCancel, SaveWriteCancel DEF Saving
  <1>4. ASSUME NEW s \in Sessions, NEW b \in Bookings, Cancellation(s, b)
        PROVE  LocksInv' /\ CancelInv'
    BY <1>4, CancelReadCancel, CancelCommitCancel, CancelRefusedCancel DEF Cancellation
  <1> QED BY <1>1, <1>2, <1>3, <1>4 DEF Next
----------------------------------------------------------------------------
(* What t contributes to the sum of u's commissions over the tasks in one   *)
(* of the statuses, and the sum itself.                                     *)
Counts(rows, teams, t, u, statuses) ==
    IF rows[t].status \in statuses THEN teams[t][u].share ELSE 0
CountsOf(rows, teams, u, statuses) == [t \in Tasks |-> Counts(rows, teams, t, u, statuses)]
SumOfCounts(rows, teams, u, statuses) ==
    SumFunctionOnSet(CountsOf(rows, teams, u, statuses), Tasks)

OpenStatuses == {"PENDING", "IN_PROGRESS"}
Typed(rows, teams) == rows \in [Tasks -> Task] /\ teams \in [Tasks -> [Users -> Assignee]]

LEMMA SharesAreSums ==
    ASSUME NEW u, NEW statuses
    PROVE  /\ ShareWhere(u, statuses) = SumOfCounts(task, assignee, u, statuses)
           /\ ShareWhere(u, statuses)' = SumOfCounts(task', assignee', u, statuses)
  <1>1. /\ ShareWhere(u, statuses) = SumFunction(CountsOf(task, assignee, u, statuses))
        /\ ShareWhere(u, statuses)' = SumFunction(CountsOf(task', assignee', u, statuses))
    BY DEF ShareWhere, CountsOf, Counts
  <1>2. /\ DOMAIN CountsOf(task, assignee, u, statuses) = Tasks
        /\ DOMAIN CountsOf(task', assignee', u, statuses) = Tasks
    BY DEF CountsOf
  <1> QED BY <1>1, <1>2 DEF SumFunction, SumOfCounts

LEMMA CountsAreNat ==
    ASSUME NEW rows, NEW teams, Typed(rows, teams), NEW u \in Users, NEW statuses,
           NEW t \in Tasks
    PROVE  /\ CountsOf(rows, teams, u, statuses)[t] = Counts(rows, teams, t, u, statuses)
           /\ Counts(rows, teams, t, u, statuses) \in Nat
  BY DEF CountsOf, Counts, Typed, Assignee

(* One task's status or one commission in it changes. *)
LEMMA SumAfterOne ==
    ASSUME NEW rows, NEW teams, NEW next, NEW nextTeams, Typed(rows, teams), Typed(next, nextTeams),
           NEW u \in Users, NEW statuses, NEW t \in Tasks,
           \A r \in Tasks \ {t} : Counts(next, nextTeams, r, u, statuses) =
                                  Counts(rows, teams, r, u, statuses)
    PROVE  SumOfCounts(next, nextTeams, u, statuses) =
             SumOfCounts(rows, teams, u, statuses) - Counts(rows, teams, t, u, statuses)
                                                   + Counts(next, nextTeams, t, u, statuses)
  <1> DEFINE f == CountsOf(rows, teams, u, statuses)
             g == CountsOf(next, nextTeams, u, statuses)
  <1>1. \A r \in Tasks : f[r] \in Nat /\ g[r] \in Nat
    BY CountsAreNat
  <1>2. \A r \in Tasks \ {t} : f[r] = g[r]
    BY CountsAreNat
  <1>3. /\ f[t] = Counts(rows, teams, t, u, statuses)
        /\ g[t] = Counts(next, nextTeams, t, u, statuses)
    BY CountsAreNat
  <1> HIDE DEF f, g
  <1>4. SumFunctionOnSet(g, Tasks) = SumFunctionOnSet(f, Tasks) - f[t] + g[t]
    BY <1>1, <1>2, TasksAssumption, SumOfOneChange
  <1> QED BY <1>3, <1>4 DEF f, g, SumOfCounts

LEMMA SumAfterNone ==
    ASSUME NEW rows, NEW teams, NEW next, NEW nextTeams, Typed(rows, teams), Typed(next, nextTeams),
           NEW u \in Users, NEW statuses,
           \A r \in Tasks : Counts(next, nextTeams, r, u, statuses) =
                            Counts(rows, teams, r, u, statuses)
    PROVE  SumOfCounts(next, nextTeams, u, statuses) = SumOfCounts(rows, teams, u, statuses)
  <1> DEFINE f == CountsOf(rows, teams, u, statuses)
             g == CountsOf(next, nextTeams, u, statuses)
  <1>1. \A r \in Tasks : g[r] = f[r]
    BY CountsAreNat
  <1> HIDE DEF f, g
  <1>2. SumFunctionOnSet(g, Tasks) = SumFunctionOnSet(f, Tasks)
    BY <1>1, TasksAssumption, SumOfSame
  <1> QED BY <1>2 DEF f, g, SumOfCounts

(* A wallet agrees with the sums of its user's commissions. *)
Matches(w, rows, teams, u) ==
    /\ w[u].pending = SumOfCounts(rows, teams, u, OpenStatuses)
    /\ w[u].payable = SumOfCounts(rows, teams, u, {"COMPLETED"})

LEMMA WalletsAreSums ==
    /\ WalletsMatchTasks <=> (slips = {} => \A u \in Users : Matches(wallet, task, assignee, u))
    /\ WalletsMatchTasks' <=>
          (slips' = {} => \A u \in Users : Matches(wallet', task', assignee', u))
  BY SharesAreSums DEF WalletsMatchTasks, Matches, OpenStatuses

LEMMA WalletsInit == Init => WalletsMatchTasks
  <1> SUFFICES ASSUME Init, NEW u \in Users PROVE Matches(wallet, task, assignee, u)
    BY WalletsAreSums
  <1>1. NoMember.share = 0 /\ Balances(0, 0).pending = 0 /\ Balances(0, 0).payable = 0
    BY MemberType DEF NoMember, Balances
  <1> DEFINE f(statuses) == CountsOf(task, assignee, u, statuses)
  <1>2. ASSUME NEW statuses PROVE SumOfCounts(task, assignee, u, statuses) = 0
    <2>1. \A t \in Tasks : f(statuses)[t] = 0
      BY <1>1 DEF Init, CountsOf, Counts
    <2> HIDE DEF f
    <2>2. SumFunctionOnSet(f(statuses), Tasks) = 0
      BY <2>1, TasksAssumption, SumOfZeros
    <2> QED BY <2>2 DEF f, SumOfCounts
  <1> QED BY <1>1, <1>2 DEF Init, Matches

WalletInv ==
    TypeOK /\ AccrualInv /\ SharesOfTeam /\ LocksInv /\ CancelInv /\ WalletsMatchTasks

(* The rows before and after a step have their types. *)
LEMMA RowsTyped == (TypeOK => Typed(task, assignee)) /\ (TypeOK' => Typed(task', assignee'))
  BY DEF TypeOK, Typed

(* A step that keeps every wallet, every commission and every task in its   *)
(* kind of status keeps the match.                                          *)
LEMMA MatchKept ==
    ASSUME TypeOK, TypeOK', WalletsMatchTasks, slips = {}, NEW u \in Users,
           wallet'[u].pending = wallet[u].pending, wallet'[u].payable = wallet[u].payable,
           \A t \in Tasks : /\ Finished(t)' = Finished(t)
                            /\ Finished(t) => task'[t].status = task[t].status
                            /\ assignee'[t][u].share = assignee[t][u].share
    PROVE  Matches(wallet', task', assignee', u)
  <1>1. Typed(task, assignee) /\ Typed(task', assignee')
    BY RowsTyped
  <1>2. \A t \in Tasks : task[t].status \in Statuses /\ task'[t].status \in Statuses
    BY <1>1 DEF Typed, Task
  <1>3. \A t \in Tasks :
           /\ task'[t].status \in OpenStatuses <=> task[t].status \in OpenStatuses
           /\ task'[t].status \in {"COMPLETED"} <=> task[t].status \in {"COMPLETED"}
    BY <1>2 DEF Finished, Final, OpenStatuses, Statuses
  <1>4. \A t \in Tasks :
           /\ Counts(task', assignee', t, u, OpenStatuses) = Counts(task, assignee, t, u, OpenStatuses)
           /\ Counts(task', assignee', t, u, {"COMPLETED"}) = Counts(task, assignee, t, u, {"COMPLETED"})
    BY <1>3 DEF Counts
  <1>5. /\ SumOfCounts(task', assignee', u, OpenStatuses) =
              SumOfCounts(task, assignee, u, OpenStatuses)
        /\ SumOfCounts(task', assignee', u, {"COMPLETED"}) =
              SumOfCounts(task, assignee, u, {"COMPLETED"})
    BY <1>1, <1>4, SumAfterNone
  <1>6. Matches(wallet, task, assignee, u)
    BY WalletsAreSums
  <1> QED BY <1>5, <1>6 DEF Matches

(* The status of t or u's commission in it changes, and the wallet with it. *)
LEMMA MatchAfterOne ==
    ASSUME TypeOK, TypeOK', WalletsMatchTasks, slips = {}, NEW u \in Users, NEW t \in Tasks,
           \A r \in Tasks \ {t} : /\ task'[r].status = task[r].status
                                  /\ assignee'[r][u].share = assignee[r][u].share,
           wallet'[u].pending = wallet[u].pending - Counts(task, assignee, t, u, OpenStatuses)
                                    + Counts(task', assignee', t, u, OpenStatuses),
           wallet'[u].payable = wallet[u].payable - Counts(task, assignee, t, u, {"COMPLETED"})
                                    + Counts(task', assignee', t, u, {"COMPLETED"})
    PROVE  Matches(wallet', task', assignee', u)
  <1>1. Typed(task, assignee) /\ Typed(task', assignee')
    BY RowsTyped
  <1>2. \A r \in Tasks \ {t} :
           /\ Counts(task', assignee', r, u, OpenStatuses) = Counts(task, assignee, r, u, OpenStatuses)
           /\ Counts(task', assignee', r, u, {"COMPLETED"}) = Counts(task, assignee, r, u, {"COMPLETED"})
    BY DEF Counts
  <1>3. SumOfCounts(task', assignee', u, OpenStatuses) =
           SumOfCounts(task, assignee, u, OpenStatuses)
             - Counts(task, assignee, t, u, OpenStatuses)
             + Counts(task', assignee', t, u, OpenStatuses)
    BY <1>1, <1>2, SumAfterOne
  <1>4. SumOfCounts(task', assignee', u, {"COMPLETED"}) =
           SumOfCounts(task, assignee, u, {"COMPLETED"})
             - Counts(task, assignee, t, u, {"COMPLETED"})
             + Counts(task', assignee', t, u, {"COMPLETED"})
    BY <1>1, <1>2, SumAfterOne
  <1>5. Matches(wallet, task, assignee, u)
    BY WalletsAreSums
  <1> QED BY <1>3, <1>4, <1>5 DEF Matches

(* assignTask moves nothing as long as the task's commission is zero. *)
LEMMA AssignTaskMatch ==
    ASSUME WalletInv, TypeOK', NEW t \in Tasks, NEW v \in Users, AssignTask(t, v), slips' = {},
           NEW u \in Users
    PROVE  Matches(wallet', task', assignee', u)
  <1>1. StatusKept /\ UNCHANGED assignee
    BY AssignsKeepStatus DEF AssignTask, WalletInv
  <1>2. Slip("legacy", Commission[t] > 0) /\ Commission[t] \in Nat
    BY AmountsAssumption DEF AssignTask
  <1>3. slips = {} /\ Commission[t] = 0
    BY <1>2 DEF Slip
  <1>4. wallet' = [w \in Users |-> Balances(wallet[w].pending - 0 + 0, wallet[w].payable)]
    BY <1>3 DEF AssignTask, TransferPending
  <1>5. wallet'[u].pending = wallet[u].pending /\ wallet'[u].payable = wallet[u].payable
    BY <1>4, WalletTypes DEF Balances, WalletInv
  <1> QED BY <1>1, <1>3, <1>5, MatchKept DEF WalletInv, StatusKept, Finished

LEMMA AddTaskAssigneeMatch ==
    ASSUME WalletInv, TypeOK', NEW t \in Tasks, NEW v \in Users, NEW role \in {"ASSISTANT", "LEAD"},
           NEW share \in Nat, AddTaskAssignee(t, v, role, share), slips' = {}, NEW u \in Users
    PROVE  Matches(wallet', task', assignee', u)
  <1> USE DEF WalletInv
  <1>1. StatusKept /\ Slip("late", Finished(t))
    BY SyncKeepsStatus DEF AddTaskAssignee, SetTeam
  <1>2. slips = {} /\ ~ Finished(t)
    BY <1>1 DEF Slip
  <1>3. task[t].status \in OpenStatuses /\ task[t].status # "COMPLETED"
    BY <1>2 DEF Finished, Final, OpenStatuses, TypeOK, Task, Statuses
  <1>4. OneShareChanges(t, v, share) /\ assignee[t][v].share = 0
    BY AddTaskAssigneeShares
  <1>5. wallet' = [wallet EXCEPT ![v] = Balances(wallet[v].pending + share, wallet[v].payable)]
    BY DEF AddTaskAssignee, AddPending
  <1>6. CASE u = v
    <2>1. wallet'[u].pending = wallet[u].pending + share /\ wallet'[u].payable = wallet[u].payable
      BY <1>5, <1>6 DEF TypeOK, Balances
    <2>2. wallet[u].pending \in Nat /\ wallet[u].payable \in Nat
      BY WalletTypes
    <2>3. /\ Counts(task, assignee, t, u, OpenStatuses) = 0
          /\ Counts(task', assignee', t, u, OpenStatuses) = share
          /\ Counts(task, assignee, t, u, {"COMPLETED"}) = 0
          /\ Counts(task', assignee', t, u, {"COMPLETED"}) = 0
      BY <1>1, <1>3, <1>4, <1>6 DEF Counts, StatusKept, OneShareChanges
    <2> QED BY <1>1, <1>2, <1>4, <2>1, <2>2, <2>3, MatchAfterOne DEF StatusKept, OneShareChanges
  <1>7. CASE u # v
    <2>1. wallet'[u] = wallet[u]
      BY <1>5, <1>7 DEF TypeOK
    <2>2. \A r \in Tasks : assignee'[r][u].share = assignee[r][u].share
      BY <1>4, <1>7 DEF OneShareChanges
    <2> QED BY <1>1, <1>2, <2>1, <2>2, MatchKept DEF StatusKept, Finished
  <1> QED BY <1>6, <1>7

LEMMA UpdateTaskAssigneeMatch ==
    ASSUME WalletInv, TypeOK', NEW t \in Tasks, NEW v \in Users, NEW role \in {"ASSISTANT", "LEAD"},
           UpdateTaskAssignee(t, v, role), slips' = {}, NEW u \in Users
    PROVE  Matches(wallet', task', assignee', u)
  <1> USE DEF WalletInv
  <1>1. StatusKept /\ UNCHANGED <<wallet, slips>>
    BY SyncKeepsStatus DEF UpdateTaskAssignee, SetTeam
  <1>2. OneShareChanges(t, v, assignee[t][v].share)
    BY UpdateTaskAssigneeShares
  <1>3. \A r \in Tasks : assignee'[r][u].share = assignee[r][u].share
    BY <1>2 DEF OneShareChanges
  <1> QED BY <1>1, <1>3, MatchKept DEF StatusKept, Finished

LEMMA RemoveTaskAssigneeMatch ==
    ASSUME WalletInv, TypeOK', NEW t \in Tasks, NEW v \in Users, RemoveTaskAssignee(t, v),
           slips' = {}, NEW u \in Users
    PROVE  Matches(wallet', task', assignee', u)
  <1> USE DEF WalletInv
  <1>1. StatusKept /\ Slip("late", Finished(t))
    BY SyncKeepsStatus DEF RemoveTaskAssignee, SetTeam
  <1>2. slips = {} /\ ~ Finished(t)
    BY <1>1 DEF Slip
  <1>3. task[t].status \in OpenStatuses /\ task[t].status # "COMPLETED"
    BY <1>2 DEF Finished, Final, OpenStatuses, TypeOK, Task, Statuses
  <1>4. OneShareChanges(t, v, 0)
    BY RemoveTaskAssigneeShares
  <1>5. wallet' = [wallet EXCEPT ![v] = Balances(wallet[v].pending - assignee[t][v].share,
                                                 wallet[v].payable)]
    BY DEF RemoveTaskAssignee, WithoutShare, SubtractPending
  <1>6. CASE u = v
    <2>1. /\ wallet'[u].pending = wallet[u].pending - assignee[t][u].share
          /\ wallet'[u].payable = wallet[u].payable
      BY <1>5, <1>6 DEF TypeOK, Balances
    <2>2. wallet[u].pending \in Nat /\ wallet[u].payable \in Nat /\ assignee[t][u].share \in Nat
      BY WalletTypes DEF TypeOK, Assignee
    <2>3. /\ Counts(task, assignee, t, u, OpenStatuses) = assignee[t][u].share
          /\ Counts(task', assignee', t, u, OpenStatuses) = 0
          /\ Counts(task, assignee, t, u, {"COMPLETED"}) = 0
          /\ Counts(task', assignee', t, u, {"COMPLETED"}) = 0
      BY <1>1, <1>3, <1>4, <1>6 DEF Counts, StatusKept, OneShareChanges
    <2> QED BY <1>1, <1>2, <1>4, <2>1, <2>2, <2>3, MatchAfterOne DEF StatusKept, OneShareChanges
  <1>7. CASE u # v
    <2>1. wallet'[u] = wallet[u]
      BY <1>5, <1>7 DEF TypeOK
    <2>2. \A r \in Tasks : assignee'[r][u].share = assignee[r][u].share
      BY <1>4, <1>7 DEF OneShareChanges
    <2> QED BY <1>1, <1>2, <2>1, <2>2, MatchKept DEF StatusKept, Finished
  <1> QED BY <1>6, <1>7

(* A completion takes each commission in t from the open ones to the paid   *)
(* ones: the task was open, its booking not being CANCELLED.                *)
LEMMA CompletionMatch ==
    ASSUME WalletInv, TypeOK', NEW t \in Tasks, Completion(t), slips' = {}, NEW u \in Users
    PROVE  Matches(wallet', task', assignee', u)
  <1> USE DEF WalletInv
  <1>1. MarkCompleted(t) /\ slips = {}
    BY DEF Completion, CompleteByTeam, CompleteByAssigned, Slip
  <1>2. StatusesAfter(t, "COMPLETED") /\ UNCHANGED assignee
    BY <1>1, MarkCompletedTypes DEF MarkCompleted
  <1>3. task[t].status # "COMPLETED" /\ BookingOf[t] \notin cancelled
    BY <1>1 DEF MarkCompleted, Completable
  <1>4. task[t].status \in OpenStatuses
    BY <1>1, <1>3 DEF CancelInv, CancelledTogether, OpenStatuses, TypeOK, Task, Statuses
  <1>5. /\ Counts(task, assignee, t, u, OpenStatuses) = assignee[t][u].share
        /\ Counts(task', assignee', t, u, OpenStatuses) = 0
        /\ Counts(task, assignee, t, u, {"COMPLETED"}) = 0
        /\ Counts(task', assignee', t, u, {"COMPLETED"}) = assignee[t][u].share
    BY <1>2, <1>3, <1>4 DEF Counts, StatusesAfter, OpenStatuses
  <1>6. wallet[u].pending \in Nat /\ wallet[u].payable \in Nat /\ assignee[t][u].share \in Nat
    BY WalletTypes DEF TypeOK, Assignee
  <1>7. /\ wallet'[u].pending = wallet[u].pending - assignee[t][u].share
        /\ wallet'[u].payable = wallet[u].payable + assignee[t][u].share
    <2>1. CASE CompleteByTeam(t)
      BY <2>1 DEF CompleteByTeam, MoveToPayable, Balances
    <2>2. CASE CompleteByAssigned(t)
      <3>1. Team(t) = {} /\ Slip("legacy", Commission[t] > 0) /\ Commission[t] \in Nat
        BY <2>2, AmountsAssumption DEF CompleteByAssigned
      <3>2. Commission[t] = 0
        BY <1>1, <3>1 DEF Slip
      <3>3. assignee[t][u].share = 0
        BY <3>1 DEF Team, SharesOfTeam
      <3>4. wallet' = [wallet EXCEPT ![task[t].assigned] =
                          Balances(wallet[task[t].assigned].pending,
                                   wallet[task[t].assigned].payable + 0)]
        BY <2>2, <3>2 DEF CompleteByAssigned, AddToPayable
      <3>5. wallet'[u].pending = wallet[u].pending /\ wallet'[u].payable = wallet[u].payable
        BY <1>6, <3>4 DEF TypeOK, Balances
      <3> QED BY <1>6, <3>3, <3>5
    <2> QED BY <2>1, <2>2 DEF Completion
  <1>8. \A r \in Tasks \ {t} : /\ task'[r].status = task[r].status
                               /\ assignee'[r][u].share = assignee[r][u].share
    BY <1>2 DEF StatusesAfter
  <1> QED BY <1>1, <1>5, <1>6, <1>7, <1>8, MatchAfterOne

LEMMA SaveWriteMatch ==
    ASSUME WalletInv, TypeOK', NEW s \in Sessions, SaveWrite(s), slips' = {}, NEW u \in Users
    PROVE  Matches(wallet', task', assignee', u)
  <1> USE DEF WalletInv
  <1>1. /\ pc[s] = "write" /\ SavesTasks(s) /\ UNCHANGED <<assignee, wallet>>
        /\ slips = {} /\ ~ Undoes(s)
    BY DEF SaveWrite, Slip
  <1>2. \A t \in Tasks : Finished(t)' = Finished(t)
                         /\ (Finished(t) => task'[t].status = task[t].status)
    BY <1>1, SaveKeepsFinal
  <1> QED BY <1>1, <1>2, MatchKept

(* What reverseTaskCommissions takes back is what the tasks of the booking  *)
(* owe: they are open, none of them being finished.                         *)
LEMMA CancelCommitMatch ==
    ASSUME WalletInv, TypeOK', NEW s \in Sessions, NEW b \in Bookings, CancelCommit(s, b),
           slips' = {}, NEW u \in Users
    PROVE  Matches(wallet', task', assignee', u)
  <1> USE DEF WalletInv
  <1> DEFINE before == CountsOf(task, assignee, u, OpenStatuses)
             after == CountsOf(task', assignee', u, OpenStatuses)
             back == [t \in Tasks |-> IF t \in TasksOf(b) THEN Reversed(s, t, u) ELSE 0]
  <1>1. /\ locked[b] = s /\ SavesTasks(s) /\ UNCHANGED assignee
        /\ slips = {} /\ ~ Undoes(s) /\ ~ ByAssigned(s, b)
        /\ ReversedInAll(s, b, u) \in 0..wallet[u].pending
        /\ wallet' = [v \in Users |-> SubtractPending(wallet[v], ReversedInAll(s, b, v))]
    BY DEF CancelCommit
  <1>2. \A t \in Tasks : task'[t].status = IF t \in TasksOf(b) THEN "CANCELLED" ELSE task[t].status
    BY <1>1, CancelCommitStatuses
  <1>3. \A t \in TasksOf(b) : task[t].status \in OpenStatuses /\ task[t].status # "COMPLETED"
    <2> TAKE t \in TasksOf(b)
    <2>1. t \in Tasks /\ BookingOf[t] \notin cancelled
      BY <1>1 DEF TasksOf, LocksInv, HeldByCancellations, Holding
    <2>2. task[t].status # "CANCELLED"
      BY <1>1, <2>1 DEF CancelInv, CancelledTogether
    <2>3. task[t].status # "COMPLETED"
      BY <1>1, <1>2, <2>1 DEF Undoes, SavesTasks, Finished, Final
    <2> QED BY <2>1, <2>2, <2>3 DEF OpenStatuses, TypeOK, Task, Statuses
  <1>4. \A t \in TasksOf(b) : Reversed(s, t, u) = assignee[t][u].share
    <2> TAKE t \in TasksOf(b)
    <2>1. CASE Team(t) # {}
      BY <2>1 DEF Reversed
    <2>2. CASE Team(t) = {}
      <3>1. assignee[t][u].share = 0
        BY <2>2 DEF Team, SharesOfTeam, TasksOf
      <3>2. copy[s][t].assigned = u => Commission[t] = 0
        BY <1>1, <2>2, NamesAssumption, AmountsAssumption DEF ByAssigned, TasksOf
      <3> QED BY <2>2, <3>1, <3>2 DEF Reversed
    <2> QED BY <2>1, <2>2
  <1>5. Typed(task, assignee) /\ Typed(task', assignee')
    BY RowsTyped
  <1>6. \A t \in Tasks : /\ before[t] = Counts(task, assignee, t, u, OpenStatuses)
                         /\ after[t] = Counts(task', assignee', t, u, OpenStatuses)
                         /\ before[t] \in Nat /\ after[t] \in Nat
    BY <1>5, CountsAreNat
  <1>7. \A t \in Tasks : after[t] \in Nat /\ back[t] \in Nat /\ before[t] = after[t] + back[t]
    <2> TAKE t \in Tasks
    <2>1. CASE t \in TasksOf(b)
      <3>1. before[t] = assignee[t][u].share /\ after[t] = 0 /\ back[t] = assignee[t][u].share
        BY <1>2, <1>3, <1>4, <1>6, <2>1 DEF Counts, OpenStatuses
      <3> QED BY <1>6, <3>1
    <2>2. CASE t \notin TasksOf(b)
      <3>1. after[t] = before[t] /\ back[t] = 0
        BY <1>1, <1>2, <1>6, <2>2 DEF Counts
      <3> QED BY <1>6, <3>1
    <2> QED BY <2>1, <2>2
  <1>8. SumFunctionOnSet(back, Tasks) = ReversedInAll(s, b, u)
    BY DEF ReversedInAll, SumFunction
  <1> HIDE DEF before, after, back
  <1>9. /\ SumFunctionOnSet(before, Tasks) =
             SumFunctionOnSet(after, Tasks) + SumFunctionOnSet(back, Tasks)
        /\ SumFunctionOnSet(after, Tasks) \in Nat /\ SumFunctionOnSet(back, Tasks) \in Nat
    BY <1>7, TasksAssumption, SumOfSums, SumIsNat
  <1>10. /\ wallet[u].pending = SumFunctionOnSet(before, Tasks)
         /\ wallet[u].payable = SumOfCounts(task, assignee, u, {"COMPLETED"})
    BY <1>1, WalletsAreSums DEF Matches, SumOfCounts, before
  <1>11. /\ wallet'[u].pending = wallet[u].pending - SumFunctionOnSet(back, Tasks)
         /\ wallet'[u].payable = wallet[u].payable
    BY <1>1, <1>8 DEF SubtractPending, Balances
  <1>12. SumOfCounts(task', assignee', u, {"COMPLETED"}) =
            SumOfCounts(task, assignee, u, {"COMPLETED"})
    <2>1. \A t \in Tasks : Counts(task', assignee', t, u, {"COMPLETED"}) =
                           Counts(task, assignee, t, u, {"COMPLETED"})
      BY <1>1, <1>2, <1>3 DEF Counts
    <2> QED BY <1>5, <2>1, SumAfterNone
  <1>13. wallet'[u].pending = SumFunctionOnSet(after, Tasks)
    BY <1>9, <1>10, <1>11
  <1> QED BY <1>10, <1>11, <1>12, <1>13 DEF Matches, SumOfCounts, after

LEMMA WalletsNext == WalletInv /\ [Next]_vars => WalletsMatchTasks'
  <1> SUFFICES ASSUME WalletInv, [Next]_vars, slips' = {}, NEW u \in Users
               PROVE  Matches(wallet', task', assignee', u)
    BY WalletsAreSums
  <1>1. TypeOK'
    BY TypeNext DEF WalletInv
  <1>2. CASE UNCHANGED <<task, assignee, wallet, slips>>
    BY <1>1, <1>2, MatchKept DEF WalletInv, Finished
  <1>3. ASSUME NEW t \in Tasks, Assignment(t) PROVE Matches(wallet', task', assignee', u)
    <2>1. PICK v \in Users :
             \/ AssignTask(t, v) \/ RemoveTaskAssignee(t, v)
             \/ \E role \in {"ASSISTANT", "LEAD"} :
                   \/ UpdateTaskAssignee(t, v, role)
                   \/ \E share \in Shares \cup {Commission[t]} : AddTaskAssignee(t, v, role, share)
      BY <1>3 DEF Assignment
    <2>2. Shares \cup {Commission[t]} \subseteq Nat
      BY AmountsAssumption
    <2> QED BY <1>1, <2>1, <2>2, AssignTaskMatch, RemoveTaskAssigneeMatch,
               UpdateTaskAssigneeMatch, AddTaskAssigneeMatch
  <1>4. ASSUME NEW t \in Tasks, Completion(t) PROVE Matches(wallet', task', assignee', u)
    BY <1>1, <1>4, CompletionMatch
  <1>5. ASSUME NEW s \in Sessions, Saving(s) PROVE Matches(wallet', task', assignee', u)
    <2>1. SaveWrite(s) \/ UNCHANGED <<task, assignee, wallet, slips>>
      BY <1>5 DEF Saving, StartTask, EditTask, ReadTask, SaveReload
    <2> QED BY <1>1, <1>2, <2>1, SaveWriteMatch
  <1>6. ASSUME NEW s \in Sessions, NEW b \in Bookings, Cancellation(s, b)
        PROVE  Matches(wallet', task', assignee', u)
    <2>1. CancelCommit(s, b) \/ UNCHANGED <<task, assignee, wallet, slips>>
      BY <1>6 DEF Cancellation, CancelRead, CancelRefused
    <2> QED BY <1>1, <1>2, <2>1, CancelCommitMatch
  <1> QED BY <1>2, <1>3, <1>4, <1>5, <1>6 DEF Next, vars

(* As long as no commission goes over assignedUserId, no finished task gets *)
(* other assignees and no old copy is saved over a final status, every      *)
(* wallet is the sum of its user's commissions.                             *)
THEOREM WalletsAddUp == Spec => []WalletsMatchTasks
  <1>1. Init => WalletInv
    BY TypeInit, AccrualInit, SharesInit, CancelInit, WalletsInit DEF WalletInv
  <1>2. WalletInv /\ [Next]_vars => WalletInv'
    BY TypeNext, AccrualNext, SharesNext, CancelNext, WalletsNext DEF WalletInv
  <1>3. WalletInv => WalletsMatchTasks
    BY DEF WalletInv
  <1> QED BY <1>1, <1>2, <1>3, PTL DEF Spec
=============================================================================
