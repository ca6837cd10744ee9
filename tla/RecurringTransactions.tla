------------------------ MODULE RecurringTransactions ------------------------
(***************************************************************************)
(* The nightly job that posts recurring transactions under a distributed   *)
(* lock, and the edits of those transactions.  The job posts in one        *)
(* transaction and saves the entity it read in another; an edit reads and  *)
(* saves without a transaction.  A save writes every column in which the   *)
(* entity differs from the row it reloads, and inserts the row if it is    *)
(* gone: the row becomes the entity, stale or not.                         *)
(***************************************************************************)
EXTENDS Integers, FiniteSets, Functions, DistributedLock

CONSTANTS
    Items,        \* recurring transactions
    Ticks,        \* the jobs of Jobs that are runs of the nightly cron
    Editors,      \* requests that change a recurring transaction
    RecurringLock,
    MaxOccurrences, \* item -> maxOccurrences
    Horizon,      \* the last date reached, for model checking
    MaxSlips      \* bound on crashes and errors, for model checking

ASSUME RecurringAssumption ==
    /\ Ticks \subseteq Jobs /\ RecurringLock \in Resources
    /\ MaxOccurrences \in [Items -> Nat \ {0}]
    /\ Horizon \in Nat /\ MaxSlips \in Nat

VARIABLES
    today,   \* the date
    item,    \* item -> its row
    posted,  \* item -> date -> transactions posted for that date
    tick,    \* tick -> the entities it read and has not saved, those posted
    editor,  \* editor -> the entity it read
    slip     \* kinds of irregular step that have happened, and how many

recurringVars == <<today, item, posted, tick, editor, slip>>
----------------------------------------------------------------------------
RowOf(status, next, runs, failures) ==
    [status |-> status, next |-> next, runs |-> runs, failures |-> failures]
ItemRow == [status : {"ACTIVE", "PAUSED", "COMPLETED", "FAILED", "removed"}, next : Nat,
            runs : Nat, failures : 0..3]
NewItem == RowOf("ACTIVE", 0, 0, 0)

TickAt(copy, due, done) == [copy |-> copy, due |-> due, done |-> done]
NoTick == TickAt([i \in Items |-> NewItem], {}, {})
EditorAt(item1, read, status) == [item |-> item1, read |-> read, status |-> status]
AnyItem == CHOOSE i \in Items : TRUE
NoEdit == EditorAt(AnyItem, NewItem, "none")
Edits == {"same", "ACTIVE", "PAUSED", "removed"}

RecurringInit ==
    /\ LockInit
    /\ today = 0
    /\ item = [i \in Items |-> NewItem]
    /\ posted = [i \in Items |-> [d \in 0..Horizon |-> 0]]
    /\ tick = [t \in Ticks |-> NoTick]
    /\ editor = [u \in Editors |-> NoEdit]
    /\ slip = [kinds |-> {}, count |-> 0]

(* The kinds of irregular step:                                             *)
(* "crash"      the job ended between posting and saving;                   *)
(* "overrun"    the job went on after its lock had expired;                 *)
(* "failedSave" the save after the posting failed;                          *)
(* "staleEdit"  an edit saved an entity that the job had changed since;     *)
(* "reopened"   an edit activated an item that had come to its end.         *)
Slips(kind) ==
    /\ slip.count < MaxSlips
    /\ slip' = [kinds |-> slip.kinds \cup {kind}, count |-> slip.count + 1]
----------------------------------------------------------------------------
Midnight ==
    /\ today < Horizon
    /\ today' = today + 1
    /\ UNCHANGED <<lockVars, item, posted, tick, editor, slip>>

Due(i) == item[i].status = "ACTIVE" /\ item[i].next <= today

(* processDueTransactions reads what is due, once it has the lock. *)
StartTick(t) ==
    /\ Acquire(t, RecurringLock)
    /\ \E i \in Items : Due(i)
    /\ tick' = [tick EXCEPT ![t] = TickAt(item, {i \in Items : Due(i)}, {})]
    /\ UNCHANGED <<today, item, posted, editor, slip>>

(* createSystemTransaction commits on its own. *)
PostDue(t, i) ==
    /\ i \in tick[t].due \ tick[t].done
    /\ posted' = [posted EXCEPT ![i][tick[t].copy[i].next] = @ + 1]
    /\ tick' = [tick EXCEPT ![t] = TickAt(@.copy, @.due, @.done \cup {i})]
    /\ UNCHANGED <<lockVars, today, item, editor, slip>>

(* Mutation: the last occurrence is not noticed. *)
AdvancedForever(c, i) == RowOf(c.status, c.next + 1, c.runs + 1, 0)

(* What a run that went well makes of the entity: calculateNextRunDate and  *)
(* isComplete.                                                              *)
Advanced(c, i) ==
    RowOf(IF c.runs + 1 >= MaxOccurrences[i] THEN "COMPLETED" ELSE c.status,
          c.next + 1, c.runs + 1, 0)

(* Mutation: the item is tried again after any number of failures. *)
AfterFailureForever(c) == RowOf(c.status, c.next, c.runs, c.failures + 1)

(* The catch of processTransaction: the third failure in a row is final.    *)
(* The count is kept by an edit that activates the item again, and counted  *)
(* here up to three.                                                        *)
AfterFailure(c) ==
    LET failures == IF c.failures < 3 THEN c.failures + 1 ELSE 3
    IN  RowOf(IF failures = 3 THEN "FAILED" ELSE c.status, c.next, c.runs, failures)

Saved(t, i, row) ==
    /\ item' = [item EXCEPT ![i] = row]
    /\ tick' = [tick EXCEPT ![t] = TickAt(@.copy, @.due \ {i}, @.done \ {i})]

SaveDue(t, i) ==
    /\ i \in tick[t].done
    /\ Saved(t, i, Advanced(tick[t].copy[i], i))
    /\ UNCHANGED <<lockVars, today, posted, editor, slip>>

(* The transaction is refused: the failure is counted and saved. *)
PostFails(t, i) ==
    /\ i \in tick[t].due \ tick[t].done
    /\ Saved(t, i, AfterFailure(tick[t].copy[i]))
    /\ UNCHANGED <<lockVars, today, posted, editor, slip>>

(* The save fails after the transaction was posted: the catch counts a      *)
(* failure, on the entity that has advanced, and saves again.               *)
SaveFails(t, i) ==
    /\ i \in tick[t].done
    /\ Slips("failedSave")
    /\ Saved(t, i, AfterFailure(Advanced(tick[t].copy[i], i)))
    /\ UNCHANGED <<lockVars, today, posted, editor>>

EndTick(t) ==
    /\ tick[t].due = {}
    /\ Release(t)
    /\ tick' = [tick EXCEPT ![t] = NoTick]
    /\ UNCHANGED <<today, item, posted, editor, slip>>

(* A crash, or a second save that fails as well, leaves rows as they were. *)
CrashTick(t) ==
    /\ holding[t] = RecurringLock
    /\ Slips("crash")
    /\ Abandon(t)
    /\ tick' = [tick EXCEPT ![t] = NoTick]
    /\ UNCHANGED <<today, item, posted, editor>>

TickLockExpires(r) ==
    /\ Expire(r)
    /\ IF Holders(r) = {} THEN UNCHANGED slip ELSE Slips("overrun")
    /\ UNCHANGED <<today, item, posted, tick, editor>>
----------------------------------------------------------------------------
(* update and remove begin with findOne. *)
BeginEdit(u, i, status) ==
    /\ editor[u].status = "none"
    /\ item[i].status # "removed"
    /\ editor' = [editor EXCEPT ![u] = EditorAt(i, item[i], status)]
    /\ UNCHANGED <<lockVars, today, item, posted, tick, slip>>

(* The entity an edit saves: the status of the request, if it has one, and  *)
(* the schedule that was read.                                              *)
Edited(edit) ==
    RowOf(IF edit.status = "same" THEN edit.read.status ELSE edit.status,
          edit.read.next, edit.read.runs, edit.read.failures)

EditSlip(edit) ==
    IF edit.status # "removed" /\ item[edit.item] # edit.read THEN Slips("staleEdit")
    ELSE IF edit.status = "ACTIVE" /\ edit.read.runs >= MaxOccurrences[edit.item] THEN Slips("reopened")
    ELSE UNCHANGED slip

SaveEdit(u) ==
    /\ editor[u].status # "none"
    /\ item' = [item EXCEPT ![editor[u].item] = Edited(editor[u])]
    /\ EditSlip(editor[u])
    /\ editor' = [editor EXCEPT ![u] = NoEdit]
    /\ UNCHANGED <<lockVars, today, posted, tick>>

RecurringNext ==
    \/ Midnight
    \/ \E t \in Ticks : StartTick(t) \/ EndTick(t) \/ CrashTick(t)
    \/ \E t \in Ticks, i \in Items : \/ PostDue(t, i) \/ SaveDue(t, i)
                                     \/ PostFails(t, i) \/ SaveFails(t, i)
    \/ \E u \in Editors, i \in Items, status \in Edits : BeginEdit(u, i, status)
    \/ \E u \in Editors : SaveEdit(u)
    \/ TickLockExpires(RecurringLock)
----------------------------------------------------------------------------
RecurringTypeOK ==
    /\ today \in 0..Horizon
    /\ item \in [Items -> ItemRow]
    /\ posted \in [Items -> [0..Horizon -> Nat]]

(* No date of a recurring transaction is posted twice, and no more of them  *)
(* than maxOccurrences, although posting and saving the schedule are two    *)
(* transactions: it takes a crash between them, an overrun lock or an edit  *)
(* that writes the old schedule back.  A failed save alone does not do it.  *)
RecurringPostedOnce ==
    slip.kinds \cap {"crash", "overrun", "staleEdit"} = {} =>
        \A i \in Items :
            /\ \A d \in 0..Horizon : posted[i][d] <= 1
            /\ "reopened" \in slip.kinds \/ SumFunction(posted[i]) <= MaxOccurrences[i]
==============================================================================
