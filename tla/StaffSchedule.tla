---------------------------- MODULE StaffSchedule ----------------------------
(***************************************************************************)
(* Who is free when: the availability slots of the staff, the bookings and *)
(* whom their tasks are assigned to, and the check that compares them when *)
(* a booking is created, confirmed, edited or rescheduled.  A confirmation *)
(* and a move hold the booking's row from the check to the save; nobody    *)
(* holds the slots, the assignments or the other bookings.                 *)
(* Time is counted in hours of one weekday, in weeks 1, 2, ...; a booking  *)
(* has one task.                                                           *)
(***************************************************************************)
EXTENDS Naturals, FiniteSets

CONSTANTS Staff,         \* users with an eligibility for the package
          Gigs,          \* bookings, all of the same package
          GigRequests,   \* 1..n, in the order they begin
          NoEmployee,        \* no user
          SchedulePlots  \* [kinds, requests, drafts, times, hours, required, shapes, slots, others, changes]

ASSUME ScheduleAssumption ==
  /\ IsFiniteSet(GigRequests) /\ GigRequests = 1..Cardinality(GigRequests)
  /\ IsFiniteSet(Staff) /\ NoEmployee \notin Staff
  /\ \A plot \in SchedulePlots :
       /\ plot \in [kinds : SUBSET {"create", "edit", "confirm", "move", "createSlot", "updateSlot"}, requests : Nat,
                    drafts : SUBSET Gigs, times : [weeks : SUBSET Nat, starts : SUBSET Nat], hours : Nat \ {0},
                    required : Nat, slots : {plot.slots}, shapes : SUBSET [from : Nat, till : Nat, first : Nat, last : Nat],
                    others : SUBSET {"team", "assign", "start", "close", "duty", "slots"}, changes : Nat]
       /\ \A s \in plot.slots : /\ s \in [id : {s.id}, user : Staff, from : Nat, till : Nat, first : Nat, last : Nat, by : {0}]
                                /\ s.from < s.till /\ s.first <= s.last
       /\ \A s, t \in plot.slots :
            s.id # t.id /\ s.user = t.user => s.till <= t.from \/ t.till <= s.from \/ s.last < t.first \/ t.last < s.first

VARIABLES onDuty,       \* the eligible users that are active
          slots,        \* [id, user, from, till, first, last, by]; by: history, who wrote it last
          gigs,         \* booking -> status, week, start
          gigTask,      \* booking -> its task: started, lead (assignedUserId), team (assignees), chief (LEAD)
          gigOp,        \* what each request is doing
          slotRaces,    \* history: pairs of requests that overlapped
          schedulePlot  \* the plot, and the changes left

scheduleVars == <<onDuty, slots, gigs, gigTask, gigOp, slotRaces, schedulePlot>>

NoGig == [status |-> "NONE", week |-> 1, start |-> 0]
NoTask == [started |-> FALSE, lead |-> NoEmployee, team |-> {}, chief |-> NoEmployee]
NoOp == [kind |-> "none", at |-> "idle", gig |-> NoGig, of |-> NoEmployee, free |-> {}, task |-> NoTask,
         slot |-> NoEmployee, stale |-> FALSE, behind |-> FALSE]

ScheduleInit ==
  \E plot \in SchedulePlots :
    /\ schedulePlot = plot
    /\ onDuty = Staff
    /\ slots = plot.slots
    /\ gigs = [g \in Gigs |-> IF g \in plot.drafts THEN [status |-> "DRAFT", week |-> 1, start |-> 1] ELSE NoGig]
    /\ gigTask = [g \in Gigs |-> NoTask]
    /\ gigOp = [o \in GigRequests |-> NoOp]
    /\ slotRaces = {}

OpIs(o, step) == gigOp[o].at = step
Over == [NoOp EXCEPT !.at = "done"]
OpEnds(o) == gigOp' = [gigOp EXCEPT ![o] = Over]
Underway(o) == gigOp[o].at \notin {"idle", "done"}
Holds(o, g) == gigOp[o].kind \in {"confirm", "move"} /\ gigOp[o].of = g /\ Underway(o) /\ ~OpIs(o, "lock")
RowFree(g) == \A o \in GigRequests : ~Holds(o, g)
\* Every request that is under way sees what it has read change.
Stirred == [o \in GigRequests |-> [gigOp[o] EXCEPT !.stale = Underway(o), !.behind = Underway(o)]]
----------------------------------------------------------------------------
(* The hours of a booking and of a slot; both half-open.                    *)
Overlap(from1, till1, from2, till2) == from1 < till2 /\ from2 < till1
Till(g) == g.start + schedulePlot.hours

SlotOnDay(s, week) == s.first <= week /\ week <= s.last

\* Whoever has no slot that day is available all day.
ScheduledUsers(g) ==
  {u \in onDuty :
    LET today == {s \in slots : s.user = u /\ SlotOnDay(s, g.week)} IN
    today # {} => \E s \in today : s.from <= g.start /\ Till(g) <= s.till}

Assigned(task) == task.team \cup ({task.lead} \ {NoEmployee})

Others(g) == Gigs \ {g}

Clash(a, b) == a.week = b.week /\ Overlap(a.start, Till(a), b.start, Till(b))

BusyUsers(users, wanted, but) ==
  {u \in users : \E g \in Others(but) : /\ gigs[g].status = "CONFIRMED"
                                        /\ u \in Assigned(gigTask[g])
                                        /\ Clash(wanted, gigs[g])}
----------------------------------------------------------------------------
(* A request about a booking: create, edit, confirm, move.                  *)
Times == [week : schedulePlot.times.weeks, start : schedulePlot.times.starts]

BeginGig(o, g) ==
  /\ OpIs(o, "idle")
  /\ o <= schedulePlot.requests
  /\ \A p \in GigRequests : p < o => ~OpIs(p, "idle")
  /\ \E kind \in schedulePlot.kinds \cap {"create", "edit", "confirm", "move"}, t \in Times :
       /\ kind = "create" <=> gigs[g].status = "NONE"
       /\ \A p \in GigRequests : Underway(p) /\ gigOp[p].kind = "create" => gigOp[p].of # g
       /\ kind = "confirm" => t = [week |-> gigs[g].week, start |-> gigs[g].start]
       /\ gigOp' = [gigOp EXCEPT ![o] = [NoOp EXCEPT !.kind = kind, !.of = g,
            !.gig = [status |-> "DRAFT", week |-> t.week, start |-> t.start],
            !.at = CASE kind = "create" -> "roster" [] kind = "edit" -> "read" [] OTHER -> "lock"]]
  /\ UNCHANGED <<onDuty, slots, gigs, gigTask, slotRaces, schedulePlot>>

\* Mutation: the time of any booking may be edited.
MayRetimeAny(row) == TRUE

MayRetime(row) == row.status = "DRAFT"

\* update reads the booking outside its transaction; the new time is for a DRAFT.
ReadGig(o) ==
  /\ OpIs(o, "read")
  /\ IF MayRetime(gigs[gigOp[o].of])
       THEN gigOp' = [gigOp EXCEPT ![o].at = "roster", ![o].behind = FALSE]
       ELSE OpEnds(o)
  /\ UNCHANGED <<onDuty, slots, gigs, gigTask, slotRaces, schedulePlot>>

\* confirmBooking and rescheduleBooking read it for update.
LockGig(o) ==
  LET op == gigOp[o]  row == gigs[op.of]
      legal == row.status = (IF op.kind = "confirm" THEN "DRAFT" ELSE "CONFIRMED") IN
  /\ OpIs(o, "lock")
  /\ RowFree(op.of)
  /\ IF legal
       THEN gigOp' = [gigOp EXCEPT ![o].at = "roster", ![o].gig = IF op.kind = "confirm" THEN row ELSE @]
       ELSE OpEnds(o)
  /\ UNCHANGED <<onDuty, slots, gigs, gigTask, slotRaces, schedulePlot>>

\* checkPackageStaffAvailability, first the eligible users and their slots ...
LookAtRoster(o) ==
  LET able == ScheduledUsers(gigOp[o].gig) IN
  /\ OpIs(o, "roster")
  /\ gigOp' = [gigOp EXCEPT ![o].at = IF Cardinality(able) < schedulePlot.required THEN "refused" ELSE "busy",
                            ![o].free = able, ![o].stale = FALSE]
  /\ UNCHANGED <<onDuty, slots, gigs, gigTask, slotRaces, schedulePlot>>

\* ... then who of them is busy.  Only a move leaves its own booking out.
LookAtBusy(o) ==
  LET op == gigOp[o]
      free == op.free \ BusyUsers(op.free, op.gig, IF op.kind = "move" THEN op.of ELSE NoEmployee) IN
  /\ OpIs(o, "busy")
  /\ gigOp' = [gigOp EXCEPT ![o].at = IF Cardinality(free) < schedulePlot.required THEN "refused" ELSE "granted",
                            ![o].free = free]
  /\ UNCHANGED <<onDuty, slots, gigs, gigTask, slotRaces, schedulePlot>>

RefuseGig(o) ==
  /\ OpIs(o, "refused")
  /\ OpEnds(o)
  /\ UNCHANGED <<onDuty, slots, gigs, gigTask, slotRaces, schedulePlot>>

Movable(task) == ~task.started

\* A move goes on to the booking's tasks: none may have been started.
ReadTasks(o) ==
  LET task == gigTask[gigOp[o].of] IN
  /\ OpIs(o, "granted")
  /\ gigOp[o].kind = "move"
  /\ IF Movable(task)
       THEN gigOp' = [gigOp EXCEPT ![o].at = "save", ![o].task = task, ![o].behind = FALSE]
       ELSE OpEnds(o)
  /\ UNCHANGED <<onDuty, slots, gigs, gigTask, slotRaces, schedulePlot>>

(* What the save makes of the row: an edit writes the time, whatever the   *)
(* status has become.                                                      *)
SavedGig(row, op) ==
  [op.gig EXCEPT !.status = CASE op.kind = "confirm" -> "CONFIRMED" [] op.kind = "create" -> "DRAFT"
                              [] OTHER -> row.status]

\* A move saves the tasks as it read them; the assignees are rows of their own.
SavedTask(task, op) == IF op.kind = "move" THEN [task EXCEPT !.started = FALSE, !.lead = op.task.lead] ELSE task

SaveGig(o) ==
  LET op == gigOp[o]  g == op.of IN
  /\ OpIs(o, IF op.kind = "move" THEN "save" ELSE "granted")
  /\ op.kind \in {"create", "edit", "confirm", "move"}
  /\ op.kind \in {"create", "edit"} => RowFree(g)
  /\ gigs' = [gigs EXCEPT ![g] = SavedGig(@, op)]
  /\ gigTask' = [gigTask EXCEPT ![g] = SavedTask(@, op)]
  /\ gigOp' = [Stirred EXCEPT ![o] = Over]
  /\ UNCHANGED <<onDuty, slots, slotRaces, schedulePlot>>
----------------------------------------------------------------------------
(* What others do meanwhile: each is one of the plot's changes.             *)
Changes(kind) ==
  /\ kind \in schedulePlot.others
  /\ schedulePlot.changes > 0
  /\ schedulePlot' = [schedulePlot EXCEPT !.changes = @ - 1]
  /\ gigOp' = Stirred

\* assignTask; it looks neither at the booking's time nor at the user's.
AssignTo(g, u) ==
  /\ gigs[g].status = "CONFIRMED"
  /\ gigTask[g].lead # u
  /\ Changes("assign")
  /\ gigTask' = [gigTask EXCEPT ![g].lead = u]
  /\ UNCHANGED <<onDuty, slots, gigs, slotRaces>>

\* addTaskAssignee: the lead of the task follows its LEAD assignee.
AddToTeam(g, u, isChief) ==
  LET chief == IF isChief THEN u ELSE gigTask[g].chief IN
  /\ gigs[g].status = "CONFIRMED"
  /\ u \notin gigTask[g].team
  /\ Changes("team")
  /\ gigTask' = [gigTask EXCEPT ![g].team = @ \cup {u}, ![g].chief = chief, ![g].lead = chief]
  /\ UNCHANGED <<onDuty, slots, gigs, slotRaces>>

LeaveTeam(g, u) ==
  LET chief == IF gigTask[g].chief = u THEN NoEmployee ELSE gigTask[g].chief IN
  /\ u \in gigTask[g].team
  /\ Changes("team")
  /\ gigTask' = [gigTask EXCEPT ![g].team = @ \ {u}, ![g].chief = chief, ![g].lead = chief]
  /\ UNCHANGED <<onDuty, slots, gigs, slotRaces>>

StartWork(g) ==
  /\ gigs[g].status = "CONFIRMED"
  /\ ~gigTask[g].started
  /\ gigTask[g].lead # NoEmployee
  /\ Changes("start")
  /\ gigTask' = [gigTask EXCEPT ![g].started = TRUE]
  /\ UNCHANGED <<onDuty, slots, gigs, slotRaces>>

\* Cancelled or completed: either way out of the way.
CloseGig(g) ==
  /\ gigs[g].status = "CONFIRMED"
  /\ RowFree(g)
  /\ Changes("close")
  /\ gigs' = [gigs EXCEPT ![g].status = "CLOSED"]
  /\ UNCHANGED <<onDuty, slots, gigTask, slotRaces>>

\* A user is deactivated, loses the eligibility, or gets either back.
ChangeDuty(u) ==
  /\ Changes("duty")
  /\ onDuty' = IF u \in onDuty THEN onDuty \ {u} ELSE onDuty \cup {u}
  /\ UNCHANGED <<slots, gigs, gigTask, slotRaces>>
----------------------------------------------------------------------------
(* The slots: create, update, remove.                                       *)
NewSlot(o, u, shape) == [id |-> o, user |-> u, from |-> shape.from, till |-> shape.till,
                         first |-> shape.first, last |-> shape.last, by |-> o]

BeginSlot(o) ==
  /\ OpIs(o, "idle")
  /\ o <= schedulePlot.requests
  /\ \A p \in GigRequests : p < o => ~OpIs(p, "idle")
  /\ \E shape \in schedulePlot.shapes :
       /\ shape.from < shape.till /\ shape.first <= shape.last
       /\ \/ /\ "createSlot" \in schedulePlot.kinds
             /\ \E u \in Staff :
                  gigOp' = [gigOp EXCEPT ![o] = [NoOp EXCEPT !.kind = "slot", !.at = "compare",
                                                             !.slot = NewSlot(o, u, shape)]]
          \/ /\ "updateSlot" \in schedulePlot.kinds
             /\ \E s \in slots :
                  gigOp' = [gigOp EXCEPT ![o] = [NoOp EXCEPT !.kind = "slot", !.at = "compare",
                                                             !.slot = [NewSlot(o, s.user, shape) EXCEPT !.id = s.id]]]
  /\ slotRaces' = slotRaces \cup {{o, p} : p \in {x \in GigRequests : Underway(x)}}
  /\ UNCHANGED <<onDuty, slots, gigs, gigTask, schedulePlot>>

\* Mutation: only slots that begin inside the new one are seen.
SlotsMeetInside(a, b) == a.from <= b.from /\ b.from < a.till /\ a.first <= b.last /\ b.first <= a.last

SlotsMeet(a, b) == Overlap(a.from, a.till, b.from, b.till) /\ a.first <= b.last /\ b.first <= a.last

\* assertNoOverlap; an update does not compare a slot with itself.
CompareSlots(o) ==
  LET mine == gigOp[o].slot
      clash == \E s \in slots : s.id # mine.id /\ s.user = mine.user /\ SlotsMeet(mine, s) IN
  /\ OpIs(o, "compare")
  /\ IF clash THEN OpEnds(o) ELSE gigOp' = [gigOp EXCEPT ![o].at = "write"]
  /\ UNCHANGED <<onDuty, slots, gigs, gigTask, slotRaces, schedulePlot>>

\* The save of a slot that was removed meanwhile inserts it again.
WriteSlot(o) ==
  LET mine == gigOp[o].slot IN
  /\ OpIs(o, "write")
  /\ slots' = {s \in slots : s.id # mine.id} \cup {mine}
  /\ gigOp' = [Stirred EXCEPT ![o] = Over]
  /\ UNCHANGED <<onDuty, gigs, gigTask, slotRaces, schedulePlot>>

RemoveSlot(s) ==
  /\ Changes("slots")
  /\ slots' = slots \ {s}
  /\ UNCHANGED <<onDuty, gigs, gigTask, slotRaces>>

ScheduleNext ==
  \/ \E o \in GigRequests : \/ \E g \in Gigs : BeginGig(o, g)
                            \/ ReadGig(o) \/ LockGig(o) \/ LookAtRoster(o) \/ LookAtBusy(o)
                            \/ RefuseGig(o) \/ ReadTasks(o) \/ SaveGig(o)
                            \/ BeginSlot(o) \/ CompareSlots(o) \/ WriteSlot(o)
  \/ \E g \in Gigs, u \in Staff : AssignTo(g, u) \/ AddToTeam(g, u, TRUE) \/ AddToTeam(g, u, FALSE) \/ LeaveTeam(g, u)
  \/ \E g \in Gigs : StartWork(g) \/ CloseGig(g)
  \/ \E u \in Staff : ChangeDuty(u)
  \/ \E s \in slots : RemoveSlot(s)

ScheduleSpec == ScheduleInit /\ [][ScheduleNext]_scheduleVars
----------------------------------------------------------------------------
ScheduleTypeOK ==
  /\ onDuty \subseteq Staff
  /\ \A s \in slots : s.user \in Staff /\ s.from < s.till /\ s.first <= s.last
  /\ \A g \in Gigs : gigs[g].status \in {"NONE", "DRAFT", "CONFIRMED", "CLOSED"}
  /\ \A g \in Gigs : gigTask[g].team \subseteq Staff /\ {gigTask[g].lead, gigTask[g].chief} \subseteq Staff \cup {NoEmployee}
  /\ \A o \in GigRequests : gigOp[o].free \subseteq Staff

\* The same question hour by hour: nobody may be needed at two places in one hour.
HoursOf(g) == {<<g.week, h>> : h \in g.start..(Till(g) - 1)}
FreeAllHours(u, g, but) ==
  /\ u \in onDuty
  /\ LET today == {s \in slots : s.user = u /\ g.week \in s.first..s.last} IN
     today = {} \/ \E s \in today : HoursOf(g) \subseteq {<<g.week, h>> : h \in s.from..(s.till - 1)}
  /\ \A other \in Gigs \ {but} :
       gigs[other].status = "CONFIRMED" /\ u \in gigTask[other].team \cup {gigTask[other].lead}
         => HoursOf(g) \cap HoursOf(gigs[other]) = {}

(* While nothing it read has changed, a request is granted exactly when    *)
(* enough users of the staff are free in every hour of the booking,        *)
(* whatever the requests, slots and assignments before it - a move does    *)
(* not fail because of the assignments of the very booking it moves.       *)
VerdictsAreRight ==
  \A o \in GigRequests :
    LET op == gigOp[o]
        but == IF op.kind = "move" THEN op.of ELSE NoEmployee
        free == {u \in Staff : FreeAllHours(u, op.gig, but)} IN
    ~op.stale =>
      /\ OpIs(o, "granted") => Cardinality(free) >= schedulePlot.required
      /\ OpIs(o, "refused") => Cardinality(free) < schedulePlot.required

(* The time of a confirmed booking, and a task that was started, stand: a  *)
(* move is the only request that touches the former, none the latter - but *)
(* for a request that read the booking or the tasks before they came to be *)
(* confirmed or started: an edit that read a DRAFT moves the confirmed     *)
(* booking, a move that overlaps the start takes the start back.           *)
Keeps(g, kinds) ==
  \E o \in GigRequests : gigOp[o].of = g /\ gigOp[o].at # gigOp'[o].at
                          /\ (gigOp[o].kind \in kinds \/ gigOp[o].behind)
CommitmentsStand ==
  [][\A g \in Gigs :
       /\ (gigs[g].status = "CONFIRMED" /\ <<gigs[g].week, gigs[g].start>> # <<gigs'[g].week, gigs'[g].start>>)
            => Keeps(g, {"move"})
       /\ (gigTask[g].started /\ ~gigTask'[g].started) => Keeps(g, {})]_scheduleVars

SlotHours(s) == (s.first..s.last) \X (s.from..(s.till - 1))

(* Two slots of a user never share an hour, unless the requests that wrote *)
(* them overlapped: nothing is held between the comparison and the save.   *)
SlotsDisjoint ==
  \A s, t \in slots :
    s.id # t.id /\ s.user = t.user /\ {s.by, t.by} \notin slotRaces => SlotHours(s) \cap SlotHours(t) = {}
==============================================================================
