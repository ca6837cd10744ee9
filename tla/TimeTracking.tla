----------------------------- MODULE TimeTracking -----------------------------
(***************************************************************************)
(* The timers of one member of staff: starting one looks for a running     *)
(* timer in the transaction that inserts it; stopping and editing load an  *)
(* entry and save it, which writes every column in which the loaded copy   *)
(* differs from the row by then and inserts a row that is gone.            *)
(***************************************************************************)
EXTENDS Integers, FiniteSets, Sequences

CONSTANTS TimeRequests, \* requests about timers
          Instants,     \* the times they name, and the clock
          TimersMax,    \* bound: entries ever made
          TimePlots     \* request -> kind: start, stop, edit, delete

NoTime == -1
ASSUME InstantsAssumption == Instants \subseteq Nat

VARIABLES timers,    \* the entries: [status, from, to, minutes]; status GONE when deleted
          timeOp,    \* request -> [at: new, looked, ended; entry; copy]
          timePlot,
          crossed,   \* history: a timer was started beside another start
          outOfDate  \* history: entries saved from a copy that was not the row any more

timeVars == <<timers, timeOp, timePlot, crossed, outOfDate>>

NoTimer == [status |-> "GONE", from |-> NoTime, to |-> NoTime, minutes |-> 0]
IdleOp == [at |-> "new", entry |-> 0, copy |-> NoTimer]
TimeInit ==
  /\ timePlot \in TimePlots
  /\ timers = <<>>
  /\ timeOp = [r \in TimeRequests |-> IdleOp]
  /\ crossed = FALSE
  /\ outOfDate = {}

Is(r, kind, at) == timePlot[r] = kind /\ timeOp[r].at = at
RunningTimers == {e \in DOMAIN timers : timers[e].status = "RUNNING"}
TimeOpGoes(r, at, e, copy) == timeOp' = [timeOp EXCEPT ![r] = [at |-> at, entry |-> e, copy |-> copy]]
----------------------------------------------------------------------------

\* The lock is on the rows found: where there are none, nothing is locked.
NoneRunning == RunningTimers = {}

StartLooks(r) ==
  /\ Is(r, "start", "new")
  /\ TimeOpGoes(r, IF NoneRunning THEN "looked" ELSE "ended", Len(timers), NoTimer)
  /\ UNCHANGED <<timers, timePlot, crossed, outOfDate>>

StartSaves(r) ==
  /\ Is(r, "start", "looked")
  /\ Len(timers) < TimersMax
  /\ \E now \in Instants :
       timers' = Append(timers, [status |-> "RUNNING", from |-> now, to |-> NoTime, minutes |-> 0])
  /\ crossed' = (crossed \/ Len(timers) # timeOp[r].entry)
  /\ TimeOpGoes(r, "ended", 0, NoTimer)
  /\ UNCHANGED <<timePlot, outOfDate>>

LoadTimer(r, e) ==
  /\ \/ Is(r, "stop", "new") /\ timers[e].status = "RUNNING"
     \/ Is(r, "edit", "new") /\ timers[e].status # "GONE"
  /\ TimeOpGoes(r, "looked", e, timers[e])
  /\ UNCHANGED <<timers, timePlot, crossed, outOfDate>>

SaveTimer(r, timer) ==
  /\ timers' = [timers EXCEPT ![timeOp[r].entry] = timer]
  /\ outOfDate' = IF timers[timeOp[r].entry] # timeOp[r].copy THEN outOfDate \cup {timeOp[r].entry} ELSE outOfDate
  /\ TimeOpGoes(r, "ended", 0, NoTimer)
  /\ UNCHANGED <<timePlot, crossed>>

Stopped(timer, end) == [status |-> "STOPPED", from |-> timer.from, to |-> end, minutes |-> end - timer.from]

StopSaves(r) ==
  /\ Is(r, "stop", "looked")
  /\ \E end \in Instants : SaveTimer(r, Stopped(timeOp[r].copy, end))

Reckoned(timer, from, to) == timer.status = "STOPPED" /\ (from # NoTime \/ to # NoTime)

\* from and to are what the request names, NoTime for what it leaves out.
Edited(timer, from, to) ==
  LET start == IF from = NoTime THEN timer.from ELSE from
      end == IF to = NoTime THEN timer.to ELSE to
  IN [status |-> timer.status, from |-> start, to |-> end,
      minutes |-> IF Reckoned(timer, from, to) THEN end - start ELSE timer.minutes]

EditSaves(r) ==
  /\ Is(r, "edit", "looked")
  /\ \E from, to \in Instants \cup {NoTime} : SaveTimer(r, Edited(timeOp[r].copy, from, to))

DeleteTimer(r, e) ==
  /\ Is(r, "delete", "new")
  /\ timers[e].status # "GONE"
  /\ timers' = [timers EXCEPT ![e] = NoTimer]
  /\ TimeOpGoes(r, "ended", 0, NoTimer)
  /\ UNCHANGED <<timePlot, crossed, outOfDate>>

TimeNext ==
  \E r \in TimeRequests : \/ StartLooks(r) \/ StartSaves(r) \/ StopSaves(r) \/ EditSaves(r)
                          \/ \E e \in DOMAIN timers : LoadTimer(r, e) \/ DeleteTimer(r, e)

TimeSpec == TimeInit /\ [][TimeNext]_timeVars
----------------------------------------------------------------------------
TimeTypeOK ==
  /\ \A e \in DOMAIN timers : /\ timers[e].status \in {"RUNNING", "STOPPED", "GONE"}
                              /\ timers[e].from \in Instants \cup {NoTime} /\ timers[e].to \in Instants \cup {NoTime}
                              /\ timers[e].minutes \in Int
  /\ \A r \in TimeRequests : timeOp[r].at \in {"new", "looked", "ended"} /\ timeOp[r].entry \in 0..Len(timers)
  /\ crossed \in BOOLEAN /\ outOfDate \subseteq DOMAIN timers

(* Unless two starts crossed or an entry was saved from an old copy, one   *)
(* timer runs at a time; and a stopped entry's minutes are the time from   *)
(* its start to its end, even when it was saved from an old copy.          *)
TimesAddUp ==
  /\ ~crossed /\ outOfDate = {} => Cardinality(RunningTimers) <= 1
  /\ \A e \in DOMAIN timers : timers[e].status = "STOPPED" => timers[e].minutes = timers[e].to - timers[e].from
==============================================================================
