---------------------------- MODULE MCTaskPlots ----------------------------
(* One run over two instances, chosen at the start: two users share the one *)
(* task of booking b0 ("team"), or one user has both tasks of booking b1    *)
(* ("booking").                                                             *)
EXTENDS MCTaskCommission

CONSTANTS t0, b0
VARIABLE plot

ThreeTasks == t0 :> b0 @@ t1 :> b1 @@ t2 :> b1

PlotVars == <<task, assignee, wallet, cancelled, locked, pc, copy, diff, completions,
              slips, plot>>

StepOn(someTasks, someBookings) ==
    \/ \E t \in someTasks : Assignment(t) \/ Completion(t)
    \/ \E s \in Sessions :
          \/ \E t \in someTasks : StartTask(s, t) \/ EditTask(s, t)
          \/ SaveReload(s) \/ SaveWrite(s)
          \/ \E b \in someBookings : Cancellation(s, b)

Involved(u) == \/ wallet[u] # Balances(0, 0)
               \/ \E t \in Tasks : assignee[t][u] # NoMember \/ task[t].assigned = u

(* The two tasks of b1 are alike too. *)
PlotSymmetry == Symmetry \cup Permutations({t1, t2})

PlotInit == Init /\ plot \in {"team", "booking"}
PlotNext ==
    /\ plot' = plot
    /\ \/ plot = "team" /\ StepOn({t0}, {b0})
       \/ plot = "booking" /\ StepOn({t1, t2}, {b1}) /\ Cardinality({u \in Users : Involved(u)'}) <= 1
PlotSpec == PlotInit /\ [][PlotNext]_PlotVars
=============================================================================
