SPECIFICATION PlotSpec
CONSTANTS
    t0 = t0
    t1 = t1
    t2 = t2
    b0 = b0
    b1 = b1
    Tasks = {t0, t1, t2}
    Users = {u1, u2}
    NoUser = nobody
    Bookings = {b0, b1}
    BookingOf <- ThreeTasks
    Commission <- PaidTasks
    Shares = {1}
    Sessions = {s1}
    NoSession = none
    MaxBalance = 2
    MaxCompletions = 2
INVARIANT TypeOK
INVARIANT OneLead
INVARIANT AccruedOnceUnlessUndone
INVARIANT WalletsMatchTasks
CHECK_DEADLOCK FALSE
SYMMETRY PlotSymmetry
