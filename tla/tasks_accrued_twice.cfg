SPECIFICATION Spec
CONSTANTS
    t1 = t1
    t2 = t2
    b1 = b1
    Tasks = {t1}
    Users = {u1, u2}
    NoUser = nobody
    Bookings = {b1}
    BookingOf <- OneTask
    Commission <- PaidTasks
    Shares = {1}
    Sessions = {s1}
    NoSession = none
    MaxBalance = 2
    MaxCompletions = 2
INVARIANT AccruedOnce
CHECK_DEADLOCK FALSE
SYMMETRY Symmetry
