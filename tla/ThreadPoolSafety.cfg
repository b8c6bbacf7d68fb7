\* Two pools, two tasks, two workers, three clients, every kind of join at any
\* time.  If pthread_create fails for the first thread, everybody may end up
\* waiting; a timed join of a joined task may end the process.
CHECK_DEADLOCK FALSE
SPECIFICATION Spec
CONSTANTS
    Pools = {p1, p2}
    Tasks = {t1, t2}
    Workers = {w1, w2}
    Clients = {c1, c2, c3}
    MaxThreads = 2
    MaxTasks = 2
    Timeouts = {"finite", "infinite"}
    CreateMayFail = TRUE
    NULL = NULL
SYMMETRY PoolSymmetry
INVARIANTS
    CountExact
    DeleteOnlyEmpty
    OneHolder
    NoUseAfterFree
    NoMissedSignal
