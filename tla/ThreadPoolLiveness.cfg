\* Thread creation succeeds, every kind of join: temporal properties.
CHECK_DEADLOCK FALSE
SPECIFICATION FairSpec
CONSTANTS
    Pools = {p1}
    Tasks = {t1, t2}
    Workers = {w1, w2}
    Clients = {c1, c2}
    MaxThreads = 2
    MaxTasks = 2
    Timeouts = {"finite", "infinite"}
    CreateMayFail = FALSE
    NULL = NULL
PROPERTIES
    TasksProceed
    CallsReturn
