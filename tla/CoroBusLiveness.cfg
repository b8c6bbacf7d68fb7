\* Three coroutines on one descriptor: temporal properties, so no symmetry.
CHECK_DEADLOCK FALSE
SPECIFICATION FairSpec
CONSTANTS
    Coros = {c1, c2, c3}
    Funcs = {f1}
    Sched = Sched
    NULL = NULL
    Chans = {o1, o2}
    Data = {m1}
    Limits = {1}
    MaxChannels = 1
    Observed = {c1}
    ObservedChans = {o1}
PROPERTIES
    CloseCompletes
    WaiterServed
    NobodyStarves
