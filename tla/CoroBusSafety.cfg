CHECK_DEADLOCK FALSE
SPECIFICATION Spec
CONSTANTS
    Coros = {c1, c2, c3, c4}
    Funcs = {f1}
    Sched = Sched
    NULL = NULL
    Chans = {o1, o2}
    Data = {m1}
    Limits = {1, 2}
    MaxChannels = 1
    Observed = {c1}
    ObservedChans = {o1}
SYMMETRY BusSymmetry
INVARIANTS
    MemorySafe
    WaitersLeaveFirst
    NoLostWakeup
    QuietMeansBlocked
    EngineTypeOK
    OneHome
    SchedulerLast
    NoLostJoin
    FuncOrResult
    DestroyFreesAll
