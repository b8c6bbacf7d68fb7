\* Three threads, three addresses, batches of two records.  The process ends.
CHECK_DEADLOCK FALSE
SPECIFICATION Spec
CONSTANTS
    Threads = {t1, t2, t3}
    Addrs = {a1, a2, a3}
    BatchSize = 2
    ReportLimit = 2
    MaxNews = 5
    NULL = NULL
SYMMETRY HeapSymmetry
INVARIANTS
    TrackingSound
    TraceIntoOwnRecord
    ReportsTrue
