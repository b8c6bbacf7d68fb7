\* Scripts with && and ||.
CHECK_DEADLOCK FALSE
SPECIFICATION Spec
CONSTANTS
    Inputs <- Scripts
    PieceSizes = {1, 2, 3, 5, 8}
    Pids = {1, 2, 3, 4, 5}
    CallsMayFail = FALSE
    Fifos <- TheFifos
    NULL = NULL
INVARIANTS
    ChainRespected
