\* All short texts in every division into pieces, and scripts with every
\* interleaving of the shell and its children.  The shell ends.
CHECK_DEADLOCK FALSE
SPECIFICATION FairSpec
CONSTANTS
    Inputs <- AllInputs
    PieceSizes = {1, 2, 3, 5, 8}
    Pids = {1, 2, 3, 4, 5, 6, 7}
    CallsMayFail = TRUE
    Fifos <- TheFifos
    NULL = NULL
INVARIANTS
    LinesSound
    PipesSound
    StatusOfLast
PROPERTIES
    ShellEnds
