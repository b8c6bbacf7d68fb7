\* Two clients of two requests each.  The program ends; that it stops nowhere
\* else is what ProgramEnds says.
CHECK_DEADLOCK FALSE
SPECIFICATION FairSpec
CONSTANTS
    ClientCount = 2
    Requests = 2
    BatchSize = 2
    Cap = 1
INVARIANTS
    NoAssertFails
    TasksSound
    NothingMissed
PROPERTIES
    ProgramEnds
