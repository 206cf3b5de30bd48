SPECIFICATION Spec
CONSTANTS
    Courses <- MCCourses
    BatchSize = 2
    RollLines = 2
    Attempts = 3
INVARIANTS DecisionsKept ReadOnceInOrder ExitIsComplete
PROPERTY TailCatchesUp
\* The agent may be stopped or killed.
CHECK_DEADLOCK FALSE
