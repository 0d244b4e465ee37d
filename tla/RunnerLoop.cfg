CONSTANT MaxStarts = 2
SPECIFICATION Spec
INVARIANTS
    TypeOK
    OneLoop
    StatusIsTheLoops
    NeverSleepsOnNews
PROPERTY StopEnds
CHECK_DEADLOCK FALSE
