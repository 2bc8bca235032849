SPECIFICATION FairSpec
CONSTANT Threads = 2
INVARIANT TypeOK
INVARIANT ProcessesAlone
INVARIANT StopsAll
PROPERTY ShutdownEnds
CHECK_DEADLOCK FALSE
