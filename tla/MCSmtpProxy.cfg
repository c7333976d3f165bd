SPECIFICATION FairSpec
CONSTANTS
    Processes = 3
    Children = {1, 2, 3, 4}
    Sockets = {1, 2}
    MaxExits = 2
INVARIANTS Consistent
PROPERTIES TurnsAreTaken HandedIsServed FilledAgain StopsInTheEnd
\* After the master the processes end.
CHECK_DEADLOCK FALSE
