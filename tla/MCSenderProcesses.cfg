\* Two children per zone; three of them end or time out.
SPECIFICATION FairSpec
CONSTANTS
    NumZones = 2
    Processes = 2
    Children <- MCChildren
    MaxFailures = 3
INVARIANTS Staffed OneStartAtATime
PROPERTIES ZonesStart StaffedAgain
\* Closing ends everything.
CHECK_DEADLOCK FALSE
