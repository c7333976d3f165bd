SPECIFICATION FairSpec
CONSTANTS
    Frames = 3
    Header = 2
    Start <- MCStart
    MaxSize = 1
    Connections = {1, 3}
    FirstConnections = 3
    MaxSenders = 3
    MaxCommands = 2
    MaxReloads = 1
INVARIANTS Consistent CommandsOnce
PROPERTIES FramesInOrder CommandIsAnswered LostMasterEndsProcess
\* The process may end, and commands are bounded.
CHECK_DEADLOCK FALSE
