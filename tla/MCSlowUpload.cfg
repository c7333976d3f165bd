SPECIFICATION Spec
CONSTANTS
    m1 = m1
    m2 = m2
    r1 = r1
    Messages = {m1, m2}
    Receiver <- MCReceiver
    Margin = 2
    Timely = FALSE
    MaxTime = 3
INVARIANT AcceptedIsKept
CHECK_DEADLOCK FALSE
