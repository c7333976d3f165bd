SPECIFICATION FairSpec
CONSTANTS
    m1 = m1
    m2 = m2
    r1 = r1
    Messages = {m1, m2}
    Receiver <- MCReceiver
    Margin = 2
    Timely = TRUE
    MaxTime = 4
INVARIANTS Consistent AcceptedIsKept
PROPERTIES ReceivedIsAnswered
\* In the end all messages are over.
CHECK_DEADLOCK FALSE
