\* Two attempts: the first may be left behind at any point while the second runs.
SPECIFICATION FairSpec
CONSTANT MaxAttempts = 2
INVARIANTS OneLoop OneOutcome
PROPERTIES FetchedIsReported KeepsSending
\* All attempts may be over.
CHECK_DEADLOCK FALSE
