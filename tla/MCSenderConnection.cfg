SPECIFICATION FairSpec
CONSTANTS
    h1 = h1
    h2 = h2
    Deliveries = {1, 2}
    Key <- MCKey
    Conns = {1, 2}
    Hosts <- MCHosts
    MaxReuse = 2
INVARIANTS Consistent OneHolder TlsIsKept ReachedIsNotCached
PROPERTIES ConnectEnds
\* The deliveries come to an end.
CHECK_DEADLOCK FALSE
