\* Entries of three lengths in the cache, so that they expire in another order
\* than they were set in.
SPECIFICATION FairSpec
CONSTANTS
    d1 = d1
    d2 = d2
    a1 = a1
    a2 = a2
    Domains = {d1, d2}
    Addresses = {a1, a2}
    Configured <- MCConfigured
    OtherKeys = {other}
    OtherTtls = {0, 1, 3}
    BlacklistTtl = 2
    MaxTime = 4
INVARIANTS Consistent BackOffMatchesCache
PROPERTIES BackOffIsOver
