----------------------------- MODULE LeaseTable -----------------------------
(***************************************************************************)
(* What the queue promises about its in-memory delivery locks, without the *)
(* indexes, counters and timer that lib/queue-locker.js keeps to deliver   *)
(* it: a table of leases, each with one owner and one expiry time.         *)
(* QueueLocker.tla is shown to implement it.                               *)
(***************************************************************************)
EXTENDS Integers

CONSTANTS
    Keys,     \* delivery locks, "lock <id> <seq>" in the code
    Owners,   \* queue clients and delete operations
    Ttls,     \* lease lengths the callers ask for
    MaxTime   \* bound of the clock

VARIABLES
    now,      \* the clock
    held      \* the leases: a function from the leased keys to [owner, expires]

vars == <<now, held>>

Init ==
    /\ now = 0
    /\ held = [k \in {} |-> {}]

\* The leases that remain once those on the keys of S are gone.
Without(S) == [k \in DOMAIN held \ S |-> held[k]]

\* A free key is leased to one owner, from now on and for ttl.
Grant(k, o, ttl) ==
    /\ k \notin DOMAIN held
    /\ held' = [x \in DOMAIN held \cup {k} |->
                    IF x = k THEN [owner |-> o, expires |-> now + ttl]
                             ELSE held[x]]
    /\ UNCHANGED now

\* A lease is given back.
Return(k) ==
    /\ k \in DOMAIN held
    /\ held' = Without({k})
    /\ UNCHANGED now

\* An owner is gone: all its leases end, and nobody else's.
OwnerGone(o) ==
    /\ held' = Without({k \in DOMAIN held : held[k].owner = o})
    /\ UNCHANGED now

\* Every lease that is over ends, and no other.
Expire ==
    /\ held' = Without({k \in DOMAIN held : held[k].expires <= now})
    /\ UNCHANGED now

Tick ==
    /\ now < MaxTime
    /\ now' = now + 1
    /\ UNCHANGED held

Next ==
    \/ \E k \in Keys, o \in Owners, ttl \in Ttls : Grant(k, o, ttl)
    \/ \E k \in Keys : Return(k)
    \/ \E o \in Owners : OwnerGone(o)
    \/ Expire
    \/ Tick

Spec == Init /\ [][Next]_vars
=============================================================================
