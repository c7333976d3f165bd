---------------------------- MODULE QueueLocker ----------------------------
(***************************************************************************)
(* lib/queue-locker.js: the in-memory delivery locks of the master         *)
(* process.  Besides the table of locks the class keeps three indexes that *)
(* every operation has to update together (the locks of an owner, the      *)
(* locks of a domain, the domains to skip), a cached copy of the skip      *)
(* list, and one timer for all the expirations.                            *)
(*                                                                         *)
(* A JavaScript Map or Set entry that exists only while it is not empty is *)
(* modelled by a total function whose value is {} where the entry is       *)
(* missing.  Operations run to completion (one event loop), so each is one *)
(* action.                                                                 *)
(***************************************************************************)
EXTENDS Integers, FiniteSets

CONSTANTS
    Keys,            \* lock keys
    Zones, Domains,  \* Sending Zones and recipient domains
    NoDomain,        \* the domain of a lock that is taken to delete an entry
    Owners,          \* lock owners
    Ttls,            \* lengths of locks
    MaxConnections,  \* limit of locks per zone and domain, 0 when unlimited
    MaxTime          \* bound of the clock

ASSUME LockerAssumption ==
    /\ IsFiniteSet(Keys)
    /\ NoDomain \notin Domains
    /\ Ttls \subseteq Nat \ {0}
    /\ MaxConnections \in [Zones -> [Domains -> Nat]]
    /\ MaxTime \in Nat

VARIABLES
    now,
    locks,           \* this.locks, a function on the keys that are locked
    lockOwners,      \* this.lockOwners: the keys locked by each owner
    domains,         \* zones[z].domains[d]: the keys locked for a domain
    skip,            \* zones[z].skip: domains that take no more deliveries
    skipCache,       \* zones[z].skipCache: {list}, or NoCache when it is false
    nextExpireCheck,
    lockCheckTimer   \* the time at which the timer fires, or Never

lockerVars == <<locks, lockOwners, domains, skip, skipCache,
                nextExpireCheck, lockCheckTimer>>
vars == <<now, lockerVars>>

NoCache == {}
Never == -1          \* no deadline: Infinity in nextExpireCheck, no timer

LockRecord == [zone : Zones, domain : Domains \cup {NoDomain},
               lockOwner : Owners, expires : Nat]

(***************************************************************************)
(* Type invariant.                                                         *)
(***************************************************************************)
Deadlines == Nat \cup {Never}

\* Every field of the locker keeps its shape; the locked keys are keys.
TypeOK ==
    /\ now \in Nat
    /\ DOMAIN locks \subseteq Keys
    /\ locks \in [DOMAIN locks -> LockRecord]
    /\ lockOwners \in [Owners -> SUBSET Keys]
    /\ domains \in [Zones -> [Domains -> SUBSET Keys]]
    /\ skip \in [Zones -> SUBSET Domains]
    /\ skipCache \in [Zones -> SUBSET SUBSET Domains]
    /\ nextExpireCheck \in Deadlines
    /\ lockCheckTimer \in Deadlines

Init ==
    /\ now = 0
    /\ locks = [k \in {} |-> {}]
    /\ lockOwners = [o \in Owners |-> {}]
    /\ domains = [z \in Zones |-> [d \in Domains |-> {}]]
    /\ skip = [z \in Zones |-> {}]
    /\ skipCache = [z \in Zones |-> NoCache]
    /\ nextExpireCheck = Never
    /\ lockCheckTimer = Never

(***************************************************************************)
(* lock                                                                    *)
(***************************************************************************)
Locked == DOMAIN locks

\* Is e before the deadline t?
Before(e, t) == t = Never \/ e < t

\* A bug to be found: the timer is set once and never moved forward.
ArmTimerOnce(expires) ==
    IF nextExpireCheck = Never
    THEN /\ nextExpireCheck' = expires
         /\ lockCheckTimer' = expires + 1
    ELSE UNCHANGED <<nextExpireCheck, lockCheckTimer>>

\* The timer is moved when the new lock is the first to expire.
ArmTimer(expires) ==
    IF Before(expires, nextExpireCheck)
    THEN /\ nextExpireCheck' = expires
         /\ lockCheckTimer' = expires + 1
    ELSE UNCHANGED <<nextExpireCheck, lockCheckTimer>>

\* Has domain d as many locks as it may, once n are taken?
AtLimit(z, d, n) == MaxConnections[z][d] # 0 /\ n >= MaxConnections[z][d]

\* A bug to be found: the zone is put on the list of domains.
SkipAfterLockWrongItem(z, d) ==
    IF AtLimit(z, d, Cardinality(domains[z][d]) + 1) /\ d \notin skip[z]
    THEN skip[z] \cup {z}
    ELSE skip[z] \ {d}

\* A domain that reaches its limit is skipped; a domain that is skipped
\* already when one more lock is taken is not skipped any longer.
SkipAfterLock(z, d) ==
    IF AtLimit(z, d, Cardinality(domains[z][d]) + 1) /\ d \notin skip[z]
    THEN skip[z] \cup {d}
    ELSE skip[z] \ {d}

\* A bug to be found: the cached skip list is kept when the list changes.
IndexDomainKeepCache(z, d, k) ==
    IF d = NoDomain
    THEN UNCHANGED <<domains, skip, skipCache>>
    ELSE /\ domains' = [domains EXCEPT ![z][d] = @ \cup {k}]
         /\ skip' = [skip EXCEPT ![z] = SkipAfterLock(z, d)]
         /\ UNCHANGED skipCache

\* Adds key k of domain d to the index of the domain's locks.
IndexDomain(z, d, k) ==
    IF d = NoDomain
    THEN UNCHANGED <<domains, skip, skipCache>>
    ELSE /\ domains' = [domains EXCEPT ![z][d] = @ \cup {k}]
         /\ skip' = [skip EXCEPT ![z] = SkipAfterLock(z, d)]
         /\ skipCache' = IF SkipAfterLock(z, d) # skip[z]
                         THEN [skipCache EXCEPT ![z] = NoCache]
                         ELSE skipCache

\* A lock that has been taken; lock() of a locked key returns false and
\* changes nothing.
Lock(k, z, d, o, ttl) ==
    /\ k \notin Locked
    /\ locks' = [x \in Locked \cup {k} |->
                    IF x = k THEN [zone |-> z, domain |-> d, lockOwner |-> o,
                                   expires |-> now + ttl]
                             ELSE locks[x]]
    /\ ArmTimer(now + ttl)
    /\ lockOwners' = [lockOwners EXCEPT ![o] = @ \cup {k}]
    /\ IndexDomain(z, d, k)
    /\ UNCHANGED now

(***************************************************************************)
(* release and the operations that release several locks in one go.  The   *)
(* limit is the same for all locks of a domain, so the order of the        *)
(* releases does not show.                                                 *)
(***************************************************************************)
\* The domain's locks that are left once the locks on S are released.
Left(z, d, S) ==
    domains[z][d] \ {k \in S : locks[k].zone = z /\ locks[k].domain = d}

\* A bug to be found: the list is not looked at when the domain is left idle.
UnskippedIfBusy(z, d, S) ==
    /\ Left(z, d, S) # domains[z][d]
    /\ Left(z, d, S) # {}
    /\ ~AtLimit(z, d, Cardinality(Left(z, d, S)))

\* Domain d is taken off the skip list when it falls below its limit.
Unskipped(z, d, S) ==
    Left(z, d, S) # domains[z][d] /\ ~AtLimit(z, d, Cardinality(Left(z, d, S)))

\* Zone z is dropped, with its skip list, when its last domain is.
ZoneDropped(z, S) ==
    /\ \E d \in Domains : Left(z, d, S) # domains[z][d]
    /\ \A d \in Domains : Left(z, d, S) = {}

\* A bug to be found: the locks stay listed under their owner.
OwnersAfterLeaky(S) == lockOwners

OwnersAfter(S) ==
    [o \in Owners |-> lockOwners[o] \ {k \in S : locks[k].lockOwner = o}]

ReleaseAll(S) ==
    /\ locks' = [k \in Locked \ S |-> locks[k]]
    /\ lockOwners' = OwnersAfter(S)
    /\ domains' = [z \in Zones |-> [d \in Domains |-> Left(z, d, S)]]
    /\ skip' = [z \in Zones |-> {d \in skip[z] : ~Unskipped(z, d, S)}]
    /\ skipCache' = [z \in Zones |->
                        IF \/ ZoneDropped(z, S)
                           \/ \E d \in skip[z] : Unskipped(z, d, S)
                        THEN NoCache ELSE skipCache[z]]

\* The timer is stopped with the last lock and otherwise left alone.
Release(k) ==
    /\ k \in Locked
    /\ ReleaseAll({k})
    /\ IF Locked = {k}
       THEN nextExpireCheck' = Never /\ lockCheckTimer' = Never
       ELSE UNCHANGED <<nextExpireCheck, lockCheckTimer>>
    /\ UNCHANGED now

\* All the locks of an owner, as its index lists them.
ReleaseLockOwner(o) ==
    LET mine == lockOwners[o] \cap Locked
    IN  /\ lockOwners[o] # {}
        /\ ReleaseAll(mine)
        /\ IF Locked = mine
           THEN nextExpireCheck' = Never /\ lockCheckTimer' = Never
           ELSE UNCHANGED <<nextExpireCheck, lockCheckTimer>>
        /\ UNCHANGED now

(***************************************************************************)
(* checkExpired, run by the timer: releases what has expired and sets the  *)
(* timer for the first of the rest.  A timer may fire late.                *)
(***************************************************************************)
\* A bug to be found: the last moment of a lock is still cut off, "<" for "<=".
ExpiredNextMoment == {k \in Locked : locks[k].expires <= now + 1}

Expired == {k \in Locked : locks[k].expires <= now}

\* The deadlines of the locks that stay.
Remaining == {locks[k].expires : k \in Locked \ Expired}

\* A bug to be found: the check does not set the timer again.
NextCheckForgotten == nextExpireCheck' = Never /\ lockCheckTimer' = Never

\* The next check is due when the first of the remaining locks expires.
NextCheck ==
    IF Locked = Expired
    THEN nextExpireCheck' = Never /\ lockCheckTimer' = Never
    ELSE /\ nextExpireCheck' \in Remaining
         /\ \A e \in Remaining : nextExpireCheck' <= e
         /\ lockCheckTimer' = nextExpireCheck' + 1

CheckExpired ==
    /\ lockCheckTimer # Never
    /\ lockCheckTimer <= now
    /\ ReleaseAll(Expired)
    /\ NextCheck
    /\ UNCHANGED now

(***************************************************************************)
(* listSkipDomains: reads the skip list through its cache.                 *)
(***************************************************************************)
SkipDomains(z) == IF skipCache[z] = NoCache THEN skip[z] ELSE UNION skipCache[z]

\* A zone that has no domains listed has an empty skip list, cached or not.
ListSkipDomains(z) ==
    /\ IF \E d \in Domains : domains[z][d] # {}
       THEN skipCache' = [skipCache EXCEPT ![z] = {SkipDomains(z)}]
       ELSE UNCHANGED skipCache
    /\ UNCHANGED <<now, locks, lockOwners, domains, skip,
                   nextExpireCheck, lockCheckTimer>>

Tick ==
    /\ now < MaxTime
    /\ now' = now + 1
    /\ UNCHANGED lockerVars

Next ==
    \/ \E k \in Keys, z \in Zones, d \in Domains \cup {NoDomain},
          o \in Owners, ttl \in Ttls : Lock(k, z, d, o, ttl)
    \/ \E k \in Keys : Release(k)
    \/ \E o \in Owners : ReleaseLockOwner(o)
    \/ CheckExpired
    \/ \E z \in Zones : ListSkipDomains(z)
    \/ Tick

Spec == Init /\ [][Next]_vars

\* The event loop runs a timer that is due, and the clock goes on.
FairSpec == Spec /\ WF_vars(CheckExpired) /\ WF_vars(Tick)

(***************************************************************************)
(* Properties.                                                             *)
(***************************************************************************)
\* Each lock is listed exactly once in each index, under its own owner and
\* domain, and the indexes list nothing else, whichever of release,
\* releaseLockOwner and checkExpired ended the other locks.
IndexConsistent ==
    /\ \A o \in Owners :
          lockOwners[o] = {k \in Locked : locks[k].lockOwner = o}
    /\ \A z \in Zones, d \in Domains :
          domains[z][d] = {k \in Locked : locks[k].zone = z /\ locks[k].domain = d}

\* While there are locks, the only timer is set, just after the next check,
\* and no lock expires before that: lockExists compares a field that does
\* not exist, so this timer is the only thing that ends an abandoned lock.
TimerCoversLocks ==
    /\ Locked = {} => nextExpireCheck = Never /\ lockCheckTimer = Never
    /\ Locked # {} => /\ nextExpireCheck # Never
                      /\ lockCheckTimer = nextExpireCheck + 1
                      /\ \A k \in Locked : nextExpireCheck <= locks[k].expires

\* Only a domain that has all the locks it may have is skipped: a domain
\* without locks is never kept on the list, where it would get no delivery
\* and so no release to take it off.
SkippedDomainIsFull ==
    \A z \in Zones : \A d \in skip[z] : AtLimit(z, d, Cardinality(domains[z][d]))

\* What listSkipDomains returns, from its cache or not, is the skip list.
SkipListIsCurrent == \A z \in Zones : SkipDomains(z) = skip[z]

\* The four structures and the cached list say the same of every lock, under
\* every order of the methods and of the timer that change them.
Consistent == TypeOK /\ IndexConsistent /\ SkipListIsCurrent

\* The locks as leases, without the indexes and the timer.
Leases == INSTANCE LeaseTable WITH
    held <- [k \in Locked |-> [owner |-> locks[k].lockOwner,
                               expires |-> locks[k].expires]]

\* The locker implements the table of leases: no lock passes from one owner
\* to another without being released, an owner that leaves gives up its own
\* locks and no others, and the timer ends the locks that are over only.
ImplementsLeases == Leases!Spec

\* A lock that is over is released, by the timer if by nobody else.
ExpiredIsReleased ==
    \A k \in Keys : \A e \in 0..MaxTime :
        (k \in Locked /\ locks[k].expires = e /\ e < now)
            ~> ~(k \in Locked /\ locks[k].expires = e)
=============================================================================
