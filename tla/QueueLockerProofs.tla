------------------------- MODULE QueueLockerProofs -------------------------
(***************************************************************************)
(* Proofs about QueueLocker for every set of keys, zones, domains, owners, *)
(* lock lengths and limits.                                                *)
(***************************************************************************)
EXTENDS QueueLocker, FiniteSetTheorems, TLAPS

USE DEF Never, NoCache

(***************************************************************************)
(* Type correctness.                                                       *)
(***************************************************************************)

\* The moment after a deadline is a moment.
LEMMA NextMoment == \A t \in Nat : t + 1 \in Nat
  OBVIOUS

\* Releasing any set of locked keys keeps the shape of what it changes.
LEMMA ReleaseAllType ==
    ASSUME TypeOK, NEW S \in SUBSET Locked, ReleaseAll(S)
    PROVE  /\ DOMAIN locks' \subseteq Keys
           /\ locks' \in [DOMAIN locks' -> LockRecord]
           /\ lockOwners' \in [Owners -> SUBSET Keys]
           /\ domains' \in [Zones -> [Domains -> SUBSET Keys]]
           /\ skip' \in [Zones -> SUBSET Domains]
           /\ skipCache' \in [Zones -> SUBSET SUBSET Domains]
  <1>1. DOMAIN locks' \subseteq Keys /\ locks' \in [DOMAIN locks' -> LockRecord]
    BY DEF ReleaseAll, TypeOK, Locked
  <1>2. lockOwners' \in [Owners -> SUBSET Keys]
    BY DEF ReleaseAll, TypeOK, OwnersAfter
  <1>3. domains' \in [Zones -> [Domains -> SUBSET Keys]]
    <2>1. ASSUME NEW z \in Zones, NEW d \in Domains
          PROVE  Left(z, d, S) \subseteq Keys
      BY <2>1 DEF Left, TypeOK
    <2> QED BY <2>1 DEF ReleaseAll
  <1>4. skip' \in [Zones -> SUBSET Domains]
    BY DEF ReleaseAll, TypeOK
  <1>5. skipCache' \in [Zones -> SUBSET SUBSET Domains]
    BY DEF ReleaseAll, TypeOK
  <1> QED BY <1>1, <1>2, <1>3, <1>4, <1>5

\* No method and no step of the clock disturbs the shape of the fields.
LEMMA TypeStep ==
    ASSUME TypeOK, [Next]_vars
    PROVE  TypeOK'
  <1>1. ASSUME NEW k \in Keys, NEW z \in Zones, NEW d \in Domains \cup {NoDomain},
               NEW o \in Owners, NEW ttl \in Ttls, Lock(k, z, d, o, ttl)
        PROVE  TypeOK'
    <2> USE <1>1
    <2>1. now + ttl \in Nat
      BY LockerAssumption DEF TypeOK
    <2>2. DOMAIN locks' \subseteq Keys /\ locks' \in [DOMAIN locks' -> LockRecord]
      <3>1. [zone |-> z, domain |-> d, lockOwner |-> o, expires |-> now + ttl]
              \in LockRecord
        BY <2>1 DEF LockRecord
      <3> QED BY <3>1 DEF Lock, Locked, TypeOK
    <2>3. nextExpireCheck' \in Deadlines /\ lockCheckTimer' \in Deadlines
      BY <2>1 DEF Lock, ArmTimer, TypeOK, Deadlines
    <2>4. lockOwners' \in [Owners -> SUBSET Keys]
      BY DEF Lock, TypeOK
    <2>5. /\ domains' \in [Zones -> [Domains -> SUBSET Keys]]
          /\ skip' \in [Zones -> SUBSET Domains]
          /\ skipCache' \in [Zones -> SUBSET SUBSET Domains]
      <3>1. CASE d = NoDomain
        BY <3>1 DEF Lock, IndexDomain, TypeOK
      <3>2. CASE d # NoDomain
        <4>1. d \in Domains
          BY <3>2
        <4>2. SkipAfterLock(z, d) \in SUBSET Domains
          BY <4>1 DEF SkipAfterLock, TypeOK
        <4>3. domains' \in [Zones -> [Domains -> SUBSET Keys]]
          <5>1. domains \in [Zones -> [Domains -> SUBSET Keys]]
            BY DEF TypeOK
          <5>2. domains' = [domains EXCEPT ![z][d] = @ \cup {k}]
            BY <3>2 DEF Lock, IndexDomain
          <5> QED BY <4>1, <5>1, <5>2
        <4>4. skip' \in [Zones -> SUBSET Domains]
          BY <3>2, <4>2 DEF Lock, IndexDomain, TypeOK
        <4>5. skipCache' \in [Zones -> SUBSET SUBSET Domains]
          BY <3>2 DEF Lock, IndexDomain, TypeOK
        <4> QED BY <4>3, <4>4, <4>5
      <3> QED BY <3>1, <3>2
    <2> QED BY <2>2, <2>3, <2>4, <2>5 DEF Lock, TypeOK
  <1>2. ASSUME NEW k \in Keys, Release(k) PROVE TypeOK'
    <2>1. {k} \in SUBSET Locked /\ ReleaseAll({k})
      BY <1>2 DEF Release
    <2> QED BY <1>2, <2>1, ReleaseAllType DEF Release, TypeOK, Deadlines
  <1>3. ASSUME NEW o \in Owners, ReleaseLockOwner(o) PROVE TypeOK'
    <2>1. ReleaseAll(lockOwners[o] \cap Locked)
      BY <1>3 DEF ReleaseLockOwner
    <2> QED BY <1>3, <2>1, ReleaseAllType DEF ReleaseLockOwner, TypeOK, Deadlines
  <1>4. ASSUME CheckExpired PROVE TypeOK'
    <2>1. Expired \in SUBSET Locked /\ ReleaseAll(Expired)
      BY <1>4 DEF CheckExpired, Expired
    <2>2. nextExpireCheck' \in Deadlines /\ lockCheckTimer' \in Deadlines
      <3>1. Remaining \subseteq Nat
        BY DEF Remaining, TypeOK, Locked, LockRecord
      <3>2. CASE Locked = Expired
        BY <1>4, <3>2 DEF CheckExpired, NextCheck, Deadlines
      <3>3. CASE Locked # Expired
        <4>1. nextExpireCheck' \in Nat
          BY <1>4, <3>1, <3>3 DEF CheckExpired, NextCheck
        <4>2. lockCheckTimer' = nextExpireCheck' + 1
          BY <1>4, <3>3 DEF CheckExpired, NextCheck
        <4> QED BY <4>1, <4>2, NextMoment DEF Deadlines
      <3> QED BY <3>2, <3>3
    <2> QED BY <1>4, <2>1, <2>2, ReleaseAllType DEF CheckExpired, TypeOK
  <1>5. ASSUME NEW z \in Zones, ListSkipDomains(z) PROVE TypeOK'
    <2>1. SkipDomains(z) \in SUBSET Domains
      BY DEF SkipDomains, TypeOK
    <2> QED BY <1>5, <2>1 DEF ListSkipDomains, TypeOK
  <1>6. CASE Tick
    BY <1>6 DEF Tick, lockerVars, TypeOK
  <1>7. CASE UNCHANGED vars
    BY <1>7 DEF vars, lockerVars, TypeOK
  <1> QED BY <1>1, <1>2, <1>3, <1>4, <1>5, <1>6, <1>7 DEF Next

\* TypeOK, the shape of the fields of lib/queue-locker.js, is inductive.
THEOREM TypeCorrect == Spec => []TypeOK
  <1>1. Init => TypeOK
    BY LockerAssumption DEF Init, TypeOK, Deadlines
  <1>2. TypeOK /\ [Next]_vars => TypeOK'
    BY TypeStep
  <1> QED BY <1>1, <1>2, PTL DEF Spec

(***************************************************************************)
(* The indexes.                                                            *)
(***************************************************************************)

\* Releasing any set of locked keys keeps the indexes consistent.
LEMMA ReleaseAllIndex ==
    ASSUME TypeOK, IndexConsistent, NEW S \in SUBSET Locked, ReleaseAll(S)
    PROVE  IndexConsistent'
  <1>1. Locked' = Locked \ S /\ \A k \in Locked' : locks'[k] = locks[k]
    BY DEF ReleaseAll, Locked
  <1>2. ASSUME NEW o \in Owners
        PROVE  lockOwners'[o] = {k \in Locked' : locks'[k].lockOwner = o}
    <2>1. lockOwners'[o] = lockOwners[o] \ {k \in S : locks[k].lockOwner = o}
      BY DEF ReleaseAll, OwnersAfter
    <2>2. lockOwners[o] = {k \in Locked : locks[k].lockOwner = o}
      BY DEF IndexConsistent
    <2> QED BY <1>1, <2>1, <2>2
  <1>3. ASSUME NEW z \in Zones, NEW d \in Domains
        PROVE  domains'[z][d] =
                 {k \in Locked' : locks'[k].zone = z /\ locks'[k].domain = d}
    <2>1. domains'[z][d] =
            domains[z][d] \ {k \in S : locks[k].zone = z /\ locks[k].domain = d}
      BY DEF ReleaseAll, Left
    <2>2. domains[z][d] = {k \in Locked : locks[k].zone = z /\ locks[k].domain = d}
      BY DEF IndexConsistent
    <2> QED BY <1>1, <2>1, <2>2
  <1> QED BY <1>2, <1>3 DEF IndexConsistent

\* A new lock is put in the indexes of its owner and its domain only.
LEMMA LockIndex ==
    ASSUME TypeOK, IndexConsistent,
           NEW k \in Keys, NEW z \in Zones, NEW d \in Domains \cup {NoDomain},
           NEW o \in Owners, NEW ttl \in Ttls, Lock(k, z, d, o, ttl)
    PROVE  IndexConsistent'
  <1>1. /\ k \notin Locked
        /\ Locked' = Locked \cup {k}
        /\ locks'[k] = [zone |-> z, domain |-> d, lockOwner |-> o,
                        expires |-> now + ttl]
        /\ \A x \in Locked : locks'[x] = locks[x]
    BY DEF Lock, Locked
  <1>2. ASSUME NEW p \in Owners
        PROVE  lockOwners'[p] = {x \in Locked' : locks'[x].lockOwner = p}
    <2>1. lockOwners'[p] = IF p = o THEN lockOwners[p] \cup {k} ELSE lockOwners[p]
      BY DEF Lock, TypeOK
    <2>2. lockOwners[p] = {x \in Locked : locks[x].lockOwner = p}
      BY DEF IndexConsistent
    <2>3. locks'[k].lockOwner = o
      BY <1>1
    <2> QED BY <1>1, <2>1, <2>2, <2>3
  <1>3. ASSUME NEW y \in Zones, NEW e \in Domains
        PROVE  domains'[y][e] =
                 {x \in Locked' : locks'[x].zone = y /\ locks'[x].domain = e}
    <2>1. domains[y][e] = {x \in Locked : locks[x].zone = y /\ locks[x].domain = e}
      BY DEF IndexConsistent
    <2>2. domains'[y][e] = IF y = z /\ e = d THEN domains[y][e] \cup {k}
                                              ELSE domains[y][e]
      <3>1. CASE d = NoDomain
        BY <3>1, LockerAssumption DEF Lock, IndexDomain
      <3>2. CASE d # NoDomain
        <4>1. d \in Domains /\ domains' = [domains EXCEPT ![z][d] = @ \cup {k}]
          BY <3>2 DEF Lock, IndexDomain
        <4>2. domains \in [Zones -> [Domains -> SUBSET Keys]]
          BY DEF TypeOK
        <4> QED BY <4>1, <4>2
      <3> QED BY <3>1, <3>2
    <2>3. locks'[k].zone = z /\ locks'[k].domain = d
      BY <1>1
    <2> QED BY <1>1, <2>1, <2>2, <2>3
  <1> QED BY <1>2, <1>3 DEF IndexConsistent

\* Every method keeps the indexes by owner and by domain.
LEMMA IndexStep ==
    ASSUME TypeOK, IndexConsistent, [Next]_vars
    PROVE  IndexConsistent'
  <1>1. ASSUME NEW k \in Keys, NEW z \in Zones, NEW d \in Domains \cup {NoDomain},
               NEW o \in Owners, NEW ttl \in Ttls, Lock(k, z, d, o, ttl)
        PROVE  IndexConsistent'
    BY <1>1, LockIndex
  <1>2. ASSUME NEW k \in Keys, Release(k) PROVE IndexConsistent'
    <2>1. {k} \in SUBSET Locked /\ ReleaseAll({k})
      BY <1>2 DEF Release
    <2> QED BY <2>1, ReleaseAllIndex
  <1>3. ASSUME NEW o \in Owners, ReleaseLockOwner(o) PROVE IndexConsistent'
    <2>1. ReleaseAll(lockOwners[o] \cap Locked)
      BY <1>3 DEF ReleaseLockOwner
    <2> QED BY <2>1, ReleaseAllIndex
  <1>4. ASSUME CheckExpired PROVE IndexConsistent'
    <2>1. Expired \in SUBSET Locked /\ ReleaseAll(Expired)
      BY <1>4 DEF CheckExpired, Expired
    <2> QED BY <2>1, ReleaseAllIndex
  <1>5. ASSUME NEW z \in Zones, ListSkipDomains(z) PROVE IndexConsistent'
    BY <1>5 DEF ListSkipDomains, IndexConsistent, Locked
  <1>6. CASE Tick
    BY <1>6 DEF Tick, lockerVars, IndexConsistent, Locked
  <1>7. CASE UNCHANGED vars
    BY <1>7 DEF vars, lockerVars, IndexConsistent, Locked
  <1> QED BY <1>1, <1>2, <1>3, <1>4, <1>5, <1>6, <1>7 DEF Next

\* The indexes of lib/queue-locker.js list each lock once and nothing else.
THEOREM IndexesCorrect == Spec => []IndexConsistent
  <1>1. Init => IndexConsistent
    BY DEF Init, IndexConsistent, Locked
  <1>2. TypeOK /\ IndexConsistent /\ [Next]_vars => IndexConsistent'
    BY IndexStep
  <1> QED BY <1>1, <1>2, TypeCorrect, PTL DEF Spec

(***************************************************************************)
(* The timer.                                                              *)
(***************************************************************************)

\* Releasing some locks and stopping the timer with the last one keeps the
\* timer ahead of the locks that stay.
LEMMA ReleaseAllTimer ==
    ASSUME TimerCoversLocks, NEW S \in SUBSET Locked, ReleaseAll(S),
           IF Locked = S
           THEN nextExpireCheck' = Never /\ lockCheckTimer' = Never
           ELSE UNCHANGED <<nextExpireCheck, lockCheckTimer>>
    PROVE  TimerCoversLocks'
  <1>1. Locked' = Locked \ S /\ \A k \in Locked' : locks'[k] = locks[k]
    BY DEF ReleaseAll, Locked
  <1>2. CASE Locked = S
    BY <1>1, <1>2 DEF TimerCoversLocks
  <1>3. CASE Locked # S
    BY <1>1, <1>3 DEF TimerCoversLocks
  <1> QED BY <1>2, <1>3

\* Every method leaves the timer ahead of the locks.
LEMMA TimerStep ==
    ASSUME TypeOK, TimerCoversLocks, [Next]_vars
    PROVE  TimerCoversLocks'
  <1>1. ASSUME NEW k \in Keys, NEW z \in Zones, NEW d \in Domains \cup {NoDomain},
               NEW o \in Owners, NEW ttl \in Ttls, Lock(k, z, d, o, ttl)
        PROVE  TimerCoversLocks'
    <2> DEFINE e == now + ttl
    <2>1. e \in Nat
      BY LockerAssumption DEF TypeOK
    <2>2. /\ Locked' = Locked \cup {k}
          /\ locks'[k].expires = e
          /\ \A x \in Locked : locks'[x] = locks[x]
      BY <1>1 DEF Lock, Locked
    <2>3. \A x \in Locked : locks[x].expires \in Nat
      BY DEF TypeOK, Locked, LockRecord
    <2>4. ArmTimer(e)
      BY <1>1 DEF Lock
    <2> HIDE DEF e
    <2>5. CASE Before(e, nextExpireCheck)
      <3>1. nextExpireCheck' = e /\ lockCheckTimer' = e + 1
        BY <2>4, <2>5 DEF ArmTimer
      <3>2. \A x \in Locked : e <= locks[x].expires
        BY <2>1, <2>3, <2>5 DEF Before, TimerCoversLocks, TypeOK, Deadlines
      <3>3. e # Never
        BY <2>1
      <3> QED BY <2>1, <2>2, <3>1, <3>2, <3>3 DEF TimerCoversLocks
    <2>6. CASE ~Before(e, nextExpireCheck)
      <3>1. nextExpireCheck' = nextExpireCheck /\ lockCheckTimer' = lockCheckTimer
        BY <2>4, <2>6 DEF ArmTimer
      <3>2. nextExpireCheck # Never /\ nextExpireCheck <= e
        BY <2>1, <2>6 DEF Before, TypeOK, Deadlines
      <3>3. Locked # {}
        BY <3>2 DEF TimerCoversLocks
      <3> QED BY <2>2, <3>1, <3>2, <3>3 DEF TimerCoversLocks
    <2> QED BY <2>5, <2>6
  <1>2. ASSUME NEW k \in Keys, Release(k) PROVE TimerCoversLocks'
    BY <1>2, ReleaseAllTimer DEF Release
  <1>3. ASSUME NEW o \in Owners, ReleaseLockOwner(o) PROVE TimerCoversLocks'
    BY <1>3, ReleaseAllTimer DEF ReleaseLockOwner
  <1>4. ASSUME CheckExpired PROVE TimerCoversLocks'
    <2>1. Locked' = Locked \ Expired /\ \A k \in Locked' : locks'[k] = locks[k]
      BY <1>4 DEF CheckExpired, ReleaseAll, Locked
    <2>2. CASE Locked = Expired
      BY <1>4, <2>1, <2>2 DEF CheckExpired, NextCheck, TimerCoversLocks
    <2>3. CASE Locked # Expired
      <3>1. /\ nextExpireCheck' \in Remaining
            /\ \A e \in Remaining : nextExpireCheck' <= e
            /\ lockCheckTimer' = nextExpireCheck' + 1
        BY <1>4, <2>3 DEF CheckExpired, NextCheck
      <3>2. \A k \in Locked' : locks'[k].expires \in Remaining
        BY <2>1 DEF Remaining
      <3>3. Remaining \subseteq Nat
        BY DEF Remaining, TypeOK, Locked, LockRecord
      <3>4. nextExpireCheck' # Never
        BY <3>1, <3>3
      <3>5. Locked' # {}
        BY <2>1, <2>3 DEF Expired
      <3> QED BY <3>1, <3>2, <3>4, <3>5 DEF TimerCoversLocks
    <2> QED BY <2>2, <2>3
  <1>5. ASSUME NEW z \in Zones, ListSkipDomains(z) PROVE TimerCoversLocks'
    BY <1>5 DEF ListSkipDomains, TimerCoversLocks, Locked
  <1>6. CASE Tick
    BY <1>6 DEF Tick, lockerVars, TimerCoversLocks, Locked
  <1>7. CASE UNCHANGED vars
    BY <1>7 DEF vars, lockerVars, TimerCoversLocks, Locked
  <1> QED BY <1>1, <1>2, <1>3, <1>4, <1>5, <1>6, <1>7 DEF Next

\* The one timer of lib/queue-locker.js is set while there are locks, for the
\* first of them to expire.
THEOREM TimerCorrect == Spec => []TimerCoversLocks
  <1>1. Init => TimerCoversLocks
    BY DEF Init, TimerCoversLocks, Locked
  <1>2. TypeOK /\ TimerCoversLocks /\ [Next]_vars => TimerCoversLocks'
    BY TimerStep
  <1> QED BY <1>1, <1>2, TypeCorrect, PTL DEF Spec

(***************************************************************************)
(* The skip list.                                                          *)
(***************************************************************************)

\* A domain that stays on the skip list when locks are released is at its limit.
LEMMA ReleaseAllSkip ==
    ASSUME TypeOK, SkippedDomainIsFull, NEW S \in SUBSET Locked, ReleaseAll(S)
    PROVE  SkippedDomainIsFull'
  <1> SUFFICES ASSUME NEW z \in Zones, NEW d \in skip'[z]
               PROVE  AtLimit(z, d, Cardinality(domains'[z][d]))
    BY DEF SkippedDomainIsFull, AtLimit
  <1>1. d \in skip[z] /\ ~Unskipped(z, d, S)
    BY DEF ReleaseAll
  <1>2. d \in Domains
    BY <1>1 DEF TypeOK
  <1>3. domains'[z][d] = Left(z, d, S)
    BY <1>2 DEF ReleaseAll
  <1>4. AtLimit(z, d, Cardinality(domains[z][d]))
    BY <1>1 DEF SkippedDomainIsFull
  <1> QED BY <1>1, <1>3, <1>4 DEF Unskipped

\* A domain is put on the skip list by the lock that makes it full.
LEMMA LockSkip ==
    ASSUME TypeOK, IndexConsistent, SkippedDomainIsFull,
           NEW k \in Keys, NEW z \in Zones, NEW d \in Domains \cup {NoDomain},
           NEW o \in Owners, NEW ttl \in Ttls, Lock(k, z, d, o, ttl)
    PROVE  SkippedDomainIsFull'
  <1>1. CASE d = NoDomain
    BY <1>1 DEF Lock, IndexDomain, SkippedDomainIsFull, AtLimit
  <1>2. CASE d # NoDomain
    <2>1. d \in Domains
      BY <1>2
    <2>2. /\ domains' = [domains EXCEPT ![z][d] = @ \cup {k}]
          /\ skip' = [skip EXCEPT ![z] = SkipAfterLock(z, d)]
      BY <1>2 DEF Lock, IndexDomain
    <2>3. /\ domains \in [Zones -> [Domains -> SUBSET Keys]]
          /\ skip \in [Zones -> SUBSET Domains]
      BY DEF TypeOK
    <2>4. k \notin domains[z][d]
      BY <2>1 DEF Lock, IndexConsistent
    <2>5. Cardinality(domains[z][d] \cup {k}) = Cardinality(domains[z][d]) + 1
      <3>1. IsFiniteSet(domains[z][d])
        BY <2>1, <2>3, LockerAssumption, FS_Subset
      <3> QED BY <2>4, <3>1, FS_AddElement
    <2> SUFFICES ASSUME NEW y \in Zones, NEW e \in skip'[y]
                 PROVE  AtLimit(y, e, Cardinality(domains'[y][e]))
      BY DEF SkippedDomainIsFull, AtLimit
    <2>6. CASE y = z /\ e = d
      <3>1. e \in SkipAfterLock(z, d)
        BY <2>2, <2>3, <2>6
      <3>2. AtLimit(z, d, Cardinality(domains[z][d]) + 1)
        BY <2>6, <3>1 DEF SkipAfterLock
      <3>3. domains'[y][e] = domains[z][d] \cup {k}
        BY <2>1, <2>2, <2>3, <2>6
      <3> QED BY <2>5, <2>6, <3>2, <3>3
    <2>7. CASE ~(y = z /\ e = d)
      <3>1. e \in skip[y]
        BY <2>2, <2>3, <2>7 DEF SkipAfterLock
      <3>2. domains'[y][e] = domains[y][e]
        BY <2>1, <2>2, <2>3, <2>7, <3>1
      <3> QED BY <3>1, <3>2 DEF SkippedDomainIsFull
    <2> QED BY <2>6, <2>7
  <1> QED BY <1>1, <1>2

\* Every method takes domains that are not full off the skip list.
LEMMA SkipStep ==
    ASSUME TypeOK, IndexConsistent, SkippedDomainIsFull, [Next]_vars
    PROVE  SkippedDomainIsFull'
  <1>1. ASSUME NEW k \in Keys, NEW z \in Zones, NEW d \in Domains \cup {NoDomain},
               NEW o \in Owners, NEW ttl \in Ttls, Lock(k, z, d, o, ttl)
        PROVE  SkippedDomainIsFull'
    BY <1>1, LockSkip
  <1>2. ASSUME NEW k \in Keys, Release(k) PROVE SkippedDomainIsFull'
    <2>1. {k} \in SUBSET Locked /\ ReleaseAll({k})
      BY <1>2 DEF Release
    <2> QED BY <2>1, ReleaseAllSkip
  <1>3. ASSUME NEW o \in Owners, ReleaseLockOwner(o) PROVE SkippedDomainIsFull'
    <2>1. ReleaseAll(lockOwners[o] \cap Locked)
      BY <1>3 DEF ReleaseLockOwner
    <2> QED BY <2>1, ReleaseAllSkip
  <1>4. ASSUME CheckExpired PROVE SkippedDomainIsFull'
    <2>1. Expired \in SUBSET Locked /\ ReleaseAll(Expired)
      BY <1>4 DEF CheckExpired, Expired
    <2> QED BY <2>1, ReleaseAllSkip
  <1>5. ASSUME NEW z \in Zones, ListSkipDomains(z) PROVE SkippedDomainIsFull'
    BY <1>5 DEF ListSkipDomains, SkippedDomainIsFull, AtLimit
  <1>6. CASE Tick
    BY <1>6 DEF Tick, lockerVars, SkippedDomainIsFull, AtLimit
  <1>7. CASE UNCHANGED vars
    BY <1>7 DEF vars, lockerVars, SkippedDomainIsFull, AtLimit
  <1> QED BY <1>1, <1>2, <1>3, <1>4, <1>5, <1>6, <1>7 DEF Next

\* A skipped domain has all the locks it may have, so a release is to come
\* that takes it off the list.
THEOREM SkipCorrect == Spec => []SkippedDomainIsFull
  <1>1. Init => SkippedDomainIsFull
    BY DEF Init, SkippedDomainIsFull
  <1>2. TypeOK /\ IndexConsistent /\ SkippedDomainIsFull /\ [Next]_vars => SkippedDomainIsFull'
    BY SkipStep
  <1> QED BY <1>1, <1>2, TypeCorrect, IndexesCorrect, PTL DEF Spec

\* Releasing locks drops the cached skip list of every zone whose list changes.
LEMMA ReleaseAllCache ==
    ASSUME TypeOK, SkipListIsCurrent, NEW S \in SUBSET Locked, ReleaseAll(S)
    PROVE  SkipListIsCurrent'
  <1> SUFFICES ASSUME NEW z \in Zones PROVE SkipDomains(z)' = skip'[z]
    BY DEF SkipListIsCurrent
  <1>1. CASE ZoneDropped(z, S) \/ \E d \in skip[z] : Unskipped(z, d, S)
    BY <1>1 DEF ReleaseAll, SkipDomains
  <1>2. CASE ~(ZoneDropped(z, S) \/ \E d \in skip[z] : Unskipped(z, d, S))
    <2>1. skip'[z] = skip[z] /\ skipCache'[z] = skipCache[z]
      BY <1>2 DEF ReleaseAll
    <2> QED BY <2>1 DEF SkipDomains, SkipListIsCurrent
  <1> QED BY <1>1, <1>2

\* Every method that changes the skip list drops its cached copy.
LEMMA SkipListStep ==
    ASSUME TypeOK, SkipListIsCurrent, [Next]_vars
    PROVE  SkipListIsCurrent'
  <1> SUFFICES ASSUME TypeOK, SkipListIsCurrent, [Next]_vars,
                      NEW y \in Zones
               PROVE  SkipDomains(y)' = skip'[y]
    BY DEF SkipListIsCurrent
  <1>0. SkipDomains(y) = skip[y]
    BY DEF SkipListIsCurrent
  <1>1. ASSUME NEW k \in Keys, NEW z \in Zones, NEW d \in Domains \cup {NoDomain},
               NEW o \in Owners, NEW ttl \in Ttls, Lock(k, z, d, o, ttl)
        PROVE  SkipDomains(y)' = skip'[y]
    <2>1. CASE d = NoDomain
      BY <1>0, <1>1, <2>1 DEF Lock, IndexDomain, SkipDomains
    <2>2. CASE d # NoDomain
      <3>1. /\ skip' = [skip EXCEPT ![z] = SkipAfterLock(z, d)]
            /\ skipCache' = IF SkipAfterLock(z, d) # skip[z]
                            THEN [skipCache EXCEPT ![z] = NoCache] ELSE skipCache
        BY <1>1, <2>2 DEF Lock, IndexDomain
      <3>2. skip \in [Zones -> SUBSET Domains]
            /\ skipCache \in [Zones -> SUBSET SUBSET Domains]
        BY DEF TypeOK
      <3>3. CASE y = z /\ SkipAfterLock(z, d) # skip[z]
        BY <3>1, <3>2, <3>3 DEF SkipDomains
      <3>4. CASE ~(y = z /\ SkipAfterLock(z, d) # skip[z])
        <4>1. skip'[y] = skip[y] /\ skipCache'[y] = skipCache[y]
          BY <3>1, <3>2, <3>4
        <4> QED BY <1>0, <4>1 DEF SkipDomains
      <3> QED BY <3>3, <3>4
    <2> QED BY <2>1, <2>2
  <1>2. ASSUME NEW k \in Keys, Release(k) PROVE SkipDomains(y)' = skip'[y]
    <2>1. {k} \in SUBSET Locked /\ ReleaseAll({k})
      BY <1>2 DEF Release
    <2> QED BY <2>1, ReleaseAllCache DEF SkipListIsCurrent
  <1>3. ASSUME NEW o \in Owners, ReleaseLockOwner(o)
        PROVE  SkipDomains(y)' = skip'[y]
    <2>1. ReleaseAll(lockOwners[o] \cap Locked)
      BY <1>3 DEF ReleaseLockOwner
    <2> QED BY <2>1, ReleaseAllCache DEF SkipListIsCurrent
  <1>4. ASSUME CheckExpired PROVE SkipDomains(y)' = skip'[y]
    <2>1. Expired \in SUBSET Locked /\ ReleaseAll(Expired)
      BY <1>4 DEF CheckExpired, Expired
    <2> QED BY <2>1, ReleaseAllCache DEF SkipListIsCurrent
  <1>5. ASSUME NEW z \in Zones, ListSkipDomains(z)
        PROVE  SkipDomains(y)' = skip'[y]
    <2>1. skip' = skip /\ SkipDomains(z) = skip[z]
      BY <1>5 DEF ListSkipDomains, SkipListIsCurrent
    <2>2. skipCache'[y] = skipCache[y] \/ skipCache'[y] = {skip[y]}
      BY <1>5, <2>1 DEF ListSkipDomains, TypeOK
    <2> QED BY <1>0, <2>1, <2>2 DEF SkipDomains
  <1>6. CASE Tick
    BY <1>0, <1>6 DEF Tick, lockerVars, SkipDomains
  <1>7. CASE UNCHANGED vars
    BY <1>0, <1>7 DEF vars, lockerVars, SkipDomains
  <1> QED BY <1>1, <1>2, <1>3, <1>4, <1>5, <1>6, <1>7 DEF Next

\* listSkipDomains never returns a list that is out of date.
THEOREM SkipListCorrect == Spec => []SkipListIsCurrent
  <1>1. Init => SkipListIsCurrent
    BY DEF Init, SkipListIsCurrent, SkipDomains
  <1>2. TypeOK /\ SkipListIsCurrent /\ [Next]_vars => SkipListIsCurrent'
    BY SkipListStep
  <1> QED BY <1>1, <1>2, TypeCorrect, PTL DEF Spec

(***************************************************************************)
(* The table of leases.                                                    *)
(***************************************************************************)

\* The leases that the locks stand for.
held == [k \in Locked |-> [owner |-> locks[k].lockOwner,
                           expires |-> locks[k].expires]]

\* Releasing a set of locks ends those leases and changes no other.
LEMMA ReleaseAllLeases ==
    ASSUME NEW S \in SUBSET Locked, ReleaseAll(S)
    PROVE  held' = Leases!Without(S)
  <1>1. Locked' = Locked \ S /\ \A k \in Locked' : locks'[k] = locks[k]
    BY DEF ReleaseAll, Locked
  <1>2. DOMAIN held = Locked
    BY DEF held
  <1> QED BY <1>1, <1>2 DEF held, Leases!Without

\* Every step of the locker is a step of the table of leases, or none.
LEMMA LeaseStep ==
    ASSUME TypeOK, IndexConsistent, [Next]_vars
    PROVE  [Leases!Next]_(Leases!vars)
  <1> DEFINE lease(k) == [owner |-> locks[k].lockOwner, expires |-> locks[k].expires]
  <1>0. /\ DOMAIN held = Locked
        /\ \A k \in Locked : held[k] = lease(k)
    BY DEF held
  <1>1. ASSUME NEW k \in Keys, NEW z \in Zones, NEW d \in Domains \cup {NoDomain},
               NEW o \in Owners, NEW ttl \in Ttls, Lock(k, z, d, o, ttl)
        PROVE  Leases!Next
    <2>1. /\ k \notin Locked
          /\ Locked' = Locked \cup {k}
          /\ locks'[k].lockOwner = o /\ locks'[k].expires = now + ttl
          /\ \A x \in Locked : locks'[x] = locks[x]
          /\ now' = now
      BY <1>1 DEF Lock, Locked
    <2>2. held' = [x \in Locked \cup {k} |->
                     IF x = k THEN [owner |-> o, expires |-> now + ttl] ELSE held[x]]
      BY <1>0, <2>1 DEF held
    <2>3. Leases!Grant(k, o, ttl)
      BY <1>0, <2>1, <2>2 DEF held, Leases!Grant
    <2> QED BY <2>3 DEF Leases!Next
  <1>2. ASSUME NEW k \in Keys, Release(k) PROVE Leases!Next
    <2>1. k \in Locked /\ ReleaseAll({k}) /\ now' = now
      BY <1>2 DEF Release
    <2>2. held' = Leases!Without({k})
      BY <2>1, ReleaseAllLeases
    <2>3. Leases!Return(k)
      BY <1>0, <2>1, <2>2 DEF held, Leases!Return
    <2> QED BY <2>3 DEF Leases!Next
  <1>3. ASSUME NEW o \in Owners, ReleaseLockOwner(o) PROVE Leases!Next
    <2> DEFINE mine == lockOwners[o] \cap Locked
    <2>1. ReleaseAll(mine) /\ now' = now
      BY <1>3 DEF ReleaseLockOwner
    <2>2. mine = {k \in DOMAIN held : held[k].owner = o}
      BY <1>0 DEF IndexConsistent
    <2>3. held' = Leases!Without(mine)
      BY <2>1, ReleaseAllLeases
    <2>4. Leases!OwnerGone(o)
      BY <2>1, <2>2, <2>3 DEF held, Leases!OwnerGone
    <2> QED BY <2>4 DEF Leases!Next
  <1>4. ASSUME CheckExpired PROVE Leases!Next
    <2>1. Expired \in SUBSET Locked /\ ReleaseAll(Expired) /\ now' = now
      BY <1>4 DEF CheckExpired, Expired
    <2>2. Expired = {k \in DOMAIN held : held[k].expires <= now}
      BY <1>0 DEF Expired
    <2>3. held' = Leases!Without(Expired)
      BY <2>1, ReleaseAllLeases
    <2>4. Leases!Expire
      BY <2>1, <2>2, <2>3 DEF held, Leases!Expire
    <2> QED BY <2>4 DEF Leases!Next
  <1>5. ASSUME NEW z \in Zones, ListSkipDomains(z) PROVE UNCHANGED Leases!vars
    BY <1>5 DEF ListSkipDomains, Leases!vars, Locked
  <1>6. ASSUME Tick PROVE Leases!Next
    BY <1>6 DEF Tick, lockerVars, Locked, Leases!Next, Leases!Tick
  <1>7. ASSUME UNCHANGED vars PROVE UNCHANGED Leases!vars
    BY <1>7 DEF vars, lockerVars, Locked, Leases!vars
  <1> QED BY <1>1, <1>2, <1>3, <1>4, <1>5, <1>6, <1>7 DEF Next

\* lib/queue-locker.js, with its indexes and its timer, is a table of leases.
THEOREM LockerImplementsLeases == Spec => ImplementsLeases
  <1>1. Init => Leases!Init
    BY DEF Init, Leases!Init, Locked
  <1>2. TypeOK /\ IndexConsistent /\ [Next]_vars => [Leases!Next]_(Leases!vars)
    BY LeaseStep
  <1> QED BY <1>1, <1>2, TypeCorrect, IndexesCorrect, PTL
          DEF Spec, ImplementsLeases, Leases!Spec

\* All that release, lock and checkExpired change of a lock, they change alike.
THEOREM ConsistentHolds == Spec => []Consistent
  <1>1. TypeOK /\ IndexConsistent /\ SkipListIsCurrent => Consistent
    BY DEF Consistent
  <1> QED BY TypeCorrect, IndexesCorrect, SkipListCorrect, <1>1, PTL
=============================================================================
