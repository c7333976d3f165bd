--------------------------- MODULE MailQueueProofs ---------------------------
(***************************************************************************)
(* Proofs about MailQueue, for any messages, entries, senders and lengths  *)
(* of locks.                                                               *)
(*                                                                         *)
(* The locks in memory change as QueueLocker says, or go with a restart,   *)
(* so what is proved of them in QueueLockerProofs holds in the queue.  The *)
(* invariants of the queue itself do not rest on these locks: a lock may   *)
(* be given up by name by somebody who lost it before, but an entry that   *)
(* somebody works on is locked in the database.                            *)
(***************************************************************************)
EXTENDS MailQueue, TLAPS

(***************************************************************************)
(* The locks in memory.                                                    *)
(***************************************************************************)
Locker == INSTANCE QueueLockerProofs WITH
             Keys <- Deliveries, Zones <- {Zone}, Owners <- Clients \cup {Remover},
             Ttls <- {LockTtl, DeleteTtl}

LockerOK ==
    /\ L!TypeOK /\ L!IndexConsistent /\ L!TimerCoversLocks
    /\ L!SkippedDomainIsFull /\ L!SkipListIsCurrent

\* The definitions of QueueLocker that its proofs are about are those that the
\* queue uses.
LEMMA SameLocker ==
    /\ L!TypeOK <=> Locker!TypeOK
    /\ L!IndexConsistent <=> Locker!IndexConsistent
    /\ L!TimerCoversLocks <=> Locker!TimerCoversLocks
    /\ L!SkippedDomainIsFull <=> Locker!SkippedDomainIsFull
    /\ L!SkipListIsCurrent <=> Locker!SkipListIsCurrent
<1>1. L!TypeOK <=> Locker!TypeOK
  BY DEF L!TypeOK, Locker!TypeOK, L!LockRecord, Locker!LockRecord, L!Deadlines,
         Locker!Deadlines, L!Never, Locker!Never
<1>2. L!IndexConsistent <=> Locker!IndexConsistent
  BY DEF L!IndexConsistent, Locker!IndexConsistent, L!Locked, Locker!Locked
<1>3. L!TimerCoversLocks <=> Locker!TimerCoversLocks
  BY DEF L!TimerCoversLocks, Locker!TimerCoversLocks, L!Locked, Locker!Locked,
         L!Never, Locker!Never
<1>4. L!SkippedDomainIsFull <=> Locker!SkippedDomainIsFull
  BY DEF L!SkippedDomainIsFull, Locker!SkippedDomainIsFull, L!AtLimit, Locker!AtLimit,
         L!Cardinality, Locker!Cardinality
<1>5. L!SkipListIsCurrent <=> Locker!SkipListIsCurrent
  BY DEF L!SkipListIsCurrent, Locker!SkipListIsCurrent, L!SkipDomains,
         Locker!SkipDomains, L!NoCache, Locker!NoCache
<1> QED BY <1>1, <1>2, <1>3, <1>4, <1>5

LEMMA SameSteps == [L!Next]_(L!vars) => [Locker!Next]_(Locker!vars)
<1>1. ASSUME NEW k, NEW z, NEW d, NEW o, NEW ttl, L!Lock(k, z, d, o, ttl)
      PROVE  Locker!Lock(k, z, d, o, ttl)
  <2>1. L!ArmTimer(now + ttl) => Locker!ArmTimer(now + ttl)
    BY DEF L!ArmTimer, Locker!ArmTimer, L!Before, Locker!Before, L!Never, Locker!Never
  <2>2. L!SkipAfterLock(z, d) = Locker!SkipAfterLock(z, d)
    BY DEF L!SkipAfterLock, Locker!SkipAfterLock, L!AtLimit, Locker!AtLimit,
           L!Cardinality, Locker!Cardinality
  <2>3. L!IndexDomain(z, d, k) => Locker!IndexDomain(z, d, k)
    BY <2>2 DEF L!IndexDomain, Locker!IndexDomain, L!NoCache, Locker!NoCache
  <2> QED BY <1>1, <2>1, <2>3 DEF L!Lock, Locker!Lock, L!Locked, Locker!Locked
<1>2. ASSUME NEW S, L!ReleaseAll(S)
      PROVE  Locker!ReleaseAll(S)
  <2>1. /\ L!Locked = Locker!Locked
        /\ L!OwnersAfter(S) = Locker!OwnersAfter(S)
        /\ \A z, d : L!Left(z, d, S) = Locker!Left(z, d, S)
    BY DEF L!Locked, Locker!Locked, L!OwnersAfter, Locker!OwnersAfter, L!Left, Locker!Left
  <2>2. \A z, d : L!Unskipped(z, d, S) <=> Locker!Unskipped(z, d, S)
    BY <2>1 DEF L!Unskipped, Locker!Unskipped, L!AtLimit, Locker!AtLimit,
                L!Cardinality, Locker!Cardinality
  <2>3. \A z : L!ZoneDropped(z, S) <=> Locker!ZoneDropped(z, S)
    BY <2>1 DEF L!ZoneDropped, Locker!ZoneDropped
  <2> QED BY <1>2, <2>1, <2>2, <2>3
          DEF L!ReleaseAll, Locker!ReleaseAll, L!NoCache, Locker!NoCache
<1>3. ASSUME NEW k, L!Release(k) PROVE Locker!Release(k)
  BY <1>2, <1>3 DEF L!Release, Locker!Release, L!Locked, Locker!Locked, L!Never,
                    Locker!Never
<1>4. ASSUME NEW o, L!ReleaseLockOwner(o) PROVE Locker!ReleaseLockOwner(o)
  BY <1>2, <1>4 DEF L!ReleaseLockOwner, Locker!ReleaseLockOwner, L!Locked,
                    Locker!Locked, L!Never, Locker!Never
<1>5. ASSUME L!CheckExpired PROVE Locker!CheckExpired
  <2>1. L!Locked = Locker!Locked /\ L!Expired = Locker!Expired
    BY DEF L!Locked, Locker!Locked, L!Expired, Locker!Expired
  <2>2. L!NextCheck => Locker!NextCheck
    BY <2>1 DEF L!NextCheck, Locker!NextCheck, L!Remaining, Locker!Remaining,
                L!Never, Locker!Never
  <2> QED BY <1>2, <1>5, <2>1, <2>2 DEF L!CheckExpired, Locker!CheckExpired, L!Never,
                                        Locker!Never
<1>6. ASSUME NEW z, L!ListSkipDomains(z) PROVE Locker!ListSkipDomains(z)
  BY <1>6 DEF L!ListSkipDomains, Locker!ListSkipDomains, L!SkipDomains,
              Locker!SkipDomains, L!NoCache, Locker!NoCache
<1>7. L!Tick => Locker!Tick
  BY DEF L!Tick, Locker!Tick, L!lockerVars, Locker!lockerVars
<1>8. UNCHANGED L!vars => UNCHANGED Locker!vars
  BY DEF L!vars, Locker!vars, L!lockerVars, Locker!lockerVars
<1> QED BY <1>1, <1>3, <1>4, <1>5, <1>6, <1>7, <1>8 DEF L!Next, Locker!Next

\* A step of the locker keeps what is proved of it.
LEMMA LockerKept ==
    ASSUME LockerOK, [L!Next]_(L!vars)
    PROVE  LockerOK'
<1>1. /\ IsFiniteSet(Deliveries) => Locker!IsFiniteSet(Deliveries)
      /\ {LockTtl, DeleteTtl} \subseteq Nat \ {0} /\ MaxTime \in Nat
  BY QueueAssumption DEF IsFiniteSet, Locker!IsFiniteSet
<1>2. [Locker!Next]_(Locker!vars)
  BY SameSteps
<1>3. Locker!TypeOK'
  BY <1>1, <1>2, SameLocker, Locker!TypeStep, QueueAssumption DEF LockerOK
<1>4. Locker!IndexConsistent'
  BY <1>1, <1>2, SameLocker, Locker!IndexStep, QueueAssumption DEF LockerOK
<1>5. Locker!TimerCoversLocks'
  BY <1>1, <1>2, SameLocker, Locker!TimerStep, QueueAssumption DEF LockerOK
<1>6. Locker!SkippedDomainIsFull'
  BY <1>1, <1>2, SameLocker, Locker!SkipStep, QueueAssumption DEF LockerOK
<1>7. Locker!SkipListIsCurrent'
  BY <1>1, <1>2, SameLocker, Locker!SkipListStep, QueueAssumption DEF LockerOK
<1>8. /\ L!TypeOK' <=> Locker!TypeOK'
      /\ L!IndexConsistent' <=> Locker!IndexConsistent'
      /\ L!TimerCoversLocks' <=> Locker!TimerCoversLocks'
      /\ L!SkippedDomainIsFull' <=> Locker!SkippedDomainIsFull'
      /\ L!SkipListIsCurrent' <=> Locker!SkipListIsCurrent'
  BY SameLocker, PTL
<1> QED BY <1>3, <1>4, <1>5, <1>6, <1>7, <1>8 DEF LockerOK

\* A master that starts has no locks.
NoLocks ==
    /\ now \in Nat
    /\ locks = [d \in {} |-> {}]
    /\ lockOwners = [o \in Clients \cup {Remover} |-> {}]
    /\ domains = [z \in {Zone} |-> [x \in Domains |-> {}]]
    /\ skip = [z \in {Zone} |-> {}]
    /\ skipCache = [z \in {Zone} |-> L!NoCache]
    /\ nextExpireCheck = L!Never
    /\ lockCheckTimer = L!Never

LEMMA LockerStarts == NoLocks => LockerOK
<1> SUFFICES ASSUME NoLocks PROVE LockerOK
  OBVIOUS
<1>1. L!TypeOK
  BY DEF NoLocks, L!TypeOK, L!Deadlines, L!Never, L!NoCache
<1>2. L!IndexConsistent /\ L!TimerCoversLocks
  BY DEF NoLocks, L!IndexConsistent, L!TimerCoversLocks, L!Locked
<1>3. L!SkippedDomainIsFull /\ L!SkipListIsCurrent
  BY DEF NoLocks, L!SkippedDomainIsFull, L!SkipListIsCurrent, L!SkipDomains, L!NoCache
<1> QED BY <1>1, <1>2, <1>3 DEF LockerOK

\* A lock that is given up by name is a lock of the locker, or there is none.
LEMMA UnlockStep ==
    ASSUME LockerOK, NEW d, Unlock(d)
    PROVE  [L!Next]_(L!vars)
BY DEF Unlock, LockerOK, L!TypeOK, L!Next, L!vars, lockerVars, L!lockerVars

(***************************************************************************)
(* The inductive invariant, in parts that different steps disturb.         *)
(***************************************************************************)

\* The database holds entries that have been inserted, of messages that have
\* been stored.
QueueOK ==
    /\ DOMAIN docs \subseteq inserted
    /\ docs \in [DOMAIN docs -> Entry]
    /\ inserted \subseteq Deliveries
    /\ DOMAIN body \subseteq Messages
    /\ body \in [DOMAIN body -> Nat]
    /\ stage \in [Messages -> {"new", "stored", "queued", "failing", "failed", "cut"}]
    /\ \A d \in inserted : stage[MsgOf[d]] # "new"
    /\ ended \subseteq Deliveries

\* A slot that works on an entry works on one of the set I; what it reports, or
\* the queue drops for it, has come to an end and is in E.
GoodSlot(v, I, E) ==
    /\ v \in [pc : SenderPcs \cup MasterPcs, entry : Deliveries \cup {NoDelivery},
               asked : Nat, skip : SUBSET Domains]
    /\ v.entry = NoDelivery <=> v.pc \in {"idle", "find"}
    /\ v.entry = NoDelivery \/ v.entry \in I
    /\ v.pc \in {"done", "release", "unref", "drop", "dropped"}
         => v.entry \in E

SlotsOK ==
    /\ slot = [s \in Slots |-> slot[s]]
    /\ \A s \in Slots : GoodSlot(slot[s], inserted, ended)

\* The delete request and the garbage collector work on entries that have been
\* inserted.
TasksOK ==
    /\ client \in [Clients -> {"new", "up", "closing", "gone"}]
    /\ emptyUntil \in Nat
    /\ removal \in [pc : {"idle", "next", "delete", "unref", "body"},
                    todo : SUBSET inserted, entry : inserted \cup {NoDelivery}]
    /\ removal.pc \in {"delete", "unref", "body"} => removal.entry # NoDelivery
    /\ gc \in [pc : {"idle", "drop", "unref", "body", "clear"},
               entry : inserted \cup {NoDelivery}, until : Nat]
    /\ gc.pc \in {"drop", "unref", "body"} => gc.entry # NoDelivery

Inv == LockerOK /\ QueueOK /\ SlotsOK /\ TasksOK

LEMMA InvIsTyped == Inv => TypeOK
<1> SUFFICES ASSUME Inv PROVE TypeOK
  OBVIOUS
<1>1. L!TypeOK
  BY DEF Inv, LockerOK
<1>2. /\ slot \in [Slots -> [pc : SenderPcs \cup MasterPcs,
                           entry : Deliveries \cup {NoDelivery},
                           asked : Nat, skip : SUBSET Domains]]
      /\ \A s \in Slots : slot[s].entry = NoDelivery <=> slot[s].pc \in {"idle", "find"}
  BY DEF Inv, SlotsOK, GoodSlot
<1>3. /\ removal \in [pc : {"idle", "next", "delete", "unref", "body"},
                      todo : SUBSET Deliveries, entry : Deliveries \cup {NoDelivery}]
      /\ gc \in [pc : {"idle", "drop", "unref", "body", "clear"},
                 entry : Deliveries \cup {NoDelivery}, until : Nat]
  BY DEF Inv, TasksOK, QueueOK
<1> QED BY <1>1, <1>2, <1>3 DEF Inv, QueueOK, TasksOK, TypeOK

LEMMA InvInit == Init => Inv
<1> SUFFICES ASSUME Init PROVE Inv
  OBVIOUS
<1>1. NoLocks
  BY DEF Init, L!Init, NoLocks
<1>2. QueueOK /\ TasksOK
  BY DEF Init, QueueOK, TasksOK, IdleRemoval, IdleGc
<1>3. SlotsOK
  BY DEF Init, SlotsOK, GoodSlot, IdleSlot, SenderPcs, MasterPcs
<1> QED BY <1>1, <1>2, <1>3, LockerStarts DEF Inv

\* A slot changes, or none does, and the entries that are inserted, and those
\* that have come to an end, stay so.
LEMMA SlotStep ==
    ASSUME SlotsOK, NEW s \in Slots, NEW v, slot' = [slot EXCEPT ![s] = v],
           GoodSlot(v, inserted', ended'),
           inserted \subseteq inserted', ended \subseteq ended'
    PROVE  SlotsOK'
<1>1. slot' = [t \in Slots |-> slot'[t]] /\ slot'[s] = v
  BY DEF SlotsOK
<1>2. ASSUME NEW t \in Slots PROVE GoodSlot(slot'[t], inserted', ended')
  <2>1. CASE t = s
    BY <1>1, <2>1
  <2>2. CASE t # s
    BY <2>2 DEF SlotsOK, GoodSlot
  <2> QED BY <2>1, <2>2
<1> QED BY <1>1, <1>2 DEF SlotsOK

LEMMA SlotsStay ==
    ASSUME SlotsOK, UNCHANGED slot, inserted \subseteq inserted', ended \subseteq ended'
    PROVE  SlotsOK'
BY DEF SlotsOK, GoodSlot

\* The three ways in which a command or a reply moves a slot.
LEMMA GotoStep ==
    ASSUME SlotsOK, NEW s \in Slots, NEW pc \in SenderPcs \cup MasterPcs, Goto(s, pc),
           slot[s].pc \notin {"idle", "find"}, pc \notin {"idle", "find"},
           pc \in {"done", "release", "unref", "drop", "dropped"}
             => slot[s].entry \in ended',
           inserted \subseteq inserted', ended \subseteq ended'
    PROVE  SlotsOK'
<1> DEFINE v == [slot[s] EXCEPT !.pc = pc]
<1>1. GoodSlot(slot[s], inserted, ended)
  BY DEF SlotsOK
<1>2. slot' = [slot EXCEPT ![s] = v]
  BY DEF Goto
<1>3. GoodSlot(v, inserted', ended')
  BY <1>1 DEF GoodSlot
<1> HIDE DEF v
<1> QED BY <1>2, <1>3, SlotStep

LEMMA IdleStep ==
    ASSUME SlotsOK, NEW s \in Slots, ToIdle(s), inserted \subseteq inserted',
           ended \subseteq ended'
    PROVE  SlotsOK'
<1>1. GoodSlot(IdleSlot, inserted', ended')
  BY DEF GoodSlot, IdleSlot, SenderPcs, MasterPcs
<1> QED BY <1>1, SlotStep DEF ToIdle

LEMMA FindAgainStep ==
    ASSUME SlotsOK, NEW s \in Slots, FindAgain(s), inserted \subseteq inserted',
           ended \subseteq ended'
    PROVE  SlotsOK'
<1> DEFINE v == [slot[s] EXCEPT !.pc = "find", !.entry = NoDelivery]
<1>1. GoodSlot(slot[s], inserted, ended)
  BY DEF SlotsOK
<1>2. slot' = [slot EXCEPT ![s] = v]
  BY DEF FindAgain
<1>3. GoodSlot(v, inserted', ended')
  BY <1>1 DEF GoodSlot, SenderPcs, MasterPcs
<1> HIDE DEF v
<1> QED BY <1>2, <1>3, SlotStep

\* What a step does not touch stays as it is.
LEMMA LockerStays ==
    ASSUME LockerOK, UNCHANGED <<now, lockerVars>>
    PROVE  LockerOK'
<1>1. UNCHANGED L!vars
  BY DEF L!vars, L!lockerVars, lockerVars
<1> QED BY <1>1, LockerKept

LEMMA TasksStay ==
    ASSUME TasksOK, UNCHANGED <<client, emptyUntil, removal, gc>>,
           inserted \subseteq inserted'
    PROVE  TasksOK'
BY DEF TasksOK

\* Bodies leave the database, the others keep their ids.
BodiesLeave ==
    /\ body' = [m \in DOMAIN body' |-> body'[m]]
    /\ \A m \in DOMAIN body' : m \in DOMAIN body /\ body'[m] = body[m]

LEMMA BodiesStay ==
    ASSUME QueueOK, UNCHANGED body
    PROVE  BodiesLeave
BY DEF QueueOK, BodiesLeave

LEMMA SomeBodiesLeave ==
    ASSUME QueueOK, NEW M, body' \in {body, BodiesWithout(M)}
    PROVE  BodiesLeave /\ \A m \in DOMAIN body \ DOMAIN body' : m \in M
<1>1. CASE UNCHANGED body
  BY <1>1, BodiesStay
<1>2. CASE body' = BodiesWithout(M)
  BY <1>2 DEF BodiesLeave, BodiesWithout
<1> QED BY <1>1, <1>2

\* Entries leave the database, and bodies do.
LEMMA QueueShrinks ==
    ASSUME QueueOK, NEW D, docs' = DocsWithout(D), UNCHANGED body,
           UNCHANGED <<stage, inserted>>, ended' \subseteq Deliveries
    PROVE  QueueOK'
BY DEF QueueOK, DocsWithout

LEMMA QueueStays ==
    ASSUME QueueOK, UNCHANGED <<docs, stage, inserted>>, UNCHANGED body \/ BodiesLeave,
           ended' \subseteq Deliveries
    PROVE  QueueOK'
BY DEF QueueOK, BodiesLeave

\* An entry is changed in its place.
LEMMA QueueUpdated ==
    ASSUME QueueOK, DOMAIN docs' = DOMAIN docs, docs' \in [DOMAIN docs -> Entry],
           UNCHANGED <<body, stage, inserted>>, ended' \subseteq Deliveries
    PROVE  QueueOK'
BY DEF QueueOK

LEMMA IntakeStep ==
    ASSUME Inv, NEW m \in Messages,
           \/ Store(m)
           \/ \E D \in SUBSET EntriesOf(m) : Insert(m, D)
           \/ PushDone(m)
           \/ PushFails(m)
           \/ PushUndone(m)
    PROVE  Inv'
<1>1. LockerOK' /\ SlotsOK' /\ TasksOK'
  <2>1. /\ UNCHANGED <<now, lockerVars, client, slot, emptyUntil, removal, gc, ended>>
        /\ inserted \subseteq inserted'
    BY DEF Store, Insert, PushDone, PushFails, PushUndone
  <2> QED BY <2>1, LockerStays, SlotsStay, TasksStay DEF Inv
<1>2. QueueOK'
  <2>1. CASE Store(m)
    <3>1. now \in Nat
      BY DEF Inv, LockerOK, L!TypeOK
    <3>2. body' \in [DOMAIN body' -> Nat] /\ DOMAIN body' \subseteq Messages
      BY <2>1, <3>1 DEF Store, Inv, QueueOK
    <3> QED BY <2>1, <3>2 DEF Store, Inv, QueueOK
  <2>2. ASSUME NEW D \in SUBSET EntriesOf(m), Insert(m, D)
        PROVE  QueueOK'
    <3>1. D \subseteq Deliveries /\ \A d \in D : MsgOf[d] = m
      BY DEF EntriesOf
    <3>2. NewEntry \in Entry
      BY DEF Inv, LockerOK, L!TypeOK, NewEntry, Entry
    <3>3. docs' \in [DOMAIN docs' -> Entry] /\ DOMAIN docs' \subseteq inserted'
      BY <2>2, <3>2 DEF Insert, Inv, QueueOK
    <3>4. \A d \in inserted' : stage'[MsgOf[d]] # "new"
      BY <2>2, <3>1 DEF Insert, Inv, QueueOK
    <3>5. /\ inserted' \subseteq Deliveries
          /\ stage' \in [Messages -> {"new", "stored", "queued", "failing", "failed",
                                      "cut"}]
          /\ UNCHANGED body /\ ended' \subseteq Deliveries
      BY <2>2, <3>1 DEF Insert, Inv, QueueOK
    <3> QED BY <3>3, <3>4, <3>5 DEF Inv, QueueOK
  <2>3. CASE PushDone(m) \/ PushFails(m)
    <3>1. /\ stage' \in [Messages -> {"new", "stored", "queued", "failing", "failed",
                                     "cut"}]
          /\ \A n \in Messages : stage[n] # "new" => stage'[n] # "new"
          /\ UNCHANGED <<docs, body, inserted, ended>>
      BY <2>3 DEF PushDone, PushFails, Inv, QueueOK
    <3> QED BY <3>1, QueueAssumption DEF Inv, QueueOK
  <2>4. CASE PushUndone(m)
    <3>1. BodiesLeave
      BY <2>4, SomeBodiesLeave DEF PushUndone, DeleteBody, Inv
    <3> QED BY <2>4, <3>1 DEF PushUndone, BodiesLeave, Inv, QueueOK
  <2> QED BY <2>1, <2>2, <2>3, <2>4
<1> QED BY <1>1, <1>2 DEF Inv

\* The entry a slot works on.
LEMMA SlotEntry ==
    ASSUME Inv, NEW s \in Slots
    PROVE  /\ GoodSlot(slot[s], inserted, ended)
           /\ slot[s].pc \notin {"idle", "find"} => slot[s].entry \in Deliveries
           /\ inserted \subseteq Deliveries /\ ended \subseteq Deliveries
           /\ DOMAIN docs \subseteq Deliveries
BY DEF Inv, SlotsOK, GoodSlot, QueueOK

LEMMA MarkLockedStep ==
    ASSUME Inv, NEW d \in DOMAIN docs, MarkLocked(d)
    PROVE  DOMAIN docs' = DOMAIN docs /\ docs' \in [DOMAIN docs -> Entry]
<1>1. now \in Nat
  BY DEF Inv, LockerOK, L!TypeOK
<1> QED BY <1>1 DEF MarkLocked, Inv, QueueOK, Entry

\* shift: an entry is looked for.
LEMMA FindStep ==
    ASSUME Inv, NEW s \in Slots,
           \/ Shift(s)
           \/ \E d \in Deliveries : Find(s, d)
           \/ FindNothing(s)
           \/ FindFails(s)
    PROVE  Inv'
<1>1. CASE Shift(s)
  <2>1. LockerOK'
    <3>1. L!Next
      BY <1>1 DEF Shift, L!Next
    <3> QED BY <3>1, LockerKept DEF Inv
  <2>2. SlotsOK'
    <3> DEFINE v == [pc |-> "find", entry |-> NoDelivery, asked |-> now,
                     skip |-> L!SkipDomains(Zone)]
    <3>1. now \in Nat /\ L!SkipDomains(Zone) \in SUBSET Domains
      BY DEF Inv, LockerOK, L!TypeOK, L!SkipDomains
    <3>2. GoodSlot(v, inserted', ended')
      BY <3>1 DEF GoodSlot, MasterPcs
    <3>3. slot' = [slot EXCEPT ![s] = v] /\ UNCHANGED <<inserted, ended>>
      BY <1>1 DEF Shift, restVars, intakeVars
    <3> HIDE DEF v
    <3> QED BY <3>2, <3>3, SlotStep DEF Inv
  <2>3. QueueOK' /\ TasksOK'
    BY <1>1, QueueStays, TasksStay DEF Shift, restVars, intakeVars, Inv, QueueOK
  <2> QED BY <2>1, <2>2, <2>3 DEF Inv
<1>2. ASSUME NEW d \in Deliveries, Find(s, d) PROVE Inv'
  <2>1. LockerOK' /\ TasksOK'
    BY <1>2, LockerStays, TasksStay DEF Find, restVars, intakeVars, Inv
  <2>2. QueueOK' /\ d \in inserted
    BY <1>2, MarkLockedStep, QueueUpdated
    DEF Find, Findable, restVars, intakeVars, Inv, QueueOK
  <2>3. SlotsOK'
    <3> DEFINE v == [slot[s] EXCEPT !.pc = "found", !.entry = d]
    <3>1. GoodSlot(v, inserted', ended')
      BY <1>2, <2>2, SlotEntry, QueueAssumption
      DEF Find, restVars, intakeVars, GoodSlot, MasterPcs
    <3>2. slot' = [slot EXCEPT ![s] = v] /\ UNCHANGED <<inserted, ended>>
      BY <1>2 DEF Find, restVars, intakeVars
    <3> HIDE DEF v
    <3> QED BY <3>1, <3>2, SlotStep DEF Inv
  <2> QED BY <2>1, <2>2, <2>3 DEF Inv
<1>3. CASE FindNothing(s)
  <2>1. LockerOK' /\ SlotsOK' /\ QueueOK'
    BY <1>3, LockerStays, IdleStep, QueueStays DEF FindNothing, intakeVars, Inv, QueueOK
  <2>2. emptyUntil' \in Nat
    BY <1>3, QueueAssumption DEF FindNothing, Inv, LockerOK, L!TypeOK, TasksOK
  <2>3. TasksOK'
    BY <1>3, <2>2 DEF FindNothing, intakeVars, Inv, TasksOK
  <2> QED BY <2>1, <2>3 DEF Inv
<1>4. CASE FindFails(s)
  <2>1. LockerOK' /\ SlotsOK' /\ TasksOK'
    BY <1>4, LockerStays, IdleStep, TasksStay DEF FindFails, restVars, intakeVars, Inv
  <2>2. DOMAIN docs' = DOMAIN docs /\ docs' \in [DOMAIN docs -> Entry]
    BY <1>4, MarkLockedStep DEF FindFails, Findable, Inv, QueueOK
  <2>3. QueueOK'
    BY <1>4, <2>2, QueueUpdated DEF FindFails, restVars, intakeVars, Inv, QueueOK
  <2> QED BY <2>1, <2>3 DEF Inv
<1> QED BY <1>1, <1>2, <1>3, <1>4

\* shift: what is done with the entry that was found.
LEMMA GetStep ==
    ASSUME Inv, NEW s \in Slots,
           \/ LockFound(s)
           \/ ReadMeta(s)
           \/ ReadMetaFails(s)
           \/ DropOrphans(s)
           \/ Suppress(s)
           \/ Respond(s)
           \/ DropFails(s)
    PROVE  Inv'
<1>1. TasksOK' /\ UNCHANGED inserted
  BY TasksStay DEF LockFound, ReadMeta, ReadMetaFails, DropOrphans, Suppress, Respond,
     DropFails, restVars, intakeVars, Inv
<1>2. CASE LockFound(s)
  <2>1. QueueOK'
    BY <1>2, QueueStays DEF LockFound, restVars, intakeVars, Inv, QueueOK
  <2>2. LockerOK'
    <3>1. L!Next \/ UNCHANGED <<now, lockerVars>>
      BY <1>2, SlotEntry, QueueAssumption DEF LockFound, L!Next
    <3> QED BY <3>1, LockerKept, LockerStays DEF Inv
  <2>3. SlotsOK'
    BY <1>1, <1>2, GotoStep, FindAgainStep DEF LockFound, MasterPcs, Inv
  <2> QED BY <1>1, <2>1, <2>2, <2>3 DEF Inv
<1>3. CASE ReadMeta(s)
  <2>1. LockerOK' /\ QueueOK'
    BY <1>3, LockerStays, QueueStays DEF ReadMeta, restVars, intakeVars, Inv, QueueOK
  <2>2. SlotsOK'
    BY <1>1, <1>3, GotoStep DEF ReadMeta, MasterPcs, Inv
  <2> QED BY <1>1, <2>1, <2>2 DEF Inv
<1>4. CASE ReadMetaFails(s) \/ DropFails(s)
  <2>1. QueueOK'
    BY <1>4, QueueStays DEF ReadMetaFails, DropFails, restVars, intakeVars, Inv, QueueOK
  <2>2. LockerOK'
    BY <1>4, UnlockStep, LockerKept DEF ReadMetaFails, DropFails, Inv
  <2>3. SlotsOK'
    BY <1>1, <1>4, IdleStep DEF ReadMetaFails, DropFails, Inv
  <2> QED BY <1>1, <2>1, <2>2, <2>3 DEF Inv
<1>5. CASE DropOrphans(s)
  <2>1. QueueOK'
    BY <1>5, QueueShrinks, QueueStays DEF DropOrphans, restVars, intakeVars, Inv, QueueOK
  <2>2. LockerOK'
    BY <1>5, UnlockStep, LockerKept DEF DropOrphans, Inv
  <2>3. SlotsOK'
    BY <1>1, <1>5, FindAgainStep DEF DropOrphans, Inv
  <2> QED BY <1>1, <2>1, <2>2, <2>3 DEF Inv
<1>6. CASE Suppress(s)
  <2>1. slot[s].entry \in Deliveries
    BY <1>6, SlotEntry DEF Suppress
  <2>2. LockerOK' /\ QueueOK'
    BY <1>6, <2>1, LockerStays, QueueStays
    DEF Suppress, restVars, intakeVars, Inv, QueueOK
  <2>3. SlotsOK'
    BY <1>1, <1>6, GotoStep DEF Suppress, MasterPcs, Inv
  <2> QED BY <1>1, <2>2, <2>3 DEF Inv
<1>7. CASE Respond(s)
  <2>1. LockerOK' /\ QueueOK'
    BY <1>7, LockerStays, QueueStays DEF Respond, restVars, intakeVars, Inv, QueueOK
  <2>2. SlotsOK'
    <3> DEFINE v == [slot[s] EXCEPT !.pc = "sending", !.asked = 0, !.skip = {}]
    <3>1. CASE Connected(s)
      <4>1. GoodSlot(v, inserted', ended')
        BY <1>1, <1>7, SlotEntry DEF Respond, GoodSlot, SenderPcs
      <4>2. slot' = [slot EXCEPT ![s] = v] /\ UNCHANGED ended
        BY <1>7, <3>1 DEF Respond
      <4> HIDE DEF v
      <4> QED BY <1>1, <4>1, <4>2, SlotStep DEF Inv
    <3>2. CASE ~Connected(s)
      BY <1>1, <1>7, <3>2, IdleStep DEF Respond, Inv
    <3> QED BY <3>1, <3>2
  <2> QED BY <1>1, <2>1, <2>2 DEF Inv
<1> QED BY <1>2, <1>3, <1>4, <1>5, <1>6, <1>7

\* The sender reports how a delivery has ended, and the command is served.
LEMMA ReportStep ==
    ASSUME Inv, NEW s \in Slots, Report(s)
    PROVE  Inv'
<1>1. CASE SendDone(s) \/ SendFails(s) \/ LookUp(s)
  <2>1. TasksOK' /\ LockerOK' /\ UNCHANGED inserted
    BY <1>1, TasksStay, LockerStays
    DEF SendDone, SendFails, LookUp, restVars, intakeVars, Inv
  <2>2. slot[s].pc \notin {"idle", "find"}
    BY <1>1 DEF SendDone, SendFails, LookUp
  <2>3. QueueOK' /\ ended \subseteq ended'
    BY <1>1, <2>2, SlotEntry, QueueStays
    DEF SendDone, SendFails, LookUp, restVars, intakeVars, Inv, QueueOK
  <2>4. SlotsOK'
    <3>1. CASE SendDone(s)
      <4>1. slot[s].entry \in ended'
        BY <3>1 DEF SendDone
      <4> QED BY <2>1, <2>2, <2>3, <3>1, <4>1, GotoStep DEF SendDone, SenderPcs, Inv
    <3>2. CASE SendFails(s)
      BY <2>1, <2>2, <2>3, <3>2, GotoStep DEF SendFails, SenderPcs, Inv
    <3>3. CASE LookUp(s)
      <4>1. slot[s].pc # "deferring" => slot[s].entry \in ended
        BY <3>3, SlotEntry DEF LookUp, GoodSlot
      <4>2. CASE ToIdle(s)
        BY <2>1, <2>3, <4>2, IdleStep DEF Inv
      <4>3. CASE ~ToIdle(s)
        BY <2>1, <2>2, <2>3, <3>3, <4>1, <4>3, GotoStep DEF LookUp, MasterPcs, Inv
      <4> QED BY <4>2, <4>3
    <3> QED BY <1>1, <3>1, <3>2, <3>3
  <2> QED BY <2>1, <2>3, <2>4 DEF Inv
<1>2. CASE DeleteEntry(s)
  <2>1. TasksOK' /\ UNCHANGED <<inserted, ended>>
    BY <1>2, TasksStay DEF DeleteEntry, restVars, intakeVars, Inv
  <2>2. LockerOK'
    BY <1>2, UnlockStep, LockerKept DEF DeleteEntry, Inv
  <2>3. QueueOK'
    BY <1>2, QueueShrinks DEF DeleteEntry, restVars, intakeVars, Inv, QueueOK
  <2>4. SlotsOK'
    <3>1. slot[s].entry \in ended
      BY <1>2, SlotEntry DEF DeleteEntry, GoodSlot
    <3> QED BY <1>2, <2>1, <3>1, GotoStep DEF DeleteEntry, MasterPcs, Inv
  <2> QED BY <2>1, <2>2, <2>3, <2>4 DEF Inv
<1>3. CASE LookForOthers(s)
  <2>1. TasksOK' /\ LockerOK' /\ QueueOK' /\ UNCHANGED <<inserted, ended>>
    BY <1>3, TasksStay, LockerStays, QueueStays
    DEF LookForOthers, restVars, intakeVars, Inv, QueueOK
  <2>2. SlotsOK'
    <3>1. CASE EntryDone(s)
      BY <2>1, <3>1, IdleStep, FindAgainStep DEF EntryDone, Inv
    <3>2. CASE ~EntryDone(s)
      BY <1>3, <2>1, <3>2, GotoStep DEF LookForOthers, MasterPcs, Inv
    <3> QED BY <3>1, <3>2
  <2> QED BY <2>1, <2>2 DEF Inv
<1>9. CASE DropBody(s)
  <2>1. TasksOK' /\ LockerOK' /\ UNCHANGED <<inserted, ended>>
    BY <1>9, TasksStay, LockerStays DEF DropBody, restVars, intakeVars, Inv
  <2>2. QueueOK'
    BY <1>9, QueueStays, SomeBodiesLeave
    DEF DropBody, DeleteBody, restVars, intakeVars, Inv, QueueOK
  <2>3. SlotsOK'
    BY <1>9, <2>1, IdleStep, FindAgainStep DEF DropBody, EntryDone, Inv
  <2> QED BY <2>1, <2>2, <2>3 DEF Inv
<1>4. CASE DeferEntry(s)
  <2>1. TasksOK' /\ LockerOK' /\ UNCHANGED <<inserted, ended>>
    BY <1>4, TasksStay, LockerStays DEF DeferEntry, restVars, intakeVars, Inv
  <2>2. now + DeferTtl \in Nat
    BY QueueAssumption DEF Inv, LockerOK, L!TypeOK
  <2>3. DOMAIN docs' = DOMAIN docs /\ docs' \in [DOMAIN docs -> Entry]
    BY <1>4, <2>2 DEF DeferEntry, Inv, QueueOK, Entry
  <2>4. QueueOK'
    BY <1>4, <2>3, QueueUpdated DEF DeferEntry, restVars, intakeVars, Inv, QueueOK
  <2>5. SlotsOK'
    BY <1>4, <2>1, GotoStep DEF DeferEntry, MasterPcs, Inv
  <2> QED BY <2>1, <2>4, <2>5 DEF Inv
<1>5. CASE DeferDone(s)
  <2>1. TasksOK' /\ UNCHANGED <<inserted, ended>>
    BY <1>5, TasksStay DEF DeferDone, restVars, intakeVars, Inv
  <2>2. LockerOK'
    BY <1>5, UnlockStep, LockerKept DEF DeferDone, Inv
  <2>3. QueueOK' /\ SlotsOK'
    BY <1>5, <2>1, QueueStays, IdleStep
    DEF DeferDone, restVars, intakeVars, Inv, QueueOK
  <2> QED BY <2>1, <2>2, <2>3 DEF Inv
<1>6. CASE CommandFails(s)
  <2>1. TasksOK' /\ UNCHANGED <<inserted, ended>>
    BY <1>6, QueueAssumption DEF CommandFails, intakeVars, Inv, TasksOK
  <2>2. LockerOK'
    BY <1>6, UnlockStep, LockerKept, LockerStays DEF CommandFails, Inv
  <2>3. QueueOK' /\ SlotsOK'
    BY <1>6, <2>1, QueueStays, IdleStep DEF CommandFails, intakeVars, Inv, QueueOK
  <2> QED BY <2>1, <2>2, <2>3 DEF Inv
<1> QED BY <1>1, <1>2, <1>3, <1>4, <1>5, <1>6, <1>9 DEF Report

\* Sender processes come and go, and so does the master.
LEMMA ProcessStep ==
    ASSUME Inv, (\E c \in Clients : Connect(c) \/ Close(c)) \/ Restart
    PROVE  Inv'
<1>1. ASSUME NEW c \in Clients, Connect(c) PROVE Inv'
  <2>1. LockerOK' /\ QueueOK' /\ SlotsOK'
    BY <1>1, LockerStays, QueueStays, SlotsStay DEF Connect, intakeVars, Inv, QueueOK
  <2>2. TasksOK'
    BY <1>1 DEF Connect, intakeVars, Inv, TasksOK
  <2> QED BY <2>1, <2>2 DEF Inv
<1>2. ASSUME NEW c \in Clients, Close(c) PROVE Inv'
  <2>1. LockerOK'
    <3>1. L!Next \/ UNCHANGED <<now, lockerVars>>
      BY <1>2 DEF Close, L!Next
    <3> QED BY <3>1, LockerKept, LockerStays DEF Inv
  <2>2. QueueOK' /\ UNCHANGED <<inserted, ended>>
    BY <1>2, QueueStays DEF Close, intakeVars, Inv, QueueOK
  <2>3. TasksOK'
    BY <1>2 DEF Close, intakeVars, Inv, TasksOK
  <2>4. SlotsOK'
    <3>1. GoodSlot(IdleSlot, inserted, ended)
      BY DEF GoodSlot, IdleSlot, SenderPcs, MasterPcs
    <3>2. \A s \in Slots : slot'[s] \in {slot[s], IdleSlot}
      BY <1>2 DEF Close
    <3>3. slot' = [s \in Slots |-> slot'[s]]
      BY <1>2 DEF Close
    <3> QED BY <2>2, <3>1, <3>2, <3>3 DEF Inv, SlotsOK
  <2> QED BY <2>1, <2>2, <2>3, <2>4 DEF Inv
<1>3. CASE Restart
  <2>1. NoLocks'
    BY <1>3 DEF Restart, NoLocks, L!NoCache, L!Never, Inv, LockerOK, L!TypeOK
  <2>2. LockerOK'
    BY <2>1, LockerStarts, PTL
  <2>3. UNCHANGED <<inserted, ended, body>>
    BY <1>3 DEF Restart
  <2>4. QueueOK'
    <3>1. DOMAIN docs' = DOMAIN docs
      BY <1>3 DEF Restart
    <3>4. \A d \in DOMAIN docs : docs[d] \in Entry /\ Unlocked(docs[d]) \in Entry
      BY DEF Unlocked, Inv, QueueOK, Entry
    <3>5. docs' \in [DOMAIN docs -> Entry]
      BY <1>3, <3>4 DEF Restart
    <3>2. /\ stage' \in [Messages -> {"new", "stored", "queued", "failing", "failed",
                                     "cut"}]
          /\ \A m \in Messages : stage[m] # "new" => stage'[m] # "new"
      BY <1>3 DEF Restart, Inv, QueueOK
    <3> QED BY <2>3, <3>1, <3>2, <3>5, QueueAssumption DEF Inv, QueueOK
  <2>5. SlotsOK'
    <3>1. GoodSlot(IdleSlot, inserted, ended)
      BY DEF GoodSlot, IdleSlot, SenderPcs, MasterPcs
    <3> QED BY <1>3, <2>3, <3>1 DEF Restart, SlotsOK
  <2>6. TasksOK'
    BY <1>3, <2>3 DEF Restart, TasksOK, IdleRemoval, IdleGc, Inv
  <2> QED BY <2>2, <2>4, <2>5, <2>6 DEF Inv
<1> QED BY <1>1, <1>2, <1>3

\* The API.
LEMMA ApiStep ==
    ASSUME Inv, Api
    PROVE  Inv'
<1>1. SlotsOK'
  <2>1. UNCHANGED <<slot, inserted>> /\ ended \subseteq ended'
    BY DEF Api, RemoveStart, SendNow, RemoveNext, RemoveDelete, RemoveLook, RemoveBody,
       RemoveDone, NextToRemove, apiFrame, intakeVars
  <2> QED BY <2>1, SlotsStay DEF Inv
<1>2. ASSUME NEW m \in Messages, RemoveStart(m) PROVE Inv'
  <2>1. LockerOK' /\ QueueOK'
    BY <1>2, LockerStays, QueueStays DEF RemoveStart, apiFrame, intakeVars, Inv, QueueOK
  <2>2. TasksOK'
    BY <1>2 DEF RemoveStart, apiFrame, intakeVars, Inv, TasksOK, QueueOK
  <2> QED BY <1>1, <2>1, <2>2 DEF Inv
<1>3. ASSUME NEW m \in Messages, SendNow(m) PROVE Inv'
  <2>1. LockerOK' /\ TasksOK'
    BY <1>3, LockerStays, TasksStay DEF SendNow, apiFrame, intakeVars, Inv
  <2>2. now \in Nat
    BY DEF Inv, LockerOK, L!TypeOK
  <2>3. DOMAIN docs' = DOMAIN docs /\ docs' \in [DOMAIN docs -> Entry]
    BY <1>3, <2>2 DEF SendNow, Inv, QueueOK, Entry
  <2>4. QueueOK'
    BY <1>3, <2>3, QueueUpdated DEF SendNow, apiFrame, intakeVars, Inv, QueueOK
  <2> QED BY <1>1, <2>1, <2>4 DEF Inv
<1>4. ASSUME NEW d \in Deliveries, RemoveNext(d) PROVE Inv'
  <2>1. LockerOK'
    <3>1. L!Next \/ UNCHANGED <<now, lockerVars>>
      BY <1>4 DEF RemoveNext, L!Next
    <3> QED BY <3>1, LockerKept, LockerStays DEF Inv
  <2>2. QueueOK'
    BY <1>4, QueueStays DEF RemoveNext, apiFrame, intakeVars, Inv, QueueOK
  <2>3. TasksOK'
    <3>1. d \in inserted /\ d # NoDelivery
      BY <1>4, QueueAssumption DEF RemoveNext, Inv, TasksOK
    <3> QED BY <1>4, <3>1 DEF RemoveNext, apiFrame, intakeVars, Inv, TasksOK
  <2> QED BY <1>1, <2>1, <2>2, <2>3 DEF Inv
<1>5. CASE RemoveDelete
  <2>1. LockerOK'
    BY <1>5, UnlockStep, LockerKept DEF RemoveDelete, Inv
  <2>2. QueueOK'
    <3>1. removal.entry \in Deliveries
      BY <1>5 DEF RemoveDelete, Inv, TasksOK, QueueOK
    <3> QED BY <1>5, <3>1, QueueShrinks, QueueStays
            DEF RemoveDelete, apiFrame, intakeVars, Inv, QueueOK
  <2>3. TasksOK'
    BY <1>5 DEF RemoveDelete, NextToRemove, apiFrame, intakeVars, Inv, TasksOK
  <2> QED BY <1>1, <2>1, <2>2, <2>3 DEF Inv
<1>6. CASE RemoveLook
  <2>1. LockerOK' /\ QueueOK'
    BY <1>6, LockerStays, QueueStays DEF RemoveLook, apiFrame, intakeVars, Inv, QueueOK
  <2>2. TasksOK'
    BY <1>6 DEF RemoveLook, NextToRemove, apiFrame, intakeVars, Inv, TasksOK
  <2> QED BY <1>1, <2>1, <2>2 DEF Inv
<1>8. CASE RemoveBody
  <2>1. LockerOK' /\ QueueOK'
    BY <1>8, LockerStays, QueueStays, SomeBodiesLeave
    DEF RemoveBody, DeleteBody, apiFrame, intakeVars, Inv, QueueOK
  <2>2. TasksOK'
    BY <1>8 DEF RemoveBody, NextToRemove, apiFrame, intakeVars, Inv, TasksOK
  <2> QED BY <1>1, <2>1, <2>2 DEF Inv
<1>7. CASE RemoveDone
  <2>1. LockerOK'
    <3>1. L!Next \/ UNCHANGED <<now, lockerVars>>
      BY <1>7 DEF RemoveDone, L!Next
    <3> QED BY <3>1, LockerKept, LockerStays DEF Inv
  <2>2. QueueOK'
    BY <1>7, QueueStays DEF RemoveDone, apiFrame, intakeVars, Inv, QueueOK
  <2>3. TasksOK'
    BY <1>7 DEF RemoveDone, IdleRemoval, apiFrame, intakeVars, Inv, TasksOK
  <2> QED BY <1>1, <2>1, <2>2, <2>3 DEF Inv
<1> QED BY <1>2, <1>3, <1>4, <1>5, <1>6, <1>7, <1>8 DEF Api

\* The garbage collector.
LEMMA GarbageStep ==
    ASSUME Inv, Garbage
    PROVE  Inv'
<1>1. LockerOK' /\ SlotsOK'
  <2>1. /\ UNCHANGED <<now, lockerVars, slot, inserted>>
        /\ ended \subseteq ended'
    BY DEF Garbage, GcGoesOn, GcUnlock, GcRead, GcDrop, GcLook, GcBody, GcOldest,
           GcClear, gcFrame, intakeVars
  <2> QED BY <2>1, LockerStays, SlotsStay DEF Inv
<1>2. CASE GcUnlock
  <2>1. DOMAIN docs' = DOMAIN docs /\ docs' \in [DOMAIN docs -> Entry]
    BY <1>2 DEF GcUnlock, Unlocked, Inv, QueueOK, Entry
  <2>2. QueueOK' /\ TasksOK'
    BY <1>2, <2>1, QueueUpdated, TasksStay
    DEF GcUnlock, gcFrame, intakeVars, Inv, QueueOK
  <2> QED BY <1>1, <2>2 DEF Inv
<1>3. ASSUME NEW d \in Deliveries, GcRead(d) PROVE Inv'
  <2>1. QueueOK'
    BY <1>3, QueueStays DEF GcRead, gcFrame, intakeVars, Inv, QueueOK
  <2>2. TasksOK'
    BY <1>3, QueueAssumption DEF GcRead, gcFrame, intakeVars, Inv, TasksOK, QueueOK
  <2> QED BY <1>1, <2>1, <2>2 DEF Inv
<1>4. CASE GcDrop
  <2>1. QueueOK'
    <3>1. gc.entry \in Deliveries
      BY <1>4 DEF GcDrop, Inv, TasksOK, QueueOK
    <3> QED BY <1>4, <3>1, QueueShrinks, QueueStays
            DEF GcDrop, gcFrame, intakeVars, Inv, QueueOK
  <2>2. TasksOK'
    BY <1>4 DEF GcDrop, IdleGc, gcFrame, intakeVars, Inv, TasksOK
  <2> QED BY <1>1, <2>1, <2>2 DEF Inv
<1>5. CASE GcLook
  <2>1. QueueOK'
    BY <1>5, QueueStays DEF GcLook, gcFrame, intakeVars, Inv, QueueOK
  <2>2. TasksOK'
    BY <1>5 DEF GcLook, IdleGc, gcFrame, intakeVars, Inv, TasksOK
  <2> QED BY <1>1, <2>1, <2>2 DEF Inv
<1>6. CASE GcBody
  <2>1. QueueOK'
    BY <1>6, QueueStays, SomeBodiesLeave
    DEF GcBody, DeleteBody, gcFrame, intakeVars, Inv, QueueOK
  <2>2. TasksOK'
    BY <1>6 DEF GcBody, IdleGc, gcFrame, intakeVars, Inv, TasksOK
  <2> QED BY <1>1, <2>1, <2>2 DEF Inv
<1>7. CASE GcOldest
  <2>1. QueueOK'
    BY <1>7, QueueStays DEF GcOldest, gcFrame, intakeVars, Inv, QueueOK
  <2>2. TasksOK'
    BY <1>7 DEF GcOldest, gcFrame, intakeVars, Inv, TasksOK
  <2> QED BY <1>1, <2>1, <2>2 DEF Inv
<1>8. CASE GcClear
  <2>1. QueueOK'
    BY <1>8, QueueStays, SomeBodiesLeave DEF GcClear, gcFrame, intakeVars, Inv, QueueOK
  <2>2. TasksOK'
    BY <1>8 DEF GcClear, IdleGc, gcFrame, intakeVars, Inv, TasksOK
  <2> QED BY <1>1, <2>1, <2>2 DEF Inv
<1> QED BY <1>2, <1>3, <1>4, <1>5, <1>6, <1>7, <1>8 DEF Garbage, GcGoesOn

\* Locks that are over, and the clock.
LEMMA TimeStep ==
    ASSUME Inv, LocksExpire \/ Tick \/ UNCHANGED vars
    PROVE  Inv'
<1>1. [L!Next]_(L!vars)
  BY DEF LocksExpire, Tick, L!Tick, L!Next, vars, L!vars, lockerVars, L!lockerVars
<1>2. UNCHANGED <<docs, body, intakeVars, client, slot, emptyUntil, removal, gc, ended>>
  BY DEF LocksExpire, Tick, vars
<1>3. LockerOK'
  BY <1>1, LockerKept DEF Inv
<1>4. QueueOK' /\ SlotsOK' /\ TasksOK'
  BY <1>2, QueueStays, SlotsStay, TasksStay DEF intakeVars, Inv, QueueOK
<1> QED BY <1>3, <1>4 DEF Inv

LEMMA InvStep ==
    ASSUME Inv, [Next]_vars
    PROVE  Inv'
<1>1. ASSUME NEW m \in Messages,
             \/ Store(m)
             \/ \E D \in SUBSET EntriesOf(m) : Insert(m, D)
             \/ PushDone(m)
             \/ PushFails(m)
             \/ PushUndone(m)
      PROVE  Inv'
  BY <1>1, IntakeStep
<1>2. ASSUME NEW s \in Slots, Get(s) PROVE Inv'
  BY <1>2, FindStep, GetStep DEF Get
<1>3. ASSUME NEW s \in Slots, Report(s) PROVE Inv'
  BY <1>3, ReportStep
<1>4. CASE (\E c \in Clients : Connect(c) \/ Close(c)) \/ Restart
  BY <1>4, ProcessStep
<1>5. CASE Api
  BY <1>5, ApiStep
<1>6. CASE Garbage
  BY <1>6, GarbageStep
<1>7. CASE LocksExpire \/ Tick \/ UNCHANGED vars
  BY <1>7, TimeStep
<1> QED BY <1>1, <1>2, <1>3, <1>4, <1>5, <1>6, <1>7 DEF Next, Intake

LEMMA InvHolds == Spec => []Inv
<1>1. Inv /\ [Next]_vars => Inv'
  BY InvStep
<1> QED BY <1>1, InvInit, PTL DEF Spec

\* Every variable of the queue of lib/mail-queue.js keeps its shape.
THEOREM TypeCorrect == Spec => []TypeOK
<1> QED BY InvHolds, InvIsTyped, PTL

\* The locks of the queue, their indexes, their timer and the skip list stay
\* what is proved of them in QueueLockerProofs, whoever gives up which lock by
\* name, and over a restart of the master.
THEOREM LocksOfTheQueue == Spec => []LockerOK
<1>1. Inv => LockerOK
  BY DEF Inv
<1> QED BY <1>1, InvHolds, PTL

(***************************************************************************)
(* The lock of an entry in the database.  From the moment it is found until*)
(* the slot lets go of it an entry is locked there, for a time that is not *)
(* over: that, and not the locks in memory, keeps it from being found      *)
(* twice.  The garbage collector undoes older locks only, GcAge being more *)
(* than LockTtl, provided that every sender reports before its lock is over.*)
(***************************************************************************)
HoldPcs == {"found", "meta", "orphan", "check", "drop", "sending", "done",
            "deferring", "release", "defer"}

Holds(s) == slot[s].pc \in HoldPcs

LockOK ==
    /\ \A s \in Slots : Holds(s) /\ slot[s].entry \in DOMAIN docs =>
          /\ docs[slot[s].entry].locked
          /\ now < docs[slot[s].entry].lockTime + LockTtl
    /\ \A s, t \in Slots :
          Holds(s) /\ Holds(t) /\ slot[s].entry = slot[t].entry => s = t

\* No slot gets an entry in this step.
NoneFound ==
    \A s \in Slots : Holds(s)' => Holds(s) /\ slot'[s].entry = slot[s].entry

LEMMA LockKept ==
    ASSUME LockOK, NoneFound, UNCHANGED now,
           \A s \in Slots : Holds(s)' /\ slot'[s].entry \in DOMAIN docs' =>
               /\ slot[s].entry \in DOMAIN docs
               /\ docs[slot[s].entry].locked => docs'[slot[s].entry].locked
               /\ docs'[slot[s].entry].lockTime = docs[slot[s].entry].lockTime
    PROVE  LockOK'
<1>1. ASSUME NEW s \in Slots, Holds(s)', slot'[s].entry \in DOMAIN docs'
      PROVE  /\ docs'[slot'[s].entry].locked
             /\ now' < docs'[slot'[s].entry].lockTime + LockTtl
  BY <1>1 DEF LockOK, NoneFound
<1>2. ASSUME NEW s \in Slots, NEW t \in Slots, Holds(s)', Holds(t)',
             slot'[s].entry = slot'[t].entry
      PROVE  s = t
  BY <1>2 DEF LockOK, NoneFound
<1> QED BY <1>1, <1>2 DEF LockOK

\* One slot moves, and keeps its entry or lets go of it.
LEMMA SlotLetsGo ==
    ASSUME SlotsOK, NEW s \in Slots, NEW v, slot' = [slot EXCEPT ![s] = v],
           v.pc \in HoldPcs => Holds(s) /\ v.entry = slot[s].entry
    PROVE  NoneFound
<1>1. slot'[s] = v /\ \A t \in Slots : t # s => slot'[t] = slot[t]
  BY DEF SlotsOK
<1> QED BY <1>1 DEF NoneFound, Holds

LEMMA GotoLetsGo ==
    ASSUME SlotsOK, NEW s \in Slots, NEW pc, Goto(s, pc), pc \in HoldPcs => Holds(s)
    PROVE  NoneFound
<1> DEFINE v == [slot[s] EXCEPT !.pc = pc]
<1>1. GoodSlot(slot[s], inserted, ended)
  BY DEF SlotsOK
<1>2. slot' = [slot EXCEPT ![s] = v]
  BY DEF Goto
<1>3. v.pc = pc /\ v.entry = slot[s].entry
  BY <1>1 DEF GoodSlot
<1> HIDE DEF v
<1> QED BY <1>2, <1>3, SlotLetsGo

LEMMA IdleLetsGo ==
    ASSUME SlotsOK, NEW s \in Slots, ToIdle(s)
    PROVE  NoneFound
<1>1. IdleSlot.pc \notin HoldPcs
  BY DEF IdleSlot, HoldPcs
<1> QED BY <1>1, SlotLetsGo DEF ToIdle

LEMMA FindAgainLetsGo ==
    ASSUME SlotsOK, NEW s \in Slots, FindAgain(s)
    PROVE  NoneFound
<1> DEFINE v == [slot[s] EXCEPT !.pc = "find", !.entry = NoDelivery]
<1>1. GoodSlot(slot[s], inserted, ended)
  BY DEF SlotsOK
<1>2. slot' = [slot EXCEPT ![s] = v]
  BY DEF FindAgain
<1>3. v.pc \notin HoldPcs
  BY <1>1 DEF GoodSlot, HoldPcs
<1> HIDE DEF v
<1> QED BY <1>2, <1>3, SlotLetsGo

LEMMA NoSlotMoves ==
    ASSUME UNCHANGED slot
    PROVE  NoneFound
BY DEF NoneFound, Holds

\* Entries that are left in the database as they are keep their locks.
LEMMA EntriesLeave ==
    ASSUME LockOK, NoneFound, UNCHANGED now, NEW D, docs' = DocsWithout(D)
    PROVE  LockOK'
<1>1. \A s \in Slots : Holds(s)' /\ slot'[s].entry \in DOMAIN docs' =>
          /\ slot[s].entry \in DOMAIN docs
          /\ docs'[slot[s].entry] = docs[slot[s].entry]
  BY DEF DocsWithout, NoneFound
<1> QED BY <1>1, LockKept

LEMMA EntriesStay ==
    ASSUME LockOK, NoneFound, UNCHANGED <<now, docs>>
    PROVE  LockOK'
<1>1. \A s \in Slots : Holds(s)' /\ slot'[s].entry \in DOMAIN docs' =>
          /\ slot[s].entry \in DOMAIN docs
          /\ docs'[slot[s].entry] = docs[slot[s].entry]
  BY DEF NoneFound
<1> QED BY <1>1, LockKept

\* The locks in memory change without the clock.
LEMMA UnlockNow ==
    ASSUME NEW d, Unlock(d)
    PROVE  UNCHANGED now
BY DEF Unlock, L!Release

LEMMA LockIntake ==
    ASSUME Inv, LockOK, Intake
    PROVE  LockOK'
<1>1. UNCHANGED <<now, slot>>
  BY DEF Intake, Store, Insert, PushDone, PushFails, PushUndone
<1>2. NoneFound
  BY <1>1, NoSlotMoves
<1>3. \A d \in inserted : d \in DOMAIN docs' => d \in DOMAIN docs /\ docs'[d] = docs[d]
  BY DEF Intake, Store, Insert, PushDone, PushFails, PushUndone
<1>4. \A s \in Slots : Holds(s) => slot[s].entry \in inserted
  BY DEF Holds, HoldPcs, Inv, SlotsOK, GoodSlot
<1>5. \A s \in Slots : Holds(s)' /\ slot'[s].entry \in DOMAIN docs' =>
          /\ slot[s].entry \in DOMAIN docs
          /\ docs'[slot[s].entry] = docs[slot[s].entry]
  BY <1>2, <1>3, <1>4 DEF NoneFound
<1> QED BY <1>1, <1>2, <1>5, LockKept

\* An entry that is found is not locked in the database, so nobody holds it.
LEMMA LockFind ==
    ASSUME Inv, LockOK, NEW s \in Slots, NEW d \in Deliveries, Find(s, d)
    PROVE  LockOK'
<1>1. /\ d \in DOMAIN docs /\ ~docs[d].locked
      /\ DOMAIN docs' = DOMAIN docs
      /\ \A e \in DOMAIN docs : e # d => docs'[e] = docs[e]
      /\ UNCHANGED now
  BY DEF Find, Findable, MarkLocked
<1>2. docs'[d].locked /\ docs'[d].lockTime = now
  <2>1. docs[d] \in Entry /\ d \in DOMAIN docs
    BY <1>1 DEF Inv, QueueOK
  <2>2. MarkLocked(d)
    BY DEF Find
  <2>3. docs'[d] = [docs[d] EXCEPT !.locked = TRUE, !.lockTime = now]
    BY <2>1, <2>2 DEF MarkLocked
  <2> QED BY <2>1, <2>3 DEF Entry
<1>3. /\ slot'[s].entry = d
      /\ \A t \in Slots : t # s => slot'[t] = slot[t]
  BY DEF Find, Inv, SlotsOK, GoodSlot
<1>4. \A t \in Slots : Holds(t) => slot[t].entry # d
  BY <1>1 DEF LockOK
<1>5. now < now + LockTtl
  BY QueueAssumption DEF Inv, LockerOK, L!TypeOK
<1>6. ASSUME NEW t \in Slots, Holds(t)', slot'[t].entry \in DOMAIN docs'
      PROVE  /\ docs'[slot'[t].entry].locked
             /\ now' < docs'[slot'[t].entry].lockTime + LockTtl
  <2>1. CASE t = s
    BY <1>1, <1>2, <1>3, <1>5, <2>1
  <2>2. CASE t # s
    BY <1>1, <1>3, <1>4, <1>6, <2>2 DEF Holds, LockOK
  <2> QED BY <2>1, <2>2
<1>7. ASSUME NEW t \in Slots, NEW u \in Slots, Holds(t)', Holds(u)',
             slot'[t].entry = slot'[u].entry
      PROVE  t = u
  <2>1. \A w \in Slots : w # s /\ Holds(w)' => Holds(w) /\ slot'[w].entry # d
    BY <1>3, <1>4 DEF Holds
  <2> QED BY <1>3, <1>7, <2>1 DEF LockOK
<1> QED BY <1>6, <1>7 DEF LockOK

LEMMA LockFindFails ==
    ASSUME Inv, LockOK, NEW s \in Slots, FindFails(s)
    PROVE  LockOK'
<1>1. NoneFound /\ UNCHANGED now
  BY IdleLetsGo DEF FindFails, Inv
<1>2. CASE UNCHANGED docs
  BY <1>1, <1>2, EntriesStay
<1>3. ASSUME NEW d \in Findable(s), MarkLocked(d)
      PROVE  LockOK'
  <2>1. /\ d \in DOMAIN docs /\ ~docs[d].locked
        /\ DOMAIN docs' = DOMAIN docs
        /\ \A e \in DOMAIN docs : e # d => docs'[e] = docs[e]
    BY <1>3 DEF Findable, MarkLocked
  <2>2. \A t \in Slots : Holds(t) => slot[t].entry # d
    BY <2>1 DEF LockOK
  <2>3. \A t \in Slots : Holds(t)' /\ slot'[t].entry \in DOMAIN docs' =>
            /\ slot[t].entry \in DOMAIN docs
            /\ docs'[slot[t].entry] = docs[slot[t].entry]
    BY <1>1, <2>1, <2>2 DEF NoneFound
  <2> QED BY <1>1, <2>3, LockKept
<1> QED BY <1>2, <1>3 DEF FindFails

LEMMA LockGet ==
    ASSUME Inv, LockOK, NEW s \in Slots, Get(s)
    PROVE  LockOK'
<1>1. CASE Shift(s)
  <2> DEFINE v == [pc |-> "find", entry |-> NoDelivery, asked |-> now,
                   skip |-> L!SkipDomains(Zone)]
  <2>1. slot' = [slot EXCEPT ![s] = v] /\ v.pc \notin HoldPcs
    BY <1>1 DEF Shift, HoldPcs
  <2>2. UNCHANGED <<now, docs>>
    BY <1>1 DEF Shift, L!ListSkipDomains
  <2> HIDE DEF v
  <2> QED BY <2>1, <2>2, SlotLetsGo, EntriesStay DEF Inv
<1>2. CASE \E d \in Deliveries : Find(s, d)
  BY <1>2, LockFind
<1>3. CASE FindNothing(s)
  BY <1>3, IdleLetsGo, EntriesStay DEF FindNothing, Inv
<1>4. CASE FindFails(s)
  BY <1>4, LockFindFails
<1>5. CASE LockFound(s)
  <2>1. UNCHANGED <<now, docs>>
    BY <1>5 DEF LockFound, L!Lock
  <2>2. NoneFound
    BY <1>5, GotoLetsGo, FindAgainLetsGo DEF LockFound, Holds, HoldPcs, Inv
  <2> QED BY <2>1, <2>2, EntriesStay
<1>6. CASE ReadMeta(s)
  <2>1. UNCHANGED <<now, docs>>
    BY <1>6 DEF ReadMeta
  <2>2. NoneFound
    BY <1>6, GotoLetsGo DEF ReadMeta, Holds, HoldPcs, Inv
  <2> QED BY <2>1, <2>2, EntriesStay
<1>7. CASE ReadMetaFails(s) \/ DropFails(s)
  BY <1>7, UnlockNow, IdleLetsGo, EntriesStay DEF ReadMetaFails, DropFails, Inv
<1>8. CASE DropOrphans(s)
  BY <1>8, UnlockNow, FindAgainLetsGo, EntriesLeave, EntriesStay DEF DropOrphans, Inv
<1>9. CASE Suppress(s)
  <2>1. UNCHANGED <<now, docs>>
    BY <1>9 DEF Suppress
  <2>2. NoneFound
    BY <1>9, GotoLetsGo DEF Suppress, Holds, HoldPcs, Inv
  <2> QED BY <2>1, <2>2, EntriesStay
<1>10. CASE Respond(s)
  <2>1. UNCHANGED <<now, docs>>
    BY <1>10 DEF Respond
  <2>2. CASE Connected(s)
    <3> DEFINE v == [slot[s] EXCEPT !.pc = "sending", !.asked = 0, !.skip = {}]
    <3>1. slot' = [slot EXCEPT ![s] = v]
      BY <1>10, <2>2 DEF Respond
    <3>2. v.entry = slot[s].entry /\ Holds(s)
      BY <1>10, SlotEntry DEF Respond, GoodSlot, Holds, HoldPcs
    <3> HIDE DEF v
    <3> QED BY <2>1, <3>1, <3>2, SlotLetsGo, EntriesStay DEF Inv
  <2>3. CASE ~Connected(s)
    BY <1>10, <2>1, <2>3, IdleLetsGo, EntriesStay DEF Respond, Inv
  <2> QED BY <2>2, <2>3
<1> QED BY <1>1, <1>2, <1>3, <1>4, <1>5, <1>6, <1>7, <1>8, <1>9, <1>10 DEF Get

\* A slot that defers its entry is the only one that holds it.
LEMMA LockDefer ==
    ASSUME Inv, LockOK, NEW s \in Slots, DeferEntry(s)
    PROVE  LockOK'
<1> DEFINE d == slot[s].entry
<1>1. NoneFound /\ UNCHANGED now
  BY GotoLetsGo DEF DeferEntry, HoldPcs, Inv
<1>2. Holds(s) /\ ~Holds(s)'
  BY DEF DeferEntry, Goto, Holds, HoldPcs, Inv, SlotsOK, GoodSlot
<1>3. \A t \in Slots : Holds(t)' => slot[t].entry # d
  BY <1>1, <1>2 DEF NoneFound, LockOK
<1>4. /\ DOMAIN docs' = DOMAIN docs
      /\ \A e \in DOMAIN docs : e # d => docs'[e] = docs[e]
  BY DEF DeferEntry
<1>5. \A t \in Slots : Holds(t)' /\ slot'[t].entry \in DOMAIN docs' =>
          /\ slot[t].entry \in DOMAIN docs
          /\ docs'[slot[t].entry] = docs[slot[t].entry]
  BY <1>1, <1>3, <1>4 DEF NoneFound
<1> QED BY <1>1, <1>5, LockKept

LEMMA LockReport ==
    ASSUME Inv, LockOK, NEW s \in Slots, Report(s)
    PROVE  LockOK'
<1>1. CASE SendDone(s)
  BY <1>1, GotoLetsGo, EntriesStay DEF SendDone, Holds, HoldPcs, Inv
<1>2. CASE SendFails(s)
  BY <1>2, GotoLetsGo, EntriesStay DEF SendFails, Holds, HoldPcs, Inv
<1>3. CASE LookUp(s)
  BY <1>3, GotoLetsGo, IdleLetsGo, EntriesStay DEF LookUp, Holds, HoldPcs, Inv
<1>4. CASE DeleteEntry(s)
  BY <1>4, UnlockNow, GotoLetsGo, EntriesLeave DEF DeleteEntry, HoldPcs, Inv
<1>5. CASE LookForOthers(s) \/ DropBody(s)
  <2>1. CASE EntryDone(s)
    BY <1>5, <2>1, IdleLetsGo, FindAgainLetsGo, EntriesStay
    DEF LookForOthers, DropBody, EntryDone, Inv
  <2>2. CASE ~EntryDone(s)
    BY <1>5, <2>2, GotoLetsGo, EntriesStay DEF LookForOthers, DropBody, HoldPcs, Inv
  <2> QED BY <2>1, <2>2
<1>6. CASE DeferEntry(s)
  BY <1>6, LockDefer
<1>7. CASE DeferDone(s)
  BY <1>7, UnlockNow, IdleLetsGo, EntriesStay DEF DeferDone, Inv
<1>8. CASE CommandFails(s)
  BY <1>8, UnlockNow, IdleLetsGo, EntriesStay DEF CommandFails, Inv
<1> QED BY <1>1, <1>2, <1>3, <1>4, <1>5, <1>6, <1>7, <1>8 DEF Report

LEMMA LockProcess ==
    ASSUME Inv, LockOK, (\E c \in Clients : Connect(c) \/ Close(c)) \/ Restart
    PROVE  LockOK'
<1>1. IdleSlot.pc \notin HoldPcs
  BY DEF IdleSlot, HoldPcs
<1>2. ASSUME NEW c \in Clients, Connect(c) PROVE LockOK'
  BY <1>2, NoSlotMoves, EntriesStay DEF Connect
<1>3. ASSUME NEW c \in Clients, Close(c) PROVE LockOK'
  <2>1. UNCHANGED <<now, docs>>
    BY <1>3 DEF Close, L!ReleaseLockOwner
  <2>2. \A s \in Slots : slot'[s] \in {slot[s], IdleSlot}
    BY <1>3 DEF Close
  <2>3. NoneFound
    BY <1>1, <2>2 DEF NoneFound, Holds
  <2> QED BY <2>1, <2>3, EntriesStay
<1>4. CASE Restart
  <2>1. \A s \in Slots : ~Holds(s)'
    BY <1>1, <1>4 DEF Restart, Holds
  <2> QED BY <2>1 DEF LockOK
<1> QED BY <1>2, <1>3, <1>4

LEMMA LockApi ==
    ASSUME Inv, LockOK, Api
    PROVE  LockOK'
<1>1. NoneFound
  BY NoSlotMoves DEF Api, RemoveStart, SendNow, RemoveNext, RemoveDelete, RemoveLook,
     RemoveBody, RemoveDone, NextToRemove, apiFrame
<1>2. UNCHANGED now
  BY UnlockNow DEF Api, RemoveStart, SendNow, RemoveNext, RemoveDelete, RemoveLook,
     RemoveBody, RemoveDone, L!Lock, L!ReleaseLockOwner
<1>3. CASE UNCHANGED docs
  BY <1>1, <1>2, <1>3, EntriesStay
<1>4. CASE docs' = DocsWithout({removal.entry})
  BY <1>1, <1>2, <1>4, EntriesLeave
<1>5. ASSUME NEW m \in Messages, SendNow(m) PROVE LockOK'
  <2>1. DOMAIN docs' = DOMAIN docs
    BY <1>5 DEF SendNow
  <2>2. ASSUME NEW d \in DOMAIN docs
        PROVE  docs'[d].locked = docs[d].locked /\ docs'[d].lockTime = docs[d].lockTime
    <3>1. docs[d] \in Entry
      BY DEF Inv, QueueOK
    <3>2. docs'[d] \in {docs[d], [docs[d] EXCEPT !.queued = now]}
      BY <1>5 DEF SendNow
    <3> QED BY <3>1, <3>2 DEF Entry
  <2> QED BY <1>1, <1>2, <2>1, <2>2, LockKept DEF NoneFound
<1> QED BY <1>3, <1>4, <1>5 DEF Api, RemoveStart, RemoveNext, RemoveDelete, RemoveLook,
                                RemoveBody, RemoveDone

LEMMA LockGarbage ==
    ASSUME Inv, LockOK, Garbage
    PROVE  LockOK'
<1>1. NoneFound /\ UNCHANGED now
  BY NoSlotMoves DEF Garbage, GcGoesOn, GcUnlock, GcRead, GcDrop, GcLook, GcBody,
     GcOldest, GcClear, gcFrame
<1>2. CASE UNCHANGED docs
  BY <1>1, <1>2, EntriesStay
<1>3. CASE docs' = DocsWithout({gc.entry})
  BY <1>1, <1>3, EntriesLeave
<1>4. CASE GcUnlock
  <2>1. ASSUME NEW s \in Slots, Holds(s), slot[s].entry \in DOMAIN docs
        PROVE  slot[s].entry \notin Stale
    <3>1. now < docs[slot[s].entry].lockTime + LockTtl
      BY <2>1 DEF LockOK
    <3>2. docs[slot[s].entry].lockTime \in Nat /\ now \in Nat
      BY <2>1 DEF Inv, QueueOK, Entry, LockerOK, L!TypeOK
    <3> QED BY <3>1, <3>2, QueueAssumption DEF Stale
  <2>2. /\ DOMAIN docs' = DOMAIN docs
        /\ \A d \in DOMAIN docs : d \notin Stale => docs'[d] = docs[d]
    BY <1>4 DEF GcUnlock
  <2>3. \A s \in Slots : Holds(s)' /\ slot'[s].entry \in DOMAIN docs' =>
            /\ slot[s].entry \in DOMAIN docs
            /\ docs'[slot[s].entry] = docs[slot[s].entry]
    BY <1>1, <2>1, <2>2 DEF NoneFound
  <2> QED BY <1>1, <2>3, LockKept
<1> QED BY <1>2, <1>3, <1>4 DEF Garbage, GcGoesOn, GcRead, GcDrop, GcLook, GcBody,
                                GcOldest, GcClear

LEMMA LockTime ==
    ASSUME TimelySenders, Inv, LockOK, LocksExpire \/ Tick \/ UNCHANGED vars
    PROVE  LockOK'
<1>1. UNCHANGED <<docs, slot>> /\ NoneFound
  BY NoSlotMoves DEF LocksExpire, Tick, vars
<1>2. CASE UNCHANGED now
  BY <1>1, <1>2, EntriesStay
<1>3. CASE Tick
  <2>1. ASSUME NEW s \in Slots, Holds(s), slot[s].entry \in DOMAIN docs
        PROVE  now + 1 < docs[slot[s].entry].lockTime + LockTtl
    <3>1. ~Late(s) /\ docs[slot[s].entry].locked
      BY <1>3, <2>1 DEF Tick, LockOK
    <3>2. docs[slot[s].entry].lockTime + LockTtl \in Nat /\ now \in Nat
      BY <2>1, QueueAssumption DEF Inv, QueueOK, Entry, LockerOK, L!TypeOK
    <3> QED BY <2>1, <3>1, <3>2 DEF Late
  <2>2. now' = now + 1
    BY <1>3 DEF Tick
  <2> QED BY <1>1, <2>1, <2>2 DEF LockOK, Holds
<1> QED BY <1>2, <1>3 DEF LocksExpire, L!CheckExpired, vars

LEMMA LockHolds ==
    ASSUME TimelySenders
    PROVE  Spec => []LockOK
<1>1. Init => LockOK
  BY DEF Init, IdleSlot, LockOK, Holds, HoldPcs
<1>2. Inv /\ LockOK /\ [Next]_vars => LockOK'
  BY LockIntake, LockGet, LockReport, LockProcess, LockApi, LockGarbage, LockTime DEF Next
<1> QED BY <1>1, <1>2, InvHolds, PTL DEF Spec

\* No two senders work on the same delivery, when every sender reports before
\* the hour of its lock is over: neither a lost connection, whose locks in
\* memory are given up, nor a failed command or a restart gives an entry away
\* that somebody still sends.
THEOREM OneSenderHolds ==
    ASSUME TimelySenders
    PROVE  Spec => []OneSender
<1>1. LockOK => OneSender
  BY DEF LockOK, OneSender, Working, SenderPcs, Holds, HoldPcs
<1> QED BY <1>1, LockHolds, PTL

\* Under the same condition what is being sent stays locked in the database.
THEOREM SentIsLockedHolds ==
    ASSUME TimelySenders
    PROVE  Spec => []SentIsLocked
<1>1. LockOK => SentIsLocked
  BY DEF LockOK, SentIsLocked, Working, SenderPcs, Holds, HoldPcs
<1> QED BY <1>1, LockHolds, PTL

(***************************************************************************)
(* The age of bodies.  When messages are queued in time, every entry is    *)
(* younger than its body by less than the margin.  So a body that is older *)
(* than the oldest entry by the margin has no entry, whatever has been     *)
(* added between the look for that entry and the deletion.                 *)
(***************************************************************************)
TimeOK ==
    /\ \A m \in Messages : stage[m] = "stored" /\ m \in DOMAIN body =>
          now < body[m] + Margin
    /\ \A d \in DOMAIN docs : docs[d].created <= now
    /\ \A d \in DOMAIN docs : MsgOf[d] \in DOMAIN body =>
          docs[d].created < body[MsgOf[d]] + Margin
    /\ gc.pc = "clear" =>
          /\ gc.until + Margin <= now
          /\ \A d \in DOMAIN docs : gc.until + Margin <= docs[d].created
          /\ \A m \in Messages : stage[m] = "stored" /\ m \in DOMAIN body =>
                gc.until < body[m]

\* No entry is added.
NoneCreated ==
    \A d \in DOMAIN docs' : d \in DOMAIN docs /\ docs'[d].created = docs[d].created

LEMMA TimeKept ==
    ASSUME TimeOK, NoneCreated, UNCHANGED body \/ BodiesLeave, UNCHANGED now,
           \A m \in Messages : stage'[m] = "stored" => stage[m] = "stored",
           gc'.pc = "clear" => gc' = gc
    PROVE  TimeOK'
<1>1. \A m \in DOMAIN body' : m \in DOMAIN body /\ body'[m] = body[m]
  BY DEF BodiesLeave
<1> QED BY <1>1 DEF TimeOK, NoneCreated

\* What a step may do to the entries.
LEMMA CreatedStays ==
    ASSUME Inv, \/ UNCHANGED docs
                \/ \E D : docs' = DocsWithout(D)
                \/ \E d \in DOMAIN docs : MarkLocked(d)
    PROVE  NoneCreated
<1>1. \A d \in DOMAIN docs : docs[d] \in Entry
  BY DEF Inv, QueueOK
<1>2. ASSUME NEW d \in DOMAIN docs, MarkLocked(d) PROVE NoneCreated
  <2>1. /\ DOMAIN docs' = DOMAIN docs
        /\ \A e \in DOMAIN docs : e # d => docs'[e] = docs[e]
    BY <1>2 DEF MarkLocked
  <2>2. docs'[d] = [docs[d] EXCEPT !.locked = TRUE, !.lockTime = now]
    BY <1>1, <1>2 DEF MarkLocked
  <2>3. docs'[d].created = docs[d].created
    BY <1>1, <2>2 DEF Entry
  <2> QED BY <2>1, <2>3 DEF NoneCreated
<1>3. CASE UNCHANGED docs
  BY <1>3 DEF NoneCreated
<1>4. CASE \E D : docs' = DocsWithout(D)
  BY <1>4 DEF NoneCreated, DocsWithout
<1> QED BY <1>2, <1>3, <1>4

LEMMA TimeIntake ==
    ASSUME Inv, TimeOK, Intake
    PROVE  TimeOK'
<1>1. now \in Nat /\ Margin \in Nat \ {0} /\ \A n \in DOMAIN body : body[n] \in Nat
  BY QueueAssumption DEF Inv, LockerOK, L!TypeOK, QueueOK
<1>2. UNCHANGED <<now, gc>> /\ (gc.pc = "clear" => gc.until \in Nat)
  BY DEF Intake, Store, Insert, PushDone, PushFails, PushUndone, Inv, TasksOK
<1>3. ASSUME NEW m \in Messages, Store(m) PROVE TimeOK'
  <2>1. /\ stage[m] = "new" /\ UNCHANGED docs
        /\ \A n \in Messages : n # m => stage'[n] = stage[n]
        /\ DOMAIN body' = DOMAIN body \cup {m} /\ body'[m] = now
        /\ \A n \in DOMAIN body : n # m => body'[n] = body[n]
    BY <1>3 DEF Store, Inv, QueueOK
  <2>2. \A d \in DOMAIN docs : MsgOf[d] # m
    BY <2>1 DEF Inv, QueueOK
  <2>3. now < now + Margin
    BY <1>1
  <2>4. gc.pc = "clear" => gc.until < now
    BY <1>1, <1>2 DEF TimeOK
  <2>5. ASSUME NEW n \in Messages, stage'[n] = "stored", n \in DOMAIN body'
        PROVE  now' < body'[n] + Margin /\ (gc'.pc = "clear" => gc'.until < body'[n])
    BY <1>2, <2>1, <2>3, <2>4, <2>5 DEF TimeOK
  <2>6. \A d \in DOMAIN docs' : MsgOf[d] \in DOMAIN body' =>
           docs'[d].created < body'[MsgOf[d]] + Margin
    BY <2>1, <2>2 DEF TimeOK
  <2>7. gc'.pc = "clear" => \A d \in DOMAIN docs' : gc'.until + Margin <= docs'[d].created
    BY <1>2, <2>1 DEF TimeOK
  <2> QED BY <1>2, <2>1, <2>5, <2>6, <2>7 DEF TimeOK
<1>4. ASSUME NEW m \in Messages, NEW D \in SUBSET EntriesOf(m), Insert(m, D)
      PROVE  TimeOK'
  <2>1. /\ stage[m] = "stored" /\ UNCHANGED <<body, stage>>
        /\ \A d \in DOMAIN docs' :
              \/ d \in D /\ docs'[d] = NewEntry
              \/ d \in DOMAIN docs /\ docs'[d] = docs[d]
    BY <1>4 DEF Insert
  <2>2. NewEntry.created = now /\ \A d \in D : MsgOf[d] = m
    BY DEF NewEntry, EntriesOf
  <2>3. \A d \in DOMAIN docs' : MsgOf[d] \in DOMAIN body' =>
           docs'[d].created < body'[MsgOf[d]] + Margin
    BY <2>1, <2>2 DEF TimeOK
  <2>4. gc.pc = "clear" => \A d \in DOMAIN docs' : gc.until + Margin <= docs'[d].created
    BY <2>1, <2>2 DEF TimeOK
  <2>5. \A d \in DOMAIN docs' : docs'[d].created <= now
    BY <1>1, <2>1, <2>2 DEF TimeOK
  <2> QED BY <1>2, <2>1, <2>3, <2>4, <2>5 DEF TimeOK
<1>5. ASSUME NEW m \in Messages, PushDone(m) \/ PushFails(m) \/ PushUndone(m)
      PROVE  TimeOK'
  <2>1. UNCHANGED docs /\ \A n \in Messages : stage'[n] = "stored" => stage[n] = "stored"
    BY <1>5 DEF PushDone, PushFails, PushUndone, Inv, QueueOK
  <2>2. UNCHANGED body \/ BodiesLeave
    BY <1>5, SomeBodiesLeave DEF PushDone, PushFails, PushUndone, DeleteBody, Inv
  <2>3. NoneCreated
    BY <2>1, CreatedStays
  <2> QED BY <1>2, <2>1, <2>2, <2>3, TimeKept
<1> QED BY <1>3, <1>4, <1>5 DEF Intake

LEMMA TimeGet ==
    ASSUME Inv, TimeOK, NEW s \in Slots, Get(s)
    PROVE  TimeOK'
<1>1. UNCHANGED <<body, stage, gc>>
  BY DEF Get, Shift, Find, FindNothing, FindFails, LockFound, ReadMeta, ReadMetaFails,
     DropOrphans, Suppress, Respond, DropFails, restVars, intakeVars
<1>2. UNCHANGED now
  BY UnlockNow DEF Get, Shift, Find, FindNothing, FindFails, LockFound, ReadMeta,
     ReadMetaFails, DropOrphans, Suppress, Respond, DropFails, L!ListSkipDomains, L!Lock
<1>3. NoneCreated
  BY CreatedStays DEF Get, Shift, Find, Findable, FindNothing, FindFails, LockFound,
     ReadMeta, ReadMetaFails, DropOrphans, Suppress, Respond, DropFails
<1> QED BY <1>1, <1>2, <1>3, TimeKept

LEMMA TimeReport ==
    ASSUME Inv, TimeOK, NEW s \in Slots, Report(s)
    PROVE  TimeOK'
<1>1. UNCHANGED <<stage, gc>>
  BY DEF Report, SendDone, SendFails, LookUp, DeleteEntry, LookForOthers, DropBody,
     DeferEntry, DeferDone, CommandFails, restVars, intakeVars
<1>2. UNCHANGED now
  BY UnlockNow DEF Report, SendDone, SendFails, LookUp, DeleteEntry, LookForOthers,
     DropBody, DeferEntry, DeferDone, CommandFails
<1>3. UNCHANGED body \/ BodiesLeave
  BY SomeBodiesLeave DEF Report, SendDone, SendFails, LookUp, DeleteEntry,
     LookForOthers, DropBody, DeleteBody, DeferEntry, DeferDone, CommandFails, Inv
<1>4. CASE DeferEntry(s)
  <2>1. \A d \in DOMAIN docs : docs[d] \in Entry
    BY DEF Inv, QueueOK
  <2>2. DOMAIN docs' = DOMAIN docs
    BY <1>4 DEF DeferEntry
  <2>3. \A d \in DOMAIN docs :
           docs'[d] \in {docs[d], [docs[d] EXCEPT !.locked = FALSE, !.queued = now + DeferTtl]}
    BY <1>4 DEF DeferEntry
  <2>4. \A d \in DOMAIN docs :
           [docs[d] EXCEPT !.locked = FALSE, !.queued = now + DeferTtl].created
              = docs[d].created
    BY <2>1 DEF Entry
  <2>5. NoneCreated
    BY <2>2, <2>3, <2>4 DEF NoneCreated
  <2> QED BY <1>1, <1>2, <1>3, <2>5, TimeKept
<1>5. CASE ~DeferEntry(s)
  <2>1. NoneCreated
    BY <1>5, CreatedStays DEF Report, SendDone, SendFails, LookUp, DeleteEntry,
       LookForOthers, DropBody, DeferDone, CommandFails
  <2> QED BY <1>1, <1>2, <1>3, <2>1, TimeKept
<1> QED BY <1>4, <1>5

LEMMA TimeProcess ==
    ASSUME Inv, TimeOK, (\E c \in Clients : Connect(c) \/ Close(c)) \/ Restart
    PROVE  TimeOK'
<1>1. CASE \E c \in Clients : Connect(c) \/ Close(c)
  <2>1. UNCHANGED <<docs, body, stage, gc, now>>
    BY <1>1 DEF Connect, Close, intakeVars, L!ReleaseLockOwner
  <2> QED BY <2>1, CreatedStays, TimeKept
<1>2. CASE Restart
  <2>1. \A d \in DOMAIN docs : docs[d] \in Entry
    BY DEF Inv, QueueOK
  <2>2. /\ DOMAIN docs' = DOMAIN docs
        /\ \A d \in DOMAIN docs : docs'[d] \in {docs[d], Unlocked(docs[d])}
        /\ UNCHANGED <<now, body>> /\ gc'.pc # "clear"
        /\ \A m \in Messages : stage'[m] = "stored" => stage[m] = "stored"
    BY <1>2 DEF Restart, IdleGc, Inv, QueueOK
  <2>3. \A d \in DOMAIN docs : Unlocked(docs[d]).created = docs[d].created
    BY <2>1 DEF Unlocked, Entry
  <2>4. NoneCreated
    BY <2>2, <2>3 DEF NoneCreated
  <2> QED BY <2>2, <2>4, TimeKept
<1> QED BY <1>1, <1>2

LEMMA TimeApi ==
    ASSUME Inv, TimeOK, Api
    PROVE  TimeOK'
<1>1. UNCHANGED <<stage, gc>>
  BY DEF Api, RemoveStart, SendNow, RemoveNext, RemoveDelete, RemoveLook, RemoveBody,
     RemoveDone, apiFrame, intakeVars
<1>2. UNCHANGED now
  BY UnlockNow DEF Api, RemoveStart, SendNow, RemoveNext, RemoveDelete, RemoveLook,
     RemoveBody, RemoveDone, L!Lock, L!ReleaseLockOwner
<1>3. UNCHANGED body \/ BodiesLeave
  BY SomeBodiesLeave DEF Api, RemoveStart, SendNow, RemoveNext, RemoveDelete,
     RemoveLook, RemoveBody, DeleteBody, RemoveDone, Inv
<1>4. CASE \E m \in Messages : SendNow(m)
  <2>1. \A d \in DOMAIN docs : docs[d] \in Entry
    BY DEF Inv, QueueOK
  <2>2. /\ DOMAIN docs' = DOMAIN docs
        /\ \A d \in DOMAIN docs : docs'[d] \in {docs[d], [docs[d] EXCEPT !.queued = now]}
    BY <1>4 DEF SendNow
  <2>3. NoneCreated
    BY <2>1, <2>2 DEF NoneCreated, Entry
  <2> QED BY <1>1, <1>2, <1>3, <2>3, TimeKept
<1>5. CASE ~\E m \in Messages : SendNow(m)
  <2>1. NoneCreated
    BY <1>5, CreatedStays DEF Api, RemoveStart, RemoveNext, RemoveDelete, RemoveLook,
       RemoveBody, RemoveDone
  <2> QED BY <1>1, <1>2, <1>3, <2>1, TimeKept
<1> QED BY <1>4, <1>5

LEMMA TimeGarbage ==
    ASSUME Inv, TimeOK, Garbage
    PROVE  TimeOK'
<1>1. UNCHANGED <<stage, now>>
  BY DEF Garbage, GcGoesOn, GcUnlock, GcRead, GcDrop, GcLook, GcBody, GcOldest, GcClear,
     gcFrame, intakeVars
<1>2. CASE GcUnlock
  <2>1. \A d \in DOMAIN docs : docs[d] \in Entry
    BY DEF Inv, QueueOK
  <2>2. /\ DOMAIN docs' = DOMAIN docs
        /\ \A d \in DOMAIN docs : docs'[d] \in {docs[d], Unlocked(docs[d])}
        /\ UNCHANGED <<body, gc>>
    BY <1>2 DEF GcUnlock
  <2>3. \A d \in DOMAIN docs : Unlocked(docs[d]).created = docs[d].created
    BY <2>1 DEF Unlocked, Entry
  <2>4. NoneCreated
    BY <2>2, <2>3 DEF NoneCreated
  <2> QED BY <1>1, <2>2, <2>4, TimeKept
<1>3. CASE GcOldest
  <2>1. PICK until \in 0..MaxTime :
          ClearsUntil(until) /\ gc' = [pc |-> "clear", entry |-> NoDelivery, until |-> until]
    BY <1>3 DEF GcOldest
  <2>2. UNCHANGED <<docs, body>>
    BY <1>3 DEF GcOldest
  <2>3. \A d \in DOMAIN docs : until + Margin <= docs[d].created
    BY <2>1 DEF ClearsUntil
  <2>4. /\ now \in Nat /\ until \in Nat /\ Margin \in Nat
        /\ \A m \in DOMAIN body : body[m] \in Nat
    BY QueueAssumption DEF Inv, LockerOK, L!TypeOK, QueueOK
  <2>5. until + Margin <= now
    <3>1. CASE DOMAIN docs = {}
      BY <2>1, <2>4, <3>1 DEF ClearsUntil
    <3>2. ASSUME NEW d \in DOMAIN docs PROVE until + Margin <= now
      <4>1. docs[d].created \in Nat /\ docs[d].created <= now
        BY DEF Inv, QueueOK, Entry, TimeOK
      <4> QED BY <2>3, <2>4, <4>1
    <3> QED BY <3>1, <3>2
  <2>6. \A m \in Messages : stage[m] = "stored" /\ m \in DOMAIN body => until < body[m]
    BY <2>4, <2>5 DEF TimeOK
  <2> QED BY <1>1, <2>1, <2>2, <2>3, <2>5, <2>6 DEF TimeOK
<1>4. CASE Garbage /\ ~GcUnlock /\ ~GcOldest
  <2>1. gc'.pc # "clear"
    BY <1>4 DEF Garbage, GcGoesOn, GcRead, GcDrop, GcLook, GcBody, GcClear, IdleGc, Inv,
       TasksOK
  <2>2. NoneCreated
    BY <1>4, CreatedStays DEF Garbage, GcGoesOn, GcRead, GcDrop, GcLook, GcBody, GcClear
  <2>3. UNCHANGED body \/ BodiesLeave
    BY <1>4, SomeBodiesLeave
    DEF Garbage, GcGoesOn, GcRead, GcDrop, GcLook, GcBody, DeleteBody, GcClear, Inv
  <2> QED BY <1>1, <2>1, <2>2, <2>3, TimeKept
<1> QED BY <1>2, <1>3, <1>4

LEMMA TimeClock ==
    ASSUME TimelyPush, Inv, TimeOK, LocksExpire \/ Tick \/ UNCHANGED vars
    PROVE  TimeOK'
<1>1. UNCHANGED <<docs, body, stage, gc>>
  BY DEF LocksExpire, Tick, vars, intakeVars
<1>2. CASE UNCHANGED now
  BY <1>1, <1>2, CreatedStays, TimeKept
<1>3. CASE Tick
  <2>1. /\ now \in Nat /\ Margin \in Nat /\ \A m \in DOMAIN body : body[m] \in Nat
        /\ gc.pc = "clear" => gc.until \in Nat
    BY QueueAssumption DEF Inv, LockerOK, L!TypeOK, QueueOK, TasksOK
  <2>2. now' = now + 1 /\ \A m \in Messages : ~Slow(m)
    BY <1>3 DEF Tick
  <2>3. \A m \in Messages : stage[m] = "stored" /\ m \in DOMAIN body =>
           now + 1 < body[m] + Margin
    BY <2>1, <2>2 DEF Slow
  <2>4. gc.pc = "clear" => gc.until + Margin <= now + 1
    BY <2>1 DEF TimeOK
  <2>5. \A d \in DOMAIN docs : docs[d].created \in Nat /\ docs[d].created <= now + 1
    BY <2>1 DEF Inv, QueueOK, Entry, TimeOK
  <2> QED BY <1>1, <2>2, <2>3, <2>4, <2>5 DEF TimeOK
<1> QED BY <1>2, <1>3 DEF LocksExpire, L!CheckExpired, vars

LEMMA TimeHolds ==
    ASSUME TimelyPush
    PROVE  Spec => []TimeOK
<1>1. Init => TimeOK
  BY DEF Init, IdleGc, TimeOK
<1>2. Inv /\ TimeOK /\ [Next]_vars => TimeOK'
  BY TimeIntake, TimeGet, TimeReport, TimeProcess, TimeApi, TimeGarbage, TimeClock
  DEF Next
<1> QED BY <1>1, <1>2, InvHolds, PTL DEF Spec

(***************************************************************************)
(* Entries and bodies.  An entry of a message that has been accepted, or   *)
(* may still be, does not leave the database before it has come to an end, *)
(* and the body stays until all the entries are gone.  That the entries of *)
(* a message appear all at once is what tells an entry that is gone from   *)
(* one that is still to come: without it the first entry to be delivered   *)
(* takes the body of the others with it.  The one entry of a message with a*)
(* single recipient needs no such promise.  Both need the body to outlive  *)
(* the collection of old bodies, which knows it by its age alone: TimeOK.  *)
(***************************************************************************)
Whole(m) == AtomicInsert \/ \A d, e \in EntriesOf(m) : d = e

Underway(m) == Whole(m) /\ stage[m] \in {"stored", "queued"}

\* The look for other entries of the message of e was right to find none.
NoneLeft(e) == Whole(MsgOf[e]) => Unreferenced(MsgOf[e])

DropsBody == {"body", "dropbody"}

DropsOK ==
    /\ \A s \in Slots : slot[s].pc \in DropsBody => NoneLeft(slot[s].entry)
    /\ removal.pc = "body" => NoneLeft(removal.entry)
    /\ gc.pc = "body" => NoneLeft(gc.entry)

BodyOK ==
    /\ \A m \in Messages : Whole(m) =>
          EntriesOf(m) \subseteq inserted \/ EntriesOf(m) \cap inserted = {}
    /\ \A m \in Messages : stage[m] = "queued" => EntriesOf(m) \subseteq inserted
    /\ \A d \in Deliveries : Underway(MsgOf[d]) =>
          /\ d \in inserted => d \in DOMAIN docs \/ d \in ended
          /\ d \in DOMAIN docs \/ d \notin inserted => MsgOf[d] \in DOMAIN body
    /\ \A s \in Slots :
          slot[s].pc = "orphan" => MsgOf[slot[s].entry] \notin DOMAIN body
    /\ DropsOK

\* The slots that take an entry for an orphan, or the last of its message, are
\* right about it, and so are the delete request and the collector.
SlotsRight ==
    \A s \in Slots :
        /\ slot'[s].pc = "orphan" => MsgOf[slot'[s].entry] \notin DOMAIN body
        /\ slot'[s].pc \in DropsBody => NoneLeft(slot'[s].entry)

TasksRight ==
    /\ removal'.pc = "body" => NoneLeft(removal'.entry)
    /\ gc'.pc = "body" => NoneLeft(gc'.entry)

\* Entries and bodies leave the database, for a reason.
LEMMA BodyKept ==
    ASSUME Inv, BodyOK, SlotsRight, TasksRight, UNCHANGED <<stage, inserted>>,
           DOMAIN docs' \subseteq DOMAIN docs, ended \subseteq ended',
           DOMAIN body' \subseteq DOMAIN body,
           \A d \in DOMAIN docs : Underway(MsgOf[d]) => d \in DOMAIN docs' \/ d \in ended',
           \A m \in DOMAIN body \ DOMAIN body' : Underway(m) =>
               EntriesOf(m) \cap DOMAIN docs' = {} /\ EntriesOf(m) \subseteq inserted
    PROVE  BodyOK'
<1>1. /\ \A m \in Messages : Whole(m) =>
            EntriesOf(m) \subseteq inserted' \/ EntriesOf(m) \cap inserted' = {}
      /\ \A m \in Messages : stage'[m] = "queued" => EntriesOf(m) \subseteq inserted'
  BY DEF BodyOK
<1>2. ASSUME NEW d \in Deliveries, Underway(MsgOf[d])'
      PROVE  /\ d \in inserted' => d \in DOMAIN docs' \/ d \in ended'
             /\ d \in DOMAIN docs' \/ d \notin inserted' => MsgOf[d] \in DOMAIN body'
  <2>1. Underway(MsgOf[d])
    BY <1>2 DEF Underway
  <2>2. d \in inserted' => d \in DOMAIN docs' \/ d \in ended'
    BY <2>1 DEF BodyOK
  <2>3. ASSUME d \in DOMAIN docs' \/ d \notin inserted' PROVE MsgOf[d] \in DOMAIN body'
    <3>1. MsgOf[d] \in DOMAIN body
      BY <2>1, <2>3 DEF BodyOK
    <3>2. d \in EntriesOf(MsgOf[d])
      BY DEF EntriesOf
    <3> QED BY <2>1, <2>3, <3>1, <3>2
  <2> QED BY <2>2, <2>3
<1>3. \A e : NoneLeft(e) => NoneLeft(e)'
  BY DEF NoneLeft, Unreferenced
<1>4. \A s \in Slots : slot'[s].pc = "orphan" => MsgOf[slot'[s].entry] \notin DOMAIN body'
  BY DEF SlotsRight
<1>5. DropsOK'
  BY <1>3 DEF SlotsRight, TasksRight, DropsOK, NoneLeft, Unreferenced
<1> QED BY <1>1, <1>2, <1>4, <1>5 DEF BodyOK

LEMMA BodyStays ==
    ASSUME Inv, BodyOK, SlotsRight, TasksRight, UNCHANGED <<stage, inserted, body>>,
           DOMAIN docs' = DOMAIN docs, ended \subseteq ended'
    PROVE  BodyOK'
BY BodyKept

\* Entries that have come to an end are deleted.
LEMMA BodyDelete ==
    ASSUME Inv, BodyOK, SlotsRight, TasksRight, UNCHANGED <<stage, inserted, body>>,
           NEW d, docs' = DocsWithout({d}), ended \subseteq ended', d \in ended'
    PROVE  BodyOK'
<1>1. /\ DOMAIN docs' \subseteq DOMAIN docs
      /\ \A e \in DOMAIN docs : e \in DOMAIN docs' \/ e \in ended'
  BY DEF DocsWithout
<1> QED BY <1>1, BodyKept

\* The body of a message goes when one entry was deleted and none is left.
LEMMA BodyDrop ==
    ASSUME Inv, BodyOK, SlotsRight, TasksRight,
           UNCHANGED <<stage, inserted, docs, ended>>,
           NEW e \in inserted, NoneLeft(e), DeleteBody(MsgOf[e])
    PROVE  BodyOK'
<1>1. e \in EntriesOf(MsgOf[e]) /\ MsgOf[e] \in Messages
  BY QueueAssumption DEF Inv, QueueOK, EntriesOf
<1>2. Whole(MsgOf[e]) => EntriesOf(MsgOf[e]) \subseteq inserted
  BY <1>1 DEF BodyOK
<1>3. BodiesLeave /\ \A m \in DOMAIN body \ DOMAIN body' : m \in {MsgOf[e]}
  BY SomeBodiesLeave DEF DeleteBody, Inv
<1>4. DOMAIN body' \subseteq DOMAIN body
  BY <1>3 DEF BodiesLeave
<1>5. \A m \in DOMAIN body \ DOMAIN body' : Underway(m) =>
         EntriesOf(m) \cap DOMAIN docs' = {} /\ EntriesOf(m) \subseteq inserted
  BY <1>2, <1>3 DEF NoneLeft, Unreferenced, Underway
<1> QED BY <1>4, <1>5, BodyKept

LEMMA RightSlot ==
    ASSUME SlotsOK, BodyOK, NEW s \in Slots, NEW v, slot' = [slot EXCEPT ![s] = v],
           v.pc = "orphan" => MsgOf[v.entry] \notin DOMAIN body,
           v.pc \in DropsBody => NoneLeft(v.entry)
    PROVE  SlotsRight
<1>1. slot'[s] = v /\ \A t \in Slots : t # s => slot'[t] = slot[t]
  BY DEF SlotsOK
<1> QED BY <1>1 DEF SlotsRight, BodyOK, DropsOK

LEMMA RightGoto ==
    ASSUME SlotsOK, BodyOK, NEW s \in Slots, NEW pc, Goto(s, pc),
           pc = "orphan" => MsgOf[slot[s].entry] \notin DOMAIN body,
           pc \in DropsBody => NoneLeft(slot[s].entry)
    PROVE  SlotsRight
<1> DEFINE v == [slot[s] EXCEPT !.pc = pc]
<1>1. GoodSlot(slot[s], inserted, ended)
  BY DEF SlotsOK
<1>2. slot' = [slot EXCEPT ![s] = v]
  BY DEF Goto
<1>3. v.pc = pc /\ v.entry = slot[s].entry
  BY <1>1 DEF GoodSlot
<1> HIDE DEF v
<1> QED BY <1>2, <1>3, RightSlot

LEMMA RightIdle ==
    ASSUME SlotsOK, BodyOK, NEW s \in Slots, ToIdle(s) \/ FindAgain(s)
    PROVE  SlotsRight
<1>1. CASE ToIdle(s)
  <2>1. IdleSlot.pc # "orphan" /\ IdleSlot.pc \notin DropsBody
    BY DEF IdleSlot, DropsBody
  <2> QED BY <1>1, <2>1, RightSlot DEF ToIdle
<1>2. CASE FindAgain(s)
  <2> DEFINE v == [slot[s] EXCEPT !.pc = "find", !.entry = NoDelivery]
  <2>1. GoodSlot(slot[s], inserted, ended)
    BY DEF SlotsOK
  <2>2. slot' = [slot EXCEPT ![s] = v]
    BY <1>2 DEF FindAgain
  <2>3. v.pc # "orphan" /\ v.pc \notin DropsBody
    BY <2>1 DEF GoodSlot, DropsBody
  <2> HIDE DEF v
  <2> QED BY <2>2, <2>3, RightSlot
<1> QED BY <1>1, <1>2

LEMMA RightStay ==
    ASSUME BodyOK, UNCHANGED slot
    PROVE  SlotsRight
BY DEF BodyOK, DropsOK, SlotsRight

LEMMA TasksStayRight ==
    ASSUME BodyOK, UNCHANGED <<removal, gc>>
    PROVE  TasksRight
BY DEF BodyOK, DropsOK, TasksRight

\* No entry is added to a message that an entry has been looked for in vain of.
LEMMA DropsIntake ==
    ASSUME Inv, BodyOK, Intake
    PROVE  DropsOK'
<1>1. UNCHANGED <<slot, removal, gc>>
  BY DEF Intake, Store, Insert, PushDone, PushFails, PushUndone
<1>2. ASSUME NEW e \in inserted, NoneLeft(e), Whole(MsgOf[e])
      PROVE  Unreferenced(MsgOf[e])'
  <2>1. EntriesOf(MsgOf[e]) \subseteq inserted
    <3>1. e \in EntriesOf(MsgOf[e]) /\ MsgOf[e] \in Messages
      BY QueueAssumption DEF Inv, QueueOK, EntriesOf
    <3> QED BY <1>2, <3>1 DEF BodyOK
  <2>2. \A d \in inserted : d \in DOMAIN docs' => d \in DOMAIN docs
    BY DEF Intake, Store, Insert, PushDone, PushFails, PushUndone
  <2> QED BY <1>2, <2>1, <2>2 DEF NoneLeft, Unreferenced
<1>3. \A s \in Slots : slot[s].pc \in DropsBody => slot[s].entry \in inserted
  BY DEF DropsBody, Inv, SlotsOK, GoodSlot
<1>4. /\ removal.pc = "body" => removal.entry \in inserted
      /\ gc.pc = "body" => gc.entry \in inserted
  BY DEF Inv, TasksOK
<1> QED BY <1>1, <1>2, <1>3, <1>4 DEF BodyOK, DropsOK, NoneLeft

LEMMA BodyIntake ==
    ASSUME Inv, BodyOK, Intake
    PROVE  BodyOK'
<1> USE QueueAssumption
<1>1. UNCHANGED <<slot, ended>>
  BY DEF Intake, Store, Insert, PushDone, PushFails, PushUndone
<1>2. \A s \in Slots : slot[s].pc = "orphan" => slot[s].entry \in inserted
  BY DEF Inv, SlotsOK, GoodSlot
<1>6. DropsOK'
  BY DropsIntake
<1>3. ASSUME NEW m \in Messages, Store(m) PROVE BodyOK'
  <2>1. /\ DOMAIN body' = DOMAIN body \cup {m} /\ stage[m] = "new" /\ UNCHANGED <<docs, inserted>>
        /\ stage'[m] = "stored" /\ \A n \in Messages : n # m => stage'[n] = stage[n]
    BY <1>3 DEF Store, Inv, QueueOK
  <2>2. \A d \in inserted : MsgOf[d] # m
    BY <2>1 DEF Inv, QueueOK
  <2>3. ASSUME NEW d \in Deliveries, Underway(MsgOf[d])'
        PROVE  /\ d \in inserted' => d \in DOMAIN docs' \/ d \in ended'
               /\ d \in DOMAIN docs' \/ d \notin inserted' => MsgOf[d] \in DOMAIN body'
    <3>1. CASE MsgOf[d] = m
      BY <2>1, <2>2, <3>1 DEF Inv, QueueOK
    <3>2. CASE MsgOf[d] # m
      BY <1>1, <2>1, <2>3, <3>2 DEF Underway, BodyOK
    <3> QED BY <3>1, <3>2
  <2>4. \A s \in Slots : slot'[s].pc = "orphan" => MsgOf[slot'[s].entry] \notin DOMAIN body'
    BY <1>1, <1>2, <2>1, <2>2 DEF BodyOK
  <2>5. \A n \in Messages : stage'[n] = "queued" => EntriesOf(n) \subseteq inserted'
    BY <2>1 DEF BodyOK
  <2> QED BY <1>6, <2>1, <2>3, <2>4, <2>5 DEF BodyOK
<1>4. ASSUME NEW m \in Messages, NEW D \in SUBSET EntriesOf(m), Insert(m, D)
      PROVE  BodyOK'
  <2>1. Whole(m) => D = EntriesOf(m)
    BY <1>4 DEF Insert, Whole
  <2>2. /\ DOMAIN docs' = DOMAIN docs \cup D
        /\ inserted' = inserted \cup D
        /\ stage[m] = "stored" /\ D \cap inserted = {} /\ D # {}
        /\ UNCHANGED <<body, stage>>
    BY <1>4 DEF Insert
  <2>3. ASSUME NEW n \in Messages, Whole(n)
        PROVE  EntriesOf(n) \subseteq inserted' \/ EntriesOf(n) \cap inserted' = {}
    <3>1. CASE n = m
      BY <2>1, <2>2, <2>3, <3>1
    <3>2. CASE n # m
      <4>1. EntriesOf(n) \cap D = {}
        BY <3>2 DEF EntriesOf
      <4> QED BY <2>2, <2>3, <4>1 DEF BodyOK
    <3> QED BY <3>1, <3>2
  <2>4. ASSUME NEW d \in Deliveries, Underway(MsgOf[d])'
        PROVE  /\ d \in inserted' => d \in DOMAIN docs' \/ d \in ended'
               /\ d \in DOMAIN docs' \/ d \notin inserted' => MsgOf[d] \in DOMAIN body'
    <3>1. Underway(MsgOf[d])
      BY <2>2, <2>4 DEF Underway
    <3>2. CASE d \in D
      BY <2>2, <3>1, <3>2 DEF BodyOK
    <3>3. CASE d \notin D
      BY <1>1, <2>2, <3>1, <3>3 DEF BodyOK
    <3> QED BY <3>2, <3>3
  <2>5. \A s \in Slots : slot'[s].pc = "orphan" => MsgOf[slot'[s].entry] \notin DOMAIN body'
    BY <1>1, <2>2 DEF BodyOK
  <2>6. \A n \in Messages : stage'[n] = "queued" => EntriesOf(n) \subseteq inserted'
    BY <2>2 DEF BodyOK
  <2> QED BY <1>6, <2>3, <2>4, <2>5, <2>6 DEF BodyOK
<1>5. ASSUME NEW m \in Messages, PushDone(m) \/ PushFails(m) \/ PushUndone(m)
      PROVE  BodyOK'
  <2>1. /\ UNCHANGED <<docs, inserted>> /\ DOMAIN body' \subseteq DOMAIN body
        /\ \A n \in DOMAIN body \ DOMAIN body' : n = m /\ PushUndone(m)
    <3>1. CASE PushUndone(m)
      BY <1>5, <3>1, SomeBodiesLeave
      DEF PushDone, PushFails, PushUndone, DeleteBody, BodiesLeave, Inv
    <3>2. CASE ~PushUndone(m)
      BY <1>5, <3>2 DEF PushDone, PushFails
    <3> QED BY <3>1, <3>2
  <2>4. /\ \A n \in Messages : stage'[n] \in {"stored", "queued"} =>
              stage[n] \in {"stored", "queued"} /\ ~(n = m /\ PushUndone(m))
        /\ \A n \in Messages : stage'[n] = "queued" => EntriesOf(n) \subseteq inserted
    BY <1>5 DEF PushDone, PushFails, PushUndone, Inv, QueueOK, BodyOK
  <2>2. ASSUME NEW d \in Deliveries, Underway(MsgOf[d])'
        PROVE  /\ d \in inserted' => d \in DOMAIN docs' \/ d \in ended'
               /\ d \in DOMAIN docs' \/ d \notin inserted' => MsgOf[d] \in DOMAIN body'
    BY <1>1, <2>1, <2>2, <2>4 DEF Underway, BodyOK
  <2>3. \A s \in Slots : slot'[s].pc = "orphan" => MsgOf[slot'[s].entry] \notin DOMAIN body'
    BY <1>1, <2>1 DEF BodyOK
  <2> QED BY <1>6, <2>1, <2>2, <2>3, <2>4 DEF BodyOK
<1> QED BY <1>3, <1>4, <1>5 DEF Intake

LEMMA BodyGet ==
    ASSUME Inv, BodyOK, NEW s \in Slots, Get(s)
    PROVE  BodyOK'
<1>10. TasksRight
  BY TasksStayRight DEF Get, Shift, Find, FindNothing, FindFails, LockFound, ReadMeta,
     ReadMetaFails, DropOrphans, Suppress, Respond, DropFails, restVars
<1>1. CASE Shift(s)
  <2> DEFINE v == [pc |-> "find", entry |-> NoDelivery, asked |-> now,
                   skip |-> L!SkipDomains(Zone)]
  <2>1. slot' = [slot EXCEPT ![s] = v] /\ v.pc # "orphan" /\ v.pc \notin DropsBody
    BY <1>1 DEF Shift, DropsBody
  <2>2. UNCHANGED <<docs, body, stage, inserted, ended>>
    BY <1>1 DEF Shift, restVars, intakeVars
  <2> HIDE DEF v
  <2> QED BY <2>1, <2>2, <1>10, RightSlot, BodyStays DEF Inv
<1>2. ASSUME NEW d \in Deliveries, Find(s, d) PROVE BodyOK'
  <2> DEFINE v == [slot[s] EXCEPT !.pc = "found", !.entry = d]
  <2>1. slot' = [slot EXCEPT ![s] = v]
    BY <1>2 DEF Find
  <2>2. v.pc # "orphan" /\ v.pc \notin DropsBody
    BY SlotEntry DEF GoodSlot, DropsBody
  <2>3. DOMAIN docs' = DOMAIN docs /\ UNCHANGED <<body, stage, inserted, ended>>
    BY <1>2 DEF Find, MarkLocked, restVars, intakeVars
  <2> HIDE DEF v
  <2> QED BY <2>1, <2>2, <2>3, <1>10, RightSlot, BodyStays DEF Inv
<1>3. CASE FindNothing(s) \/ FindFails(s)
  <2>1. DOMAIN docs' = DOMAIN docs /\ UNCHANGED <<body, stage, inserted, ended>>
    BY <1>3 DEF FindNothing, FindFails, MarkLocked, restVars, intakeVars
  <2> QED BY <1>3, <2>1, <1>10, RightIdle, BodyStays DEF FindNothing, FindFails, Inv
<1>4. CASE LockFound(s)
  <2>1. SlotsRight
    BY <1>4, RightGoto, RightIdle DEF DropsBody, LockFound, Inv
  <2> QED BY <1>4, <1>10, <2>1, BodyStays DEF LockFound, restVars, intakeVars
<1>5. CASE ReadMeta(s)
  <2>1. SlotsRight
    BY <1>5, RightGoto DEF DropsBody, ReadMeta, Inv
  <2> QED BY <1>5, <1>10, <2>1, BodyStays DEF ReadMeta, restVars, intakeVars
<1>6. CASE ReadMetaFails(s) \/ DropFails(s)
  BY <1>6, <1>10, RightIdle, BodyStays DEF ReadMetaFails, DropFails, restVars, intakeVars, Inv
<1>7. CASE DropOrphans(s)
  <2>1. MsgOf[slot[s].entry] \notin DOMAIN body
    BY <1>7 DEF DropOrphans, BodyOK
  <2>2. \A d \in EntriesOf(MsgOf[slot[s].entry]) :
           d \in DOMAIN docs => ~Underway(MsgOf[d])
    BY <2>1 DEF BodyOK, EntriesOf
  <2>3. DOMAIN docs' \in {DOMAIN docs, DOMAIN docs \ EntriesOf(MsgOf[slot[s].entry])}
    BY <1>7 DEF DropOrphans, DocsWithout
  <2>4. \A d \in DOMAIN docs : Underway(MsgOf[d]) => d \in DOMAIN docs'
    BY <2>2, <2>3, SlotEntry DEF EntriesOf
  <2> QED BY <1>7, <2>4, <2>2, <2>3, <1>10, RightIdle, BodyKept
          DEF DropOrphans, restVars, intakeVars, Inv
<1>8. CASE Suppress(s)
  BY <1>8, <1>10, RightGoto, BodyStays DEF DropsBody, Suppress, restVars, intakeVars, Inv
<1>9. CASE Respond(s)
  <2>1. SlotsRight
    <3> DEFINE v == [slot[s] EXCEPT !.pc = "sending", !.asked = 0, !.skip = {}]
    <3>1. v.pc # "orphan" /\ v.pc \notin DropsBody
      BY SlotEntry DEF GoodSlot, DropsBody
    <3>2. slot' = [slot EXCEPT ![s] = v] \/ ToIdle(s)
      BY <1>9 DEF Respond
    <3> HIDE DEF v
    <3> QED BY <3>1, <3>2, RightSlot, RightIdle DEF Inv
  <2> QED BY <1>9, <1>10, <2>1, BodyStays DEF Respond, restVars, intakeVars
<1> QED BY <1>1, <1>2, <1>3, <1>4, <1>5, <1>6, <1>7, <1>8, <1>9 DEF Get

LEMMA BodyReport ==
    ASSUME Inv, BodyOK, NEW s \in Slots, Report(s)
    PROVE  BodyOK'
<1>10. TasksRight
  BY TasksStayRight DEF Report, SendDone, SendFails, LookUp, DeleteEntry, LookForOthers,
     DropBody, DeferEntry, DeferDone, CommandFails, restVars
<1>1. CASE SendDone(s)
  BY <1>1, <1>10, RightGoto, BodyStays DEF DropsBody, SendDone, restVars, intakeVars, Inv
<1>2. CASE SendFails(s)
  BY <1>2, <1>10, RightGoto, BodyStays DEF DropsBody, SendFails, restVars, intakeVars, Inv
<1>3. CASE LookUp(s)
  <2>1. SlotsRight
    BY <1>3, RightGoto, RightIdle DEF DropsBody, LookUp, Inv
  <2> QED BY <1>3, <1>10, <2>1, BodyStays DEF LookUp, restVars, intakeVars
<1>4. CASE DeleteEntry(s)
  <2>1. slot[s].entry \in ended
    BY <1>4, SlotEntry DEF DeleteEntry, GoodSlot
  <2>2. SlotsRight
    BY <1>4, RightGoto DEF DropsBody, DeleteEntry, Inv
  <2> QED BY <1>4, <2>1, <2>2, <1>10, BodyDelete DEF DeleteEntry, restVars, intakeVars
<1>5. CASE LookForOthers(s)
  <2>1. SlotsRight
    <3>1. CASE EntryDone(s)
      BY <3>1, RightIdle DEF EntryDone, Inv
    <3>2. CASE ~EntryDone(s)
      BY <1>5, <3>2, RightGoto DEF LookForOthers, NoneLeft, Inv
    <3> QED BY <3>1, <3>2
  <2> QED BY <1>5, <1>10, <2>1, BodyStays DEF LookForOthers, restVars, intakeVars
<1>9. CASE DropBody(s)
  <2>1. slot[s].entry \in inserted /\ NoneLeft(slot[s].entry)
    BY <1>9, SlotEntry DEF DropBody, GoodSlot, BodyOK, DropsOK, DropsBody
  <2>2. SlotsRight
    BY <1>9, RightIdle DEF DropBody, EntryDone, Inv
  <2> QED BY <1>9, <1>10, <2>1, <2>2, BodyDrop DEF DropBody, restVars, intakeVars
<1>6. CASE DeferEntry(s)
  BY <1>6, <1>10, RightGoto, BodyStays DEF DropsBody, DeferEntry, restVars, intakeVars, Inv
<1>7. CASE DeferDone(s)
  BY <1>7, <1>10, RightIdle, BodyStays DEF DeferDone, restVars, intakeVars, Inv
<1>8. CASE CommandFails(s)
  BY <1>8, <1>10, RightIdle, BodyStays DEF CommandFails, intakeVars, Inv
<1> QED BY <1>1, <1>2, <1>3, <1>4, <1>5, <1>6, <1>7, <1>8, <1>9 DEF Report

LEMMA BodyProcess ==
    ASSUME Inv, BodyOK, (\E c \in Clients : Connect(c) \/ Close(c)) \/ Restart
    PROVE  BodyOK'
<1>1. IdleSlot.pc # "orphan" /\ IdleSlot.pc \notin DropsBody
  BY DEF IdleSlot, DropsBody
<1>2. ASSUME NEW c \in Clients, Connect(c) PROVE BodyOK'
  BY <1>2, RightStay, TasksStayRight, BodyStays DEF Connect, intakeVars
<1>3. ASSUME NEW c \in Clients, Close(c) PROVE BodyOK'
  <2>1. \A s \in Slots : slot'[s] \in {slot[s], IdleSlot}
    BY <1>3 DEF Close
  <2>2. SlotsRight
    BY <1>1, <2>1 DEF BodyOK, DropsOK, SlotsRight
  <2> QED BY <1>3, <2>2, TasksStayRight, BodyStays DEF Close, intakeVars
<1>4. CASE Restart
  <2>1. DOMAIN docs' = DOMAIN docs /\ UNCHANGED <<body, inserted, ended>>
    BY <1>4 DEF Restart
  <2>2. \A m \in Messages : Underway(m)' => Underway(m)
    BY <1>4 DEF Restart, Underway
  <2>3. \A s \in Slots : slot'[s].pc # "orphan"
    BY <1>1, <1>4 DEF Restart
  <2>4. DropsOK'
    BY <1>1, <1>4 DEF Restart, DropsOK, IdleRemoval, IdleGc
  <2>5. \A m \in Messages : stage'[m] = "queued" => EntriesOf(m) \subseteq inserted
    BY <1>4 DEF Restart, BodyOK
  <2> QED BY <2>1, <2>2, <2>3, <2>4, <2>5, QueueAssumption DEF BodyOK
<1> QED BY <1>2, <1>3, <1>4

LEMMA BodyApi ==
    ASSUME Inv, BodyOK, Api
    PROVE  BodyOK'
<1>1. SlotsRight /\ UNCHANGED <<stage, inserted, gc>>
  BY RightStay DEF Api, RemoveStart, SendNow, RemoveNext, RemoveDelete, RemoveLook,
     RemoveBody, RemoveDone, apiFrame, intakeVars
<1>2. TasksRight
  <2>1. gc'.pc = "body" => NoneLeft(gc'.entry)
    BY <1>1 DEF BodyOK, DropsOK
  <2>2. \/ removal'.pc # "body"
        \/ UNCHANGED removal
        \/ RemoveLook /\ removal' = [removal EXCEPT !.pc = "body"]
    <3>1. removal \in [pc : {"idle", "next", "delete", "unref", "body"},
                      todo : SUBSET inserted, entry : inserted \cup {NoDelivery}]
      BY DEF Inv, TasksOK
    <3>2. NextToRemove => removal'.pc = "next"
      BY <3>1 DEF NextToRemove
    <3>3. CASE \E m \in Messages : RemoveStart(m) \/ SendNow(m)
      BY <3>3 DEF RemoveStart, SendNow
    <3>4. CASE \E d \in Deliveries : RemoveNext(d)
      BY <3>1, <3>4 DEF RemoveNext
    <3>5. CASE RemoveDelete
      BY <3>1, <3>2, <3>5 DEF RemoveDelete
    <3>6. CASE RemoveLook
      BY <3>2, <3>6 DEF RemoveLook
    <3>7. CASE RemoveBody \/ RemoveDone
      BY <3>2, <3>7 DEF RemoveBody, RemoveDone, IdleRemoval
    <3> QED BY <3>3, <3>4, <3>5, <3>6, <3>7 DEF Api
  <2>3. CASE RemoveLook /\ removal' = [removal EXCEPT !.pc = "body"]
    BY <2>1, <2>3 DEF RemoveLook, NextToRemove, TasksRight, NoneLeft, Inv, TasksOK
  <2> QED BY <2>1, <2>2, <2>3 DEF BodyOK, DropsOK, TasksRight
<1>3. CASE DOMAIN docs' = DOMAIN docs /\ UNCHANGED <<body, ended>>
  BY <1>1, <1>2, <1>3, BodyStays
<1>4. CASE RemoveDelete
  BY <1>1, <1>2, <1>3, <1>4, BodyDelete DEF RemoveDelete
<1>5. CASE RemoveBody
  <2>1. removal.entry \in inserted /\ NoneLeft(removal.entry)
    BY <1>5 DEF RemoveBody, Inv, TasksOK, BodyOK, DropsOK
  <2> QED BY <1>1, <1>2, <1>5, <2>1, BodyDrop DEF RemoveBody
<1> QED BY <1>3, <1>4, <1>5
        DEF Api, RemoveStart, SendNow, RemoveNext, RemoveLook, RemoveDone

\* The bodies that are old enough have no entry, and will not get one.
LEMMA BodyClear ==
    ASSUME Inv, TimeOK, BodyOK, SlotsRight, TasksRight, GcClear
    PROVE  BodyOK'
<1>1. gc.pc = "clear" /\ UNCHANGED <<docs, stage, inserted, ended>>
  BY DEF GcClear, gcFrame, intakeVars
<1>2. /\ BodiesLeave
      /\ \A m \in DOMAIN body \ DOMAIN body' :
            m \in {n \in DOMAIN body : body[n] <= gc.until}
  BY SomeBodiesLeave DEF GcClear, Inv
<1>3. /\ gc.until \in Nat /\ Margin \in Nat
      /\ \A m \in DOMAIN body : body[m] \in Nat
      /\ \A d \in DOMAIN docs : docs[d].created \in Nat /\ d \in Deliveries
  BY QueueAssumption DEF Inv, TasksOK, QueueOK, Entry
<1>4. ASSUME NEW m \in DOMAIN body \ DOMAIN body', Underway(m)
      PROVE  EntriesOf(m) \cap DOMAIN docs = {} /\ EntriesOf(m) \subseteq inserted
  <2>1. body[m] <= gc.until /\ m \in Messages
    BY <1>2 DEF Inv, QueueOK
  <2>2. ASSUME NEW d \in EntriesOf(m), d \in DOMAIN docs PROVE FALSE
    <3>1. MsgOf[d] = m
      BY DEF EntriesOf
    <3>2. /\ gc.until + Margin <= docs[d].created
          /\ docs[d].created < body[m] + Margin
      BY <1>1, <2>2, <3>1 DEF TimeOK
    <3> QED BY <1>3, <2>1, <2>2, <3>2
  <2>3. stage[m] # "stored"
    BY <1>1, <1>3, <2>1 DEF TimeOK
  <2> QED BY <1>4, <2>1, <2>2, <2>3 DEF Underway, BodyOK
<1>5. DOMAIN body' \subseteq DOMAIN body
  BY <1>2 DEF BodiesLeave
<1> QED BY <1>1, <1>4, <1>5, BodyKept

LEMMA BodyGarbage ==
    ASSUME Inv, TimeOK, BodyOK, Garbage
    PROVE  BodyOK'
<1>1. SlotsRight /\ UNCHANGED <<stage, inserted, removal>>
  BY RightStay DEF Garbage, GcGoesOn, GcUnlock, GcRead, GcDrop, GcLook, GcBody,
     GcOldest, GcClear, gcFrame, intakeVars
<1>2. TasksRight
  <2>1. removal'.pc = "body" => NoneLeft(removal'.entry)
    BY <1>1 DEF BodyOK, DropsOK
  <2>2. \/ gc'.pc # "body"
        \/ UNCHANGED gc
        \/ GcLook /\ gc' = [gc EXCEPT !.pc = "body"]
    BY DEF Garbage, GcGoesOn, GcUnlock, GcRead, GcDrop, GcLook, GcBody, GcOldest,
       GcClear, IdleGc, Inv, TasksOK
  <2>3. CASE GcLook /\ gc' = [gc EXCEPT !.pc = "body"]
    BY <2>1, <2>3 DEF GcLook, IdleGc, TasksRight, NoneLeft, Inv, TasksOK
  <2> QED BY <2>1, <2>2, <2>3 DEF BodyOK, DropsOK, TasksRight
<1>3. CASE DOMAIN docs' = DOMAIN docs /\ UNCHANGED <<body, ended>>
  BY <1>1, <1>2, <1>3, BodyStays
<1>4. CASE GcDrop
  BY <1>1, <1>2, <1>3, <1>4, BodyDelete DEF GcDrop
<1>5. CASE GcBody
  <2>1. gc.entry \in inserted /\ NoneLeft(gc.entry)
    BY <1>5 DEF GcBody, Inv, TasksOK, BodyOK, DropsOK
  <2> QED BY <1>1, <1>2, <1>5, <2>1, BodyDrop DEF GcBody
<1>6. CASE GcClear
  BY <1>1, <1>2, <1>6, BodyClear
<1> QED BY <1>3, <1>4, <1>5, <1>6
        DEF Garbage, GcGoesOn, GcUnlock, GcRead, GcLook, GcOldest

LEMMA BodyHolds ==
    ASSUME TimelyPush
    PROVE  Spec => []BodyOK
<1>1. Init => BodyOK
  BY QueueAssumption
  DEF Init, IdleSlot, IdleRemoval, IdleGc, BodyOK, DropsOK, DropsBody, Underway
<1>2. ASSUME Inv, BodyOK, LocksExpire \/ Tick \/ UNCHANGED vars PROVE BodyOK'
  BY <1>2, RightStay, TasksStayRight, BodyStays DEF LocksExpire, Tick, vars, intakeVars
<1>3. Inv /\ TimeOK /\ BodyOK /\ [Next]_vars => BodyOK'
  BY <1>2, BodyIntake, BodyGet, BodyReport, BodyProcess, BodyApi, BodyGarbage DEF Next
<1> QED BY <1>1, <1>3, InvHolds, TimeHolds, PTL DEF Spec

SingleKept ==
    \A d \in inserted :
        stage[MsgOf[d]] = "queued" /\ (\A e \in EntriesOf(MsgOf[d]) : e = d) =>
            /\ d \in DOMAIN docs \/ d \in ended
            /\ d \in DOMAIN docs => MsgOf[d] \in DOMAIN body

\* No accepted entry of a message with one recipient is lost, and its body is
\* there as long as the entry is, however insertMany inserts, when messages are
\* queued before the margin that clearGarbage leaves to bodies is over.
THEOREM SingleRecipient ==
    ASSUME TimelyPush
    PROVE  Spec => []SingleKept
<1>1. Inv /\ BodyOK => SingleKept
  BY DEF Inv, QueueOK, BodyOK, Underway, Whole, SingleKept
<1> QED BY <1>1, InvHolds, BodyHolds, PTL

\* No accepted entry is lost, whatever fails or dies: what is no longer in the
\* queue has been sent, bounced, suppressed, deleted on request or dropped for
\* its age, when the entries of a message appear in the database all at once,
\* before the margin that clearGarbage leaves to its body is over.
THEOREM NoLossHolds ==
    ASSUME AtomicInsert, TimelyPush
    PROVE  Spec => []NoLoss
<1>1. Inv /\ BodyOK => NoLoss
  BY DEF Inv, QueueOK, BodyOK, Underway, Whole, NoLoss
<1> QED BY <1>1, InvHolds, BodyHolds, PTL

\* Under the same conditions the body of an accepted message stays as long as
\* the message has an entry, and every variable keeps its shape.
THEOREM ConsistentHolds ==
    ASSUME AtomicInsert, TimelyPush
    PROVE  Spec => []Consistent
<1>1. Inv /\ BodyOK => QueuedHasBody
  BY DEF Inv, QueueOK, BodyOK, Underway, Whole, QueuedHasBody
<1> QED BY <1>1, InvHolds, InvIsTyped, BodyHolds, PTL DEF Consistent
=============================================================================
