----------------------------- MODULE MailQueue -----------------------------
(***************************************************************************)
(* The delivery queue of the master process: lib/mail-queue.js and the     *)
(* commands that lib/queue-server.js and lib/sending-zone.js pass to it,   *)
(* over the in-memory locks of QueueLocker.tla.                            *)
(*                                                                         *)
(* The queue entries and the message bodies are in a database; each call   *)
(* to it is a step of its own, so that what the master does for one client *)
(* interleaves with what it does for the others between any two calls.  A  *)
(* slot is one connection of a sender process (lib/sender.js): it asks for *)
(* a delivery, tries to send it and reports how that ended.                *)
(***************************************************************************)
EXTENDS Integers, FiniteSets

CONSTANTS
    Messages, Deliveries,  \* messages, and queue entries (one per recipient)
    MsgOf, DomainOf,       \* of each entry: its message, its recipient domain
    NoDelivery,
    Clients, Slots,        \* sender processes and their connections
    ClientOf,
    Remover,               \* the lock owner of a delete request
    Zone, Domains, NoDomain, MaxConnections,
    LockTtl, DeleteTtl,    \* lengths of the locks of shift and of remove
    GcAge,                 \* age at which the lock of an entry is undone
    EmptyTtl, DeferTtl,    \* cached "nothing found", delay of a deferred entry
    MaxQueueTime,          \* age at which an entry is dropped, 0 for never
    Requests,              \* requests to the API: "remove", "send"
    Margin,                \* of the collection of bodies: ten minutes
    AtomicInsert,          \* do the entries of a message appear all at once?
    TimelySenders,         \* does a sender report before its lock is over?
    TimelyPush,            \* is a message queued before the margin is over?
    MaxTime

ASSUME QueueAssumption ==
    /\ MsgOf \in [Deliveries -> Messages]
    /\ DomainOf \in [Deliveries -> Domains]
    /\ IsFiniteSet(Deliveries) /\ NoDelivery \notin Deliveries
    /\ ClientOf \in [Slots -> Clients]
    /\ Remover \notin Clients
    /\ NoDomain \notin Domains
    /\ MaxConnections \in [{Zone} -> [Domains -> Nat]]
    /\ {LockTtl, DeleteTtl, Margin} \subseteq Nat \ {0}
    /\ LockTtl < GcAge
    /\ {GcAge, EmptyTtl, DeferTtl, MaxQueueTime, MaxTime} \subseteq Nat
    /\ Requests \subseteq {"remove", "send"}
    /\ {AtomicInsert, TimelySenders, TimelyPush} \subseteq BOOLEAN

VARIABLES
    now, locks, lockOwners, domains, skip, skipCache, nextExpireCheck,
    lockCheckTimer,  \* see QueueLocker
    docs,       \* the queue entries in the database
    body,       \* the bodies in the database, with the time of their ids
    stage,      \* how far the acceptance of each message is
    inserted,   \* the entries that have been put in the queue
    client,     \* the connection of each sender process
    slot,       \* what the master does, or the sender does, for each slot
    emptyUntil, \* the cache entry "empty:<zone>"
    removal,    \* the delete request of the API that is being served
    gc,         \* what the garbage collector does with an old entry or with bodies
    ended       \* history: the entries that were sent, bounced or dropped

lockerVars == <<locks, lockOwners, domains, skip, skipCache, nextExpireCheck,
                lockCheckTimer>>
intakeVars == <<stage, inserted>>
vars == <<now, lockerVars, docs, body, intakeVars, client, slot, emptyUntil,
          removal, gc, ended>>

L == INSTANCE QueueLocker WITH
        Keys <- Deliveries, Zones <- {Zone}, Owners <- Clients \cup {Remover},
        Ttls <- {LockTtl, DeleteTtl}

EntriesOf(m) == {d \in Deliveries : MsgOf[d] = m}

(***************************************************************************)
(* Slots.  The first stages are those of a sender that has no delivery or  *)
(* works on one, the others those of a command the master is serving.      *)
(***************************************************************************)
SenderPcs == {"idle", "sending", "done", "deferring"}
MasterPcs == {"find", "found", "meta", "orphan", "check", "drop", "dropped",
              "dropbody", "release", "unref", "body", "defer", "undefer"}

IdleRemoval == [pc |-> "idle", todo |-> {}, entry |-> NoDelivery]
IdleGc == [pc |-> "idle", entry |-> NoDelivery, until |-> 0]
IdleSlot == [pc |-> "idle", entry |-> NoDelivery, asked |-> 0, skip |-> {}]

Goto(s, pc) == slot' = [slot EXCEPT ![s].pc = pc]
FindAgain(s) == slot' = [slot EXCEPT ![s].pc = "find", ![s].entry = NoDelivery]

\* A bug to be found: the entry of the last delivery is kept.
ToIdleKeepEntry(s) == slot' = [slot EXCEPT ![s].pc = "idle"]

ToIdle(s) == slot' = [slot EXCEPT ![s] = IdleSlot]

\* The sender of the slot is connected to the master.
Connected(s) == client[ClientOf[s]] \in {"up", "closing"}

\* The sender has been given an entry and has not reported its end yet.
Working(s) == Connected(s) /\ slot[s].pc \in SenderPcs \ {"idle"}

Entry == [locked : BOOLEAN, lockTime : Nat, queued : Nat, created : Nat]

\* Every variable keeps its shape.
TypeOK ==
    /\ L!TypeOK
    /\ DOMAIN docs \subseteq Deliveries
    /\ docs \in [DOMAIN docs -> Entry]
    /\ DOMAIN body \subseteq Messages
    /\ body \in [DOMAIN body -> Nat]
    /\ stage \in [Messages -> {"new", "stored", "queued", "failing", "failed", "cut"}]
    /\ inserted \subseteq Deliveries
    /\ client \in [Clients -> {"new", "up", "closing", "gone"}]
    /\ slot \in [Slots -> [pc : SenderPcs \cup MasterPcs,
                           entry : Deliveries \cup {NoDelivery},
                           asked : Nat, skip : SUBSET Domains]]
    /\ \A s \in Slots : slot[s].entry = NoDelivery <=> slot[s].pc \in {"idle", "find"}
    /\ emptyUntil \in Nat
    /\ removal \in [pc : {"idle", "next", "delete", "unref", "body"},
                    todo : SUBSET Deliveries, entry : Deliveries \cup {NoDelivery}]
    /\ gc \in [pc : {"idle", "drop", "unref", "body", "clear"},
               entry : Deliveries \cup {NoDelivery}, until : Nat]
    /\ ended \subseteq Deliveries

Init ==
    /\ L!Init
    /\ docs = [d \in {} |-> {}]
    /\ body = [m \in {} |-> 0]
    /\ stage = [m \in Messages |-> "new"]
    /\ inserted = {}
    /\ client = [c \in Clients |-> "new"]
    /\ slot = [s \in Slots |-> IdleSlot]
    /\ emptyUntil = 0
    /\ removal = IdleRemoval
    /\ gc = IdleGc
    /\ ended = {}

(***************************************************************************)
(* The database.                                                           *)
(***************************************************************************)
DocsWithout(D) == [d \in DOMAIN docs \ D |-> docs[d]]

Unlocked(doc) == [doc EXCEPT !.locked = FALSE, !.lockTime = 0]

BodiesWithout(M) == [m \in DOMAIN body \ M |-> body[m]]

\* A bug to be found: other entries are not looked for.
NeverReferenced(m) == TRUE

\* No entry is left that refers to the body of m.
Unreferenced(m) == EntriesOf(m) \cap DOMAIN docs = {}

\* A body is deleted; an error of that is not passed on.
DeleteBody(m) == body' \in {body, BodiesWithout({m})}

\* The lock of an entry is given up by name, whoever holds it by then.
Unlock(d) ==
    IF d \in DOMAIN locks THEN L!Release(d) ELSE UNCHANGED <<now, lockerVars>>

(***************************************************************************)
(* Acceptance of a message: lib/mail-drop.js stores the body, then push    *)
(* inserts an entry per recipient.  A body has its id, and with it its     *)
(* time, from the begin of the upload.                                     *)
(***************************************************************************)
Store(m) ==
    /\ stage[m] = "new"
    /\ body' = [n \in DOMAIN body \cup {m} |-> IF n = m THEN now ELSE body[n]]
    /\ stage' = [stage EXCEPT ![m] = "stored"]
    /\ UNCHANGED <<now, lockerVars, docs, inserted, client, slot, emptyUntil,
                   removal, gc, ended>>

NewEntry == [locked |-> FALSE, lockTime |-> 0, queued |-> now, created |-> now]

\* insertMany({ordered: false}) puts entries in the queue, in several batches
\* when there are many.
Insert(m, D) ==
    /\ stage[m] = "stored"
    /\ D # {} /\ D \subseteq EntriesOf(m) \ inserted
    /\ AtomicInsert => D = EntriesOf(m)
    /\ docs' = [d \in DOMAIN docs \cup D |-> IF d \in D THEN NewEntry ELSE docs[d]]
    /\ inserted' = inserted \cup D
    /\ UNCHANGED <<now, lockerVars, body, stage, client, slot, emptyUntil,
                   removal, gc, ended>>

\* insertMany has returned: the client is told that the message is queued.
PushDone(m) ==
    /\ stage[m] = "stored"
    /\ EntriesOf(m) \subseteq inserted
    /\ stage' = [stage EXCEPT ![m] = "queued"]
    /\ UNCHANGED <<now, lockerVars, docs, body, inserted, client, slot,
                   emptyUntil, removal, gc, ended>>

\* insertMany fails, with none, some or all of the entries inserted.
PushFails(m) ==
    /\ stage[m] = "stored"
    /\ stage' = [stage EXCEPT ![m] = "failing"]
    /\ UNCHANGED <<now, lockerVars, docs, body, inserted, client, slot,
                   emptyUntil, removal, gc, ended>>

\* MailDrop removes the body of a message it could not queue and tells the
\* client; the entries stay.
PushUndone(m) ==
    /\ stage[m] = "failing"
    /\ DeleteBody(m)
    /\ stage' = [stage EXCEPT ![m] = "failed"]
    /\ UNCHANGED <<now, lockerVars, docs, inserted, client, slot, emptyUntil,
                   removal, gc, ended>>

(***************************************************************************)
(* shift, called for a GET command: finds and locks the next entry.        *)
(***************************************************************************)
restVars == <<intakeVars, client, emptyUntil, removal, gc>>

\* The query is made once: its date and skip list serve all the attempts.
Shift(s) ==
    /\ client[ClientOf[s]] = "up"
    /\ slot[s].pc = "idle"
    /\ emptyUntil <= now
    /\ L!ListSkipDomains(Zone)
    /\ slot' = [slot EXCEPT ![s] = [pc |-> "find", entry |-> NoDelivery, asked |-> now,
                                    skip |-> L!SkipDomains(Zone)]]
    /\ UNCHANGED <<docs, body, restVars, ended>>

Findable(s) ==
    {d \in DOMAIN docs : /\ ~docs[d].locked
                         /\ docs[d].queued <= slot[s].asked
                         /\ DomainOf[d] \notin slot[s].skip}

\* A bug to be found: the update forgets to set "locked".
MarkLockedTimeOnly(d) == docs' = [docs EXCEPT ![d].lockTime = now]

MarkLocked(d) == docs' = [docs EXCEPT ![d].locked = TRUE, ![d].lockTime = now]

\* findOneAndUpdate locks an entry in the database.
Find(s, d) ==
    /\ slot[s].pc = "find"
    /\ d \in Findable(s)
    /\ MarkLocked(d)
    /\ slot' = [slot EXCEPT ![s].pc = "found", ![s].entry = d]
    /\ UNCHANGED <<now, lockerVars, body, restVars, ended>>

FindNothing(s) ==
    /\ slot[s].pc = "find"
    /\ Findable(s) = {}
    /\ ToIdle(s)
    /\ emptyUntil' = IF EmptyTtl = 0 THEN emptyUntil ELSE now + EmptyTtl
    /\ UNCHANGED <<now, lockerVars, docs, body, intakeVars, client, removal, gc,
                   ended>>

\* The call fails, before or after it has had its effect.
FindFails(s) ==
    /\ slot[s].pc = "find"
    /\ ToIdle(s)
    /\ \/ UNCHANGED docs
       \/ \E d \in Findable(s) : MarkLocked(d)
    /\ UNCHANGED <<now, lockerVars, body, restVars, ended>>

\* The callback takes the in-memory lock, or tries the next entry and leaves
\* this one locked in the database.
LockFound(s) ==
    LET d == slot[s].entry
    IN  /\ slot[s].pc = "found"
        /\ IF d \notin DOMAIN locks
           THEN /\ L!Lock(d, Zone, DomainOf[d], ClientOf[s], LockTtl)
                /\ Goto(s, "meta")
           ELSE /\ FindAgain(s)
                /\ UNCHANGED <<now, lockerVars>>
        /\ UNCHANGED <<docs, body, restVars, ended>>

\* getMeta
ReadMeta(s) ==
    /\ slot[s].pc = "meta"
    /\ IF MsgOf[slot[s].entry] \in DOMAIN body THEN Goto(s, "check") ELSE Goto(s, "orphan")
    /\ UNCHANGED <<now, lockerVars, docs, body, restVars, ended>>

\* getMeta or the getMeta of findNext fails: the lock goes, the entry stays
\* locked in the database.
ReadMetaFails(s) ==
    /\ slot[s].pc \in {"meta", "check"}
    /\ Unlock(slot[s].entry)
    /\ ToIdle(s)
    /\ UNCHANGED <<docs, body, restVars, ended>>

\* No body: all the entries of the message are dropped, and the search goes on
\* whether that works or not.
DropOrphans(s) ==
    /\ slot[s].pc = "orphan"
    /\ docs' \in {docs, DocsWithout(EntriesOf(MsgOf[slot[s].entry]))}
    /\ Unlock(slot[s].entry)
    /\ FindAgain(s)
    /\ UNCHANGED <<body, restVars, ended>>

\* The recipient is on the suppression list.
Suppress(s) ==
    /\ slot[s].pc = "check"
    /\ Goto(s, "drop")
    /\ ended' = ended \cup {slot[s].entry}
    /\ UNCHANGED <<now, lockerVars, docs, body, restVars>>

\* The reply of GET; when the client is gone it is dropped, and the entry
\* stays locked in the database and in memory.
Respond(s) ==
    /\ slot[s].pc = "check"
    /\ IF Connected(s)
       THEN slot' = [slot EXCEPT ![s].pc = "sending", ![s].asked = 0, ![s].skip = {}]
       ELSE ToIdle(s)
    /\ UNCHANGED <<now, lockerVars, docs, body, restVars, ended>>

(***************************************************************************)
(* The sender.                                                             *)
(***************************************************************************)
\* The MX accepts or rejects the message: it is delivered, or bounced.
SendDone(s) ==
    /\ Connected(s)
    /\ slot[s].pc = "sending"
    /\ Goto(s, "done")
    /\ ended' = ended \cup {slot[s].entry}
    /\ UNCHANGED <<now, lockerVars, docs, body, restVars>>

\* The failure is temporary.
SendFails(s) ==
    /\ Connected(s)
    /\ slot[s].pc = "sending"
    /\ Goto(s, "deferring")
    /\ UNCHANGED <<now, lockerVars, docs, body, restVars, ended>>

(***************************************************************************)
(* RELEASE and DEFER.  getDelivery looks the entry up first; when it is    *)
(* gone the reply is false and the lock is not looked at.                  *)
(***************************************************************************)
LookUp(s) ==
    /\ Connected(s)
    /\ slot[s].pc \in {"done", "deferring"}
    /\ IF slot[s].entry \notin DOMAIN docs THEN ToIdle(s)
       ELSE Goto(s, IF slot[s].pc = "deferring" THEN "defer" ELSE "release")
    /\ UNCHANGED <<now, lockerVars, docs, body, restVars, ended>>

\* deleteOne and its callback, for an entry that is done with or suppressed.
DeleteEntry(s) ==
    /\ slot[s].pc \in {"release", "drop"}
    /\ docs' = DocsWithout({slot[s].entry})
    /\ Unlock(slot[s].entry)
    /\ Goto(s, IF slot[s].pc = "drop" THEN "dropped" ELSE "unref")
    /\ UNCHANGED <<body, restVars, ended>>

\* RELEASE is answered; after a suppressed entry the search goes on.
EntryDone(s) ==
    IF slot[s].pc \in {"unref", "body"} THEN ToIdle(s) ELSE FindAgain(s)

\* findOne looks for another entry of the message.
LookForOthers(s) ==
    /\ slot[s].pc \in {"unref", "dropped"}
    /\ IF Unreferenced(MsgOf[slot[s].entry])
       THEN Goto(s, IF slot[s].pc = "unref" THEN "body" ELSE "dropbody")
       ELSE EntryDone(s)
    /\ UNCHANGED <<now, lockerVars, docs, body, restVars, ended>>

\* There was none.
DropBody(s) ==
    /\ slot[s].pc \in {"body", "dropbody"}
    /\ DeleteBody(MsgOf[slot[s].entry])
    /\ EntryDone(s)
    /\ UNCHANGED <<now, lockerVars, docs, restVars, ended>>

\* The entry is put back, for later; it can be found from now on.
DeferEntry(s) ==
    LET d == slot[s].entry
    IN  /\ slot[s].pc = "defer"
        /\ docs' = IF d \in DOMAIN docs
                   THEN [docs EXCEPT ![d].locked = FALSE, ![d].queued = now + DeferTtl]
                   ELSE docs
        /\ Goto(s, "undefer")
        /\ UNCHANGED <<now, lockerVars, body, restVars, ended>>

\* The callback of the update gives up the lock.
DeferDone(s) ==
    /\ slot[s].pc = "undefer"
    /\ Unlock(slot[s].entry)
    /\ ToIdle(s)
    /\ UNCHANGED <<docs, body, restVars, ended>>

\* The database fails for a suppressed entry: GET fails, the sender asks again.
DropFails(s) ==
    /\ slot[s].pc \in {"drop", "dropped"}
    /\ Unlock(slot[s].entry)
    /\ ToIdle(s)
    /\ UNCHANGED <<docs, body, restVars, ended>>

\* A command fails.  A failed deleteOne gives up the lock, a failed look up or
\* update does not.  The client stops asking but stays connected.
CommandFails(s) ==
    /\ slot[s].pc \in {"done", "deferring", "release", "unref", "defer"}
    /\ slot[s].pc \in SenderPcs => Connected(s)
    /\ IF slot[s].pc = "release" THEN Unlock(slot[s].entry)
                                 ELSE UNCHANGED <<now, lockerVars>>
    /\ ToIdle(s)
    /\ client' = IF client[ClientOf[s]] = "up"
                 THEN [client EXCEPT ![ClientOf[s]] = "closing"] ELSE client
    /\ UNCHANGED <<docs, body, intakeVars, emptyUntil, removal, gc, ended>>

(***************************************************************************)
(* Sender processes come and go, and so does the master.                   *)
(***************************************************************************)
\* HELLO
Connect(c) ==
    /\ client[c] = "new"
    /\ client' = [client EXCEPT ![c] = "up"]
    /\ UNCHANGED <<now, lockerVars, docs, body, intakeVars, slot, emptyUntil,
                   removal, gc, ended>>

\* The connection is lost, or the process died: the master gives up the locks
\* of the client and goes on with its commands; the sender's work is undone.
Close(c) ==
    /\ client[c] \in {"up", "closing"}
    /\ IF lockOwners[c] # {} THEN L!ReleaseLockOwner(c)
                             ELSE UNCHANGED <<now, lockerVars>>
    /\ client' = [client EXCEPT ![c] = "gone"]
    /\ slot' = [s \in Slots |->
                  IF ClientOf[s] = c /\ slot[s].pc \in SenderPcs THEN IdleSlot
                                                                 ELSE slot[s]]
    /\ UNCHANGED <<docs, body, intakeVars, emptyUntil, removal, gc, ended>>

\* The master dies with all it has in memory, and its senders follow.  When it
\* is up again, init undoes the locks in the database.
Restart ==
    /\ docs' = [d \in DOMAIN docs |->
                  IF docs[d].locked THEN Unlocked(docs[d]) ELSE docs[d]]
    /\ locks' = [d \in {} |-> {}]
    /\ lockOwners' = [o \in Clients \cup {Remover} |-> {}]
    /\ domains' = [z \in {Zone} |-> [x \in Domains |-> {}]]
    /\ skip' = [z \in {Zone} |-> {}]
    /\ skipCache' = [z \in {Zone} |-> L!NoCache]
    /\ nextExpireCheck' = L!Never
    /\ lockCheckTimer' = L!Never
    /\ stage' = [m \in Messages |->
                   IF stage[m] \in {"stored", "failing"} THEN "cut" ELSE stage[m]]
    /\ client' = [c \in Clients |-> IF client[c] = "new" THEN "new" ELSE "gone"]
    /\ slot' = [s \in Slots |-> IdleSlot]
    /\ emptyUntil' = 0
    /\ removal' = IdleRemoval
    /\ gc' = IdleGc
    /\ UNCHANGED <<now, body, inserted, ended>>

(***************************************************************************)
(* The API: remove deletes the entries of a message one by one, under a    *)
(* lock of its own; update makes the entries of a message due.             *)
(***************************************************************************)
apiFrame == <<intakeVars, client, slot, emptyUntil, gc>>

RemoveStart(m) ==
    /\ "remove" \in Requests
    /\ removal.pc = "idle"
    /\ EntriesOf(m) \cap DOMAIN docs # {}
    /\ removal' = [pc |-> "next", todo |-> EntriesOf(m) \cap DOMAIN docs,
                   entry |-> NoDelivery]
    /\ UNCHANGED <<now, lockerVars, docs, body, apiFrame, ended>>

\* An entry that is locked in memory is left out.
RemoveNext(d) ==
    /\ removal.pc = "next"
    /\ d \in removal.todo
    /\ IF d \in DOMAIN locks
       THEN /\ removal' = [removal EXCEPT !.todo = @ \ {d}]
            /\ UNCHANGED <<now, lockerVars>>
       ELSE /\ removal' = [pc |-> "delete", todo |-> removal.todo \ {d}, entry |-> d]
            /\ L!Lock(d, Zone, NoDomain, Remover, DeleteTtl)
    /\ UNCHANGED <<docs, body, apiFrame, ended>>

NextToRemove == removal' = [removal EXCEPT !.pc = "next", !.entry = NoDelivery]

\* releaseDelivery, whether deleteOne works or not.
RemoveDelete ==
    /\ removal.pc = "delete"
    /\ \/ /\ docs' = DocsWithout({removal.entry})
          /\ ended' = ended \cup {removal.entry}
          /\ removal' = [removal EXCEPT !.pc = "unref"]
       \/ NextToRemove /\ UNCHANGED <<docs, ended>>
    /\ Unlock(removal.entry)
    /\ UNCHANGED <<body, apiFrame>>

\* Other entries are looked for, in vain or not, or that fails.
RemoveLook ==
    /\ removal.pc = "unref"
    /\ \/ /\ Unreferenced(MsgOf[removal.entry])
          /\ removal' = [removal EXCEPT !.pc = "body"]
       \/ NextToRemove
    /\ UNCHANGED <<now, lockerVars, docs, body, apiFrame, ended>>

RemoveBody ==
    /\ removal.pc = "body"
    /\ NextToRemove
    /\ DeleteBody(MsgOf[removal.entry])
    /\ UNCHANGED <<now, lockerVars, docs, apiFrame, ended>>

\* All entries are done with, or the cursor fails.
RemoveDone ==
    /\ removal.pc = "next"
    /\ IF lockOwners[Remover] # {} /\ removal.todo # {}
       THEN L!ReleaseLockOwner(Remover) ELSE UNCHANGED <<now, lockerVars>>
    /\ removal' = IdleRemoval
    /\ UNCHANGED <<docs, body, apiFrame, ended>>

SendNow(m) ==
    /\ "send" \in Requests
    /\ EntriesOf(m) \cap DOMAIN docs # {}
    /\ docs' = [d \in DOMAIN docs |->
                  IF MsgOf[d] = m THEN [docs[d] EXCEPT !.queued = now] ELSE docs[d]]
    /\ UNCHANGED <<now, lockerVars, body, apiFrame, removal, ended>>

(***************************************************************************)
(* clearGarbage                                                            *)
(***************************************************************************)
gcFrame == <<now, lockerVars, intakeVars, client, slot, emptyUntil, removal>>

\* A bug to be found: a lock is undone before it is over in memory.
StaleEarly == {d \in DOMAIN docs : docs[d].locked /\ docs[d].lockTime + 1 <= now}

\* A bug to be found: only the locks that are held in memory are undone.
StaleInMemory ==
    {d \in DOMAIN docs \cap DOMAIN locks :
        docs[d].locked /\ docs[d].lockTime + GcAge <= now}

\* The entries whose lock in the database is older than any lock in memory.
Stale == {d \in DOMAIN docs : docs[d].locked /\ docs[d].lockTime + GcAge <= now}

GcUnlock ==
    /\ gc.pc = "idle"
    /\ Stale # {}
    /\ docs' = [d \in DOMAIN docs |->
                  IF d \in Stale THEN Unlocked(docs[d]) ELSE docs[d]]
    /\ UNCHANGED <<gcFrame, body, gc, ended>>

\* The cursor returns an entry that was too old and not locked when it was read.
GcRead(d) ==
    /\ gc.pc = "idle"
    /\ MaxQueueTime > 0
    /\ d \in DOMAIN docs
    /\ ~docs[d].locked
    /\ docs[d].created + MaxQueueTime <= now
    /\ gc' = [pc |-> "drop", entry |-> d, until |-> 0]
    /\ UNCHANGED <<gcFrame, docs, body, ended>>

\* releaseDelivery, for an entry without a lock; an error is logged.
GcDrop ==
    /\ gc.pc = "drop"
    /\ \/ /\ docs' = DocsWithout({gc.entry})
          /\ ended' = ended \cup {gc.entry}
          /\ gc' = [gc EXCEPT !.pc = "unref"]
       \/ /\ gc' = IdleGc
          /\ UNCHANGED <<docs, ended>>
    /\ UNCHANGED <<gcFrame, body>>

GcLook ==
    /\ gc.pc = "unref"
    /\ \/ Unreferenced(MsgOf[gc.entry]) /\ gc' = [gc EXCEPT !.pc = "body"]
       \/ gc' = IdleGc
    /\ UNCHANGED <<gcFrame, docs, body, ended>>

GcBody ==
    /\ gc.pc = "body"
    /\ gc' = IdleGc
    /\ DeleteBody(MsgOf[gc.entry])
    /\ UNCHANGED <<gcFrame, docs, ended>>

\* A bug to be found: only the age of the bodies counts.
ClearAll(until) == until + Margin = now

\* The time of the oldest entry, or now if there is none, less the margin
ClearsUntil(until) ==
    IF DOMAIN docs = {} THEN until + Margin = now
    ELSE /\ \E d \in DOMAIN docs : until + Margin = docs[d].created
         /\ \A d \in DOMAIN docs : until + Margin <= docs[d].created

\* The round ends with the bodies.  No body is older than time 0.
GcOldest ==
    /\ gc.pc = "idle"
    /\ \E until \in 0..MaxTime :
          /\ ClearsUntil(until)
          /\ gc' = [pc |-> "clear", entry |-> NoDelivery, until |-> until]
    /\ UNCHANGED <<gcFrame, docs, body, ended>>

\* deleteMany, by the ids alone; when it fails the round is over as well.
GcClear ==
    /\ gc.pc = "clear"
    /\ gc' = IdleGc
    /\ body' \in {body, BodiesWithout({m \in DOMAIN body : body[m] <= gc.until})}
    /\ UNCHANGED <<gcFrame, docs, ended>>

(***************************************************************************)
(* Time.                                                                   *)
(***************************************************************************)
\* The locks that are over in memory, released by the timer of the locker.
LocksExpire ==
    /\ L!CheckExpired
    /\ UNCHANGED <<docs, body, intakeVars, client, slot, emptyUntil, removal, gc, ended>>

\* The slot still has an entry when the lock on it is about to be over.
Late(s) ==
    LET d == slot[s].entry
    IN  /\ d \in DOMAIN docs
        /\ docs[d].locked
        /\ docs[d].lockTime + LockTtl <= now + 1

\* The message is not in the queue when the margin of its body is about to be over.
Slow(m) ==
    /\ stage[m] = "stored" /\ m \in DOMAIN body
    /\ body[m] + Margin <= now + 1

Tick ==
    /\ now < MaxTime
    /\ TimelySenders => \A s \in Slots : ~Late(s)
    /\ TimelyPush => \A m \in Messages : ~Slow(m)
    /\ now' = now + 1
    /\ UNCHANGED <<lockerVars, docs, body, intakeVars, client, slot, emptyUntil,
                   removal, gc, ended>>

(***************************************************************************)
(* The whole.                                                              *)
(***************************************************************************)
Intake ==
    \E m \in Messages :
        \/ Store(m)
        \/ \E D \in SUBSET EntriesOf(m) : Insert(m, D)
        \/ PushDone(m)
        \/ PushFails(m)
        \/ PushUndone(m)

Get(s) ==
    \/ Shift(s)
    \/ \E d \in Deliveries : Find(s, d)
    \/ FindNothing(s)
    \/ FindFails(s)
    \/ LockFound(s)
    \/ ReadMeta(s)
    \/ ReadMetaFails(s)
    \/ DropOrphans(s)
    \/ Suppress(s)
    \/ Respond(s)
    \/ DropFails(s)

Report(s) ==
    \/ SendDone(s)
    \/ SendFails(s)
    \/ LookUp(s)
    \/ DeleteEntry(s)
    \/ LookForOthers(s)
    \/ DropBody(s)
    \/ DeferEntry(s)
    \/ DeferDone(s)
    \/ CommandFails(s)

Api ==
    \/ \E m \in Messages : RemoveStart(m) \/ SendNow(m)
    \/ \E d \in Deliveries : RemoveNext(d)
    \/ RemoveDelete
    \/ RemoveLook
    \/ RemoveBody
    \/ RemoveDone

GcGoesOn == GcDrop \/ GcLook \/ GcBody \/ GcClear

Garbage ==
    \/ GcUnlock
    \/ \E d \in Deliveries : GcRead(d)
    \/ GcOldest
    \/ GcGoesOn

Next ==
    \/ Intake
    \/ \E s \in Slots : Get(s) \/ Report(s)
    \/ \E c \in Clients : Connect(c) \/ Close(c)
    \/ Restart
    \/ Api
    \/ Garbage
    \/ LocksExpire
    \/ Tick

Spec == Init /\ [][Next]_vars

\* The clock goes on, and each round of the garbage collector, which starts
\* every minute, begins with the locks.
FairSpec ==
    Spec /\ WF_vars(Tick) /\ SF_vars(GcUnlock) /\ WF_vars(GcGoesOn)

(***************************************************************************)
(* Properties.                                                             *)
(***************************************************************************)
\* At least once: an entry of a message that was accepted leaves the queue only
\* after the entry has been sent, bounced, suppressed, deleted on request or
\* dropped for its age, whatever fails, dies or is done at the same time.
NoLoss ==
    \A d \in inserted :
        stage[MsgOf[d]] = "queued" => d \in DOMAIN docs \/ d \in ended

\* The body of an accepted message is kept as long as the message has an entry.
QueuedHasBody ==
    \A d \in DOMAIN docs : stage[MsgOf[d]] = "queued" => MsgOf[d] \in DOMAIN body

\* The queue and its bodies agree, however the calls that change one after the
\* other fail or interleave, and whatever bodies the collector takes for old.
Consistent == TypeOK /\ QueuedHasBody

\* No two senders work on the same entry at a time.
OneSender ==
    \A s, t \in Slots :
        Working(s) /\ Working(t) /\ slot[s].entry = slot[t].entry => s = t

\* An entry that is being sent stays locked in the database, where the lock
\* does not depend on the connections of the senders.
SentIsLocked ==
    \A s \in Slots :
        Working(s) /\ slot[s].entry \in DOMAIN docs => docs[slot[s].entry].locked

\* Entry d has been locked at time t, and nothing in the master has it any more.
Abandoned(d, t) ==
    /\ d \in DOMAIN docs /\ docs[d].locked /\ docs[d].lockTime = t
    /\ \A s \in Slots : slot[s].entry # d

\* The lock of an entry that no sender and no command has any longer, after a
\* failed command, a lost client or a lost race, is undone.
AbandonedIsFreed ==
    \A d \in Deliveries : \A t \in 0..(MaxTime - GcAge) :
        Abandoned(d, t) ~> ~Abandoned(d, t)

\* README.md:186, "the lock is released automatically if the child dies": a
\* sender that is gone holds no lock.
DeadOwnerHoldsNoLock ==
    \A c \in Clients : client[c] = "gone" => lockOwners[c] = {}

\* README.md:172, "it will not create more connections than allowed".
ConnectionLimit ==
    \A x \in Domains :
        MaxConnections[Zone][x] # 0 =>
            Cardinality({s \in Slots : Working(s) /\ DomainOf[slot[s].entry] = x})
                <= MaxConnections[Zone][x]
=============================================================================
