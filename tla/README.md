# ZoneMTA, specified and checked

This directory holds TLA+ modules for the parts of ZoneMTA (`src/lib`, `src/services`, `src/app.js`)
that decide what happens to a message between its arrival and its end, the TLC configurations that
check them on small instances, and proofs of what matters most in them. Paths below are
relative to `src/`.

* [1 The system](#1-the-system)
* [2 Modules and what they stand for](#2-modules-and-what-they-stand-for)
* [3 The runs](#3-the-runs)
* [4 Time, fairness and assumptions](#4-time-fairness-and-assumptions)
* [5 What is proved](#5-what-is-proved)
* [6 Where the code and its documentation differ](#6-where-the-code-and-its-documentation-differ)
* [7 What is not modelled](#7-what-is-not-modelled)
* [8 Plan](#8-plan)

## 1 The system

One master process (`app.js`) owns the queue. Receiver processes accept messages over SMTP, sender
processes deliver them; both talk to the master over a local socket. The entries of the queue (one per
recipient) are documents of a MongoDB collection, the message bodies GridFS files.

| Component | State | Operations | Interacts with |
|---|---|---|---|
| Delivery locks, `lib/queue-locker.js` | locks, index by owner, locks and skip list per zone and domain, cached skip list, one timer | lock, release, releaseLockOwner, checkExpired, listSkipDomains | called by the queue and the queue server |
| Delivery queue, `lib/mail-queue.js` | entries and bodies in the database (`locked`, `lockTime`, `queued`), the cache key `empty:<zone>` | push, shift, releaseDelivery, deferDelivery, remove, update, clearGarbage, init | locks, cache, database |
| Intake, `lib/mail-drop.js`, `lib/remote-queue.js` | a message being stored: its stream, its upload, which callback is outstanding | add: store the body, push the entries, take the body back if that fails | queue, plugins |
| Queue server, `lib/queue-server.js` | the connected clients and their ids | HELLO, GET, RELEASE, DEFER, BOUNCE, SETCACHE, GETCACHE, CLEARCACHE, PUSH, REMOVE, INDEX; releases a client's locks when its connection ends | queue, zones, all children |
| Cache, `lib/ttl-cache.js` | a map, an array in the order of expiry, one timer, callbacks that are due | get, set, remove, flush, checkExpired | queue, queue server, back-off |
| Sending zones, `lib/sending-zone.js` | children of each zone, respawn timers, `disabledAddresses` per domain | init, spawnSenders, spawnSender, deferDelivery, removeFromBlacklist, getAddress, throttling | cache, queue, child processes |
| Sender process, `services/sender.js` | its senders, the commands without an answer, timers that are to start senders | connect, sendCommand, onData, spawnConnections, reload | queue server, senders |
| Sender, `lib/sender.js` | for each attempt a set of flags shared by timers, events and callbacks | sendNext, handleResponseError, getConnectionWithCache, getConnection, sendBounceMessage | queue server, MX servers, connection pool |
| Connection pool, `lib/connection-pool.js` | open connections by key, kill timers | getConnection, add, killConnection | sender |
| Transport, `lib/transport/*` | bytes of an unfinished frame | send, read, getFrame, close | queue server, children |
| SMTP proxy and receivers, `lib/receiver/smtp-proxy.js`, `services/receiver.js` | receiver processes and whose turn it is, respawn timers, sockets handed over | spawnReceiver, connection, passSocket, stop | SMTP sessions, queue server |
| SMTP sessions, `lib/smtp-interface.js` | one session per client | handleMessage, session hooks | intake, plugins |
| API server, `lib/api-server.js` | none of its own | send, delete, fetch, suppress, counters | queue |
| Plugin handler, `lib/plugin-handler.js`, `plugins/` | hooks in order of priority | addHook, runHooks | all of the above |
| Bounce rules, message streams, DKIM, addresses, counters | | pure functions and stream transforms | intake, sender |
| Go port, `zone-mta-go/` | its own queue, senders, plugins | | shares nothing with the above |

What is hard here is order. The master is one thread, but every database call is a point where it turns
to another client, so each operation of the queue is a sequence of steps that interleaves with all
others. Locks exist twice, in memory (short, tied to a connection) and in the database (long, undone by
age), and are taken and given up at different steps. Each process can end at any time; the master
follows the loss of a connection, the senders the loss of the master. In a sender, one attempt is told
of its end by up to five callbacks, and plugins may hold its report back. And most clean-up hangs on a timer that several users share.

What makes the components correct:

* locks: the four structures agree; a full domain, and no other, is skipped; every lock ends, and the one
  timer sees to it; seen from outside it is a table of leases.
* queue: at least once (an accepted entry leaves the queue only when its delivery has ended); the body
  stays while there are entries; one sender per entry; an abandoned lock is undone.
* cache: array and map agree, the timer follows the first entry.
* back-off: an address is disabled exactly as long as its cache entry lasts.
* sending zones: a child that ends is replaced, each zone is started once and no zone is forgotten.
* sender: one loop per connection; each delivery has an outcome, and one only, unless the MX accepts it
  after its connection has failed.
* connections: one user each, none left open by nobody, none handed over in plaintext if the policy it was
  opened under enforces TLS, and every search for one ends; a server that answered is not called unreachable.
* transport and sender process: frames whole, in order and once; each command answered once; a process
  that has lost the master ends; enough senders after a reload.
* receivers: a process that ends is made up for, connections go round, each is served or ended.
* intake: what was answered as queued is kept, nothing is queued in part, each message is answered.

## 2 Modules and what they stand for

`LeaseTable` — what the locks promise: keys are leased to an owner for a time, and given back, lost with
their owner or over. `QueueLocker` implements it (`ImplementsLeases`).

`QueueLocker` — `lib/queue-locker.js`, one action per method (`Lock`, `Release`, `ReleaseLockOwner`,
`CheckExpired`, `ListSkipDomains`). `locks`, `lockOwners`, `domains` (the locks per zone and domain), `skip`
(`zone.skip`) and `skipCache` (`zone.skipCache`), `nextExpireCheck` and `lockCheckTimer` are the fields
of the class. `release` of several keys is written once for a set of keys (`ReleaseAll`).

`MailQueue` — the queue and the commands that reach it, over `QueueLocker` (instance `L`, sharing the
variables of the locks). Each database call is an action, and so is the sender's work on a delivery:

| Code | Actions |
|---|---|
| `MailDrop.add`, `push` | `Store`, `Insert`, `PushDone`, `PushFails`, `PushUndone` |
| GET: `shift` | `Shift`, `Find`, `FindNothing`, `FindFails`, `LockFound`, `ReadMeta`, `ReadMetaFails`, `DropOrphans`, `Suppress`, `DropFails`, `Respond` |
| RELEASE, DEFER: `getDelivery`, `releaseDelivery`, `deferDelivery` | `SendDone`, `SendFails`, `LookUp`, `DeleteEntry`, `LookForOthers`, `DropBody`, `DeferEntry`, `DeferDone`, `CommandFails` |
| HELLO, connection lost, crash of the master and `init` | `Connect`, `Close`, `Restart` |
| API delete and send | `RemoveStart`, `RemoveNext`, `RemoveDelete`, `RemoveLook`, `RemoveBody`, `RemoveDone`, `SendNow` |
| `clearGarbage` | `GcUnlock`; `GcRead`, `GcDrop`, `GcLook`, `GcBody`; `GcOldest`, `GcClear` |

A slot is one connection of a sender process; its `pc` says which callback is outstanding. `docs` are the
documents of the queue collection reduced to `locked`, `lockTime`, `queued` and `created`; `body` has the
messages that have a GridFS file, each with the time in its id. `ended` is history. When the last entry of a
message is gone its body is deleted in three steps, as in the code: `deleteOne`, the look for another entry
(`Unreferenced`), the deletion (`DeleteBody`), of which an error is not passed on. The last part of a round of
the garbage collector looks for the oldest entry (`GcOldest`) and deletes, in a step of its own, the bodies that
are older than it by `Margin` (`GcClear`).

`TtlCache` — `lib/ttl-cache.js`. `due` are the `setImmediate`s to updateTimer and checkExpired, `calls` the
callbacks of entries that are gone. Values are left out.

`Blacklist` — `deferDelivery`, `removeFromBlacklist` and `DomainConfig` of `lib/sending-zone.js`, with
`TtlCache` (instance `Cache`) and other users of the same cache. `DomainConfig` is one object for all
zones, so `disabled` has no zone. Only domains that the configuration names differ in `Configured`: the
code reads its defaults from `options.defaults`, while `config/default.js:494` has them in `default`, so
the default list is always empty.

`SenderProcesses` — `init`, `spawnSenders` and `spawnSender` of `lib/sending-zone.js`. A chain is one call
of `spawnSenders`, due (`spawnNext`) or waiting for a child (`origin`).

`Sender` — `sendNext` of `lib/sender.js` and what it calls. `att[a]` has the local variables of attempt `a`
under the code's names (`sendingDone`, `responseSent`, `connectionDone`, `connectTimer`), how far its main
path is (`main`), the connection events and answers that may still come. `handleError` sets `responseSent` and
waits for the plugins (`hook`); DEFER, or RELEASE and the bounce, follow when they call back
(`ResponseErrorHook`), and events, timers and the callback of `send` may come in between. `accepted` is history:
whether the MX took the message, and if so, whether that was after its connection had failed (`"late"`). `closing` is the sender's flag and
stands for the removed error listener too, as they change together.

`ConnectionPool` — `lib/connection-pool.js`, one operator per method, with the variables that the class
keeps. `SenderConnection` extends it with `getConnectionWithCache` and `getConnection` of `lib/sender.js`:
`delivery[d]` has the variables of the call for one delivery (`ignoreTLS`, `ignoreMXHosts`, `netConnected`,
`callbackReturned`), `conn[c]` those of one SMTP connection and of the closure that opened it (`returned`,
the timer of `end`); `ignoreTLS` begins with what the zone is configured with; `commands` are GETCACHE, SETCACHE and CLEARCACHE on their way. An identity of `Conns`
is used again when nothing refers to it any more. What the delivery does with its connection is in `Sender`.

`FrameChannel` — what the transport promises: the frames sent are handed over in order and once.
`FrameStream` has the constants both sides share: where each frame starts (`Start`), and what is found
when four bytes at some place are read as a length (`LengthAt`), which is the length of a frame only at
the start of one. `FrameParser` — `lib/transport/frame-parser.js`: bytes arrive in chunks cut anywhere,
`read` and `getFrame` take them apart (`chunklen`, `frame`, `step`), and it implements `FrameChannel`
(`FramesInOrder`). The bytes are positions in the stream, so a frame that is cut out at the wrong place
or twice is a different pair of positions.

`SenderService` — `services/sender.js`, `lib/transport/connection.js`, `client.js`, `server.js` and the
handlers of `lib/queue-server.js` around the queue's work. Answers go through `FrameParser` (instance
`Parser`, sharing its variables), commands through a sequence, which is the channel that it implements.
`sender[s]` is what one sender waits for, `responseHandlers` and `cmdId` have the code's names, `client`
is the variable of the handler on the side of the master.

`SmtpProxy` — `lib/receiver/smtp-proxy.js`, `services/receiver.js` and `stop` of `app.js`. `children` is
the Set in the order of insertion, and `passed` says how many of its members the iterator `selector` is
past: JavaScript's iterator of a Set skips nothing when an earlier member is deleted and sees members
that are added. A child that is `"gone"` has closed its channel, and its `close` event has not run yet. Where `send` throws the
connection is answered 421 and the turn of the process is over.

`MailDrop` — `handleMessage` of `lib/smtp-interface.js`, `add` of `lib/mail-drop.js`, `store` and `setMeta`
of `lib/remote-queue.js`, PUSH and REMOVE of the master, and the collection of bodies in `clearGarbage`.
`msg[m].at` is the callback that is waited for, `msg[m].stream` how far the stream has come; they go on by
themselves. Where nothing listens for an error of the stream the process ends (`Crash`). `MailQueue` has
the rest of the life of an entry; here it is delivered in one step, or dropped when its body is missing.

`MC...` modules give constants their values. Definitions under a comment "a bug to be found" are variants
of the definition they precede; nothing uses them, they are there to be put in its place to see that a
property notices.

## 3 The runs

| Run | Instance | Shows |
|---|---|---|
| `locker` (`MCQueueLocker.cfg`) | 2 keys, 2 owners, 3 domains that take one, two and any number of connections, leases of 1 and 2, time to 5 | indexes, counts, skip list, its cache and the timer stay consistent under every order of the operations; the locker implements `LeaseTable`; each lock that is over is released |
| `queue` (`MCMailQueue.cfg`) | 1 message with 2 entries, 2 senders in 2 processes, locks of 2 that are undone at the age of 3, a margin of 2 for bodies, time to 3 | no entry of an accepted message is lost, the body stays, one sender per entry, and its database lock holds while it sends; with failing calls, lost clients, rounds of the garbage collector and restarts |
| `queue_requests` (`MCMailQueueRequests.cfg`) | 2 entries, 1 sender, API delete and send, dropping by age, a margin of 1, time to 2 | delete requests and the garbage collector, racing a delivery, do not take other entries' message along |
| `queue_freed` (`MCMailQueueFreed.cfg`) | 1 entry, 1 sender that may report late, a message that may be queued late, time to 3 | an entry whose lock was left behind is given back |
| `blacklist` (`MCBlacklist.cfg`) | 2 domains, 2 addresses, another key with ttls 1 and 3 (the back-off has 2), reloads, time to 4 | the back-off holds while its entry is there, and ends with it |
| `processes` (`MCSenderProcesses.cfg`) | 2 zones with 2 children, 3 of which end or hang | each zone gets its children back; each is started once; one child too many at most for each that ended |
| `sender` (`MCSender.cfg`) | 2 attempts | one loop, one outcome (two if the MX accepts a message after its connection has failed), and no delivery without one, in every order of timers, events, hooks, callbacks and answers |
| `service` (`MCSenderService.cfg`) | 3 frames of one and two bytes, the last of which is too large, a length field of two, at most 3 senders (3 connections, reloaded to 1), 2 commands | answers come out whole, in order and once (`FramesInOrder`); a command that waits is at one place (`CommandsOnce`); enough senders (`Consistent`); each command is answered; a process ends when its connection is lost, or was ended by the master, or a frame cannot be read |
| `connect` (`MCSenderConnection.cfg`) | 2 deliveries with one key, 2 hosts for one of them, 2 connections, used twice at most | one user per connection and none open that nobody closes (`OneHolder`), TLS where the policy enforces it under which the connection was opened (`TlsIsKept`), no server called unreachable that had a socket, the gauge covers the pool, each search ends |
| `receivers` (`MCSmtpProxy.cfg`) | 3 processes of 4 identities, 2 of which end, 2 connections | what ends is made up for, the turns are fair, each connection is served or ended, the master stops with its receivers |
| `intake` (`MCMailDrop.cfg`) | 2 messages in one receiver, a margin of 2, time to 4 | what was answered as queued is kept, nothing is queued in part, a message that has come is answered |

The run `slow_upload` (`MCSlowUpload.cfg`) shows a difference between the code and what it says of itself;
see section 6.

Some properties are conjunctions of named parts, which have comments of their own: `Consistent` (types and
what relates the variables to each other), `OneHolder`, `Staffed`, `BackOffMatchesCache`.
Their parts are independent, so that each can be broken alone.

Why these bounds suffice. The locker: two keys in one domain with a limit of one reach over-full domains,
a domain that leaves the skip list by a second lock, and a timer that has to move to the second lock.
The queue: two entries are the least for which the end of one may harm the other (the body is shared), two
slots the least for a race, in two processes so that one can be lost alone. Time needs room for a lock and the
age at which it is undone, and in `queue` a lock of two units lets the clock go on while an entry is being sent:
the lock is then one unit old, and one that is undone a unit too early is lost under its sender. From time 2 on a body
may be as old as the margin while its entries are in the queue, or while it has none any more. The cache: three lengths of entries let a later one expire
first. Processes: two zones to see whether the second is reached, two children to have chains of both
kinds at once; `MCChildren` is large enough that no fork waits for the bound. Sender: an attempt only
meets its one successor through `sendingDone`; what an attempt left behind may do does not depend on how
many there are (and the proof is for any number).

Service: the length field has two bytes so that it can be cut, and three frames are two answers and the
notice of a master that stops, so the parser meets a chunk with the end of one frame, a whole one and the
begin of the next. Connect: two deliveries that share a key compete for a pooled connection; two connections
let one be in the pool while another is opened, and a pooled one is used again once. One delivery falls back
to no TLS, then to the other host. Three deliveries, where a key leaves the pool with a connection still
waiting, are beyond a run; the safety properties are proved for any number. Receivers: with three processes
two may end, before and after the place of the iterator, while a third is started. Intake: two messages of
one process, so that one can end the other, and time for a message to be older than the margin while the
other is stored.

Where deadlock is not checked the system may stop: a queue whose messages are all delivered has nothing to
do when the clock is at its bound, a closing master starts no children, a sender's attempts and commands are
bounded, deliveries and messages are over in the end.

## 4 Time, fairness and assumptions

Time is a counter that ticks at any moment up to `MaxTime`; a timer is due when the clock has reached it
and may fire later, as the event loop may be late.

* `QueueLocker!FairSpec`: the clock goes on, and a timer that is due fires (Node.js runs it).
* `MailQueue!FairSpec`: the clock goes on; a round of the garbage collector that has started is finished;
  and the round that undoes old locks happens again and again (every minute by `setTimeout` after the
  last): strong fairness, as other requests may undo the lock first and bring it back.
* `Blacklist!FairSpec`: immediates, timer and callbacks run, the clock goes on.
* `SenderProcesses!FairSpec`: what is due runs, and a child that is starting comes up, ends or is killed
  (two minutes). Nothing says that a child must come up, but only `MaxFailures` children fail.
* `SenderConnection!FairSpec`: commands are served, MX lookup and the SMTP library call back or fail, hooks
  call back, timers of the pool and of `end` fire.
* `SenderService!FairSpec`: the loops of both processes run what is due, bytes that were written arrive
  while the connection is there, the master ends its work for each command, and the end of the
  connection is noticed. Loss of the connection, reload and stop need not happen.
* `SmtpProxy!FairSpec`: immediates and timers run, `close` of a child comes, a handed connection is passed
  or its tries run out, stop comes to its end (its timer of ten seconds forces it), and a receiver ends
  when its master is gone. A start may hang for ever, clients may stay as long as they like.
* `MailDrop!FairSpec`: hooks, database and commands call back; an upload whose stream has ended finishes.
  That hooks call back is an assumption about plugins: `runHooks` waits for each without a timer. The
  stream itself may stop (the SMTP server's `socketTimeout` is not modelled).
* `Sender!FairSpec`: commands are answered, hooks call back, an SMTP connection ends its work (its
  timeouts in `getConnection` and in the SMTP library). Connection events need not happen.

Assumptions that are constants: `TimelySenders` (a sender reports before the lock on its entry is over; one
hour in the code, which bounds no delivery to that) holds in `queue` and `queue_requests` and is dropped in
`queue_freed`; `TimelyPush` of `MailQueue` and `Timely` of `MailDrop` (a message is queued before the margin of
the collection of bodies is over; ten minutes, which the code does not bound either) hold in `queue`,
`queue_requests` and `intake` and are dropped in `queue_freed` and `slow_upload`. They are guards of `Tick`: the
clock waits for the sender (`Late`) or the message (`Slow`) that would otherwise be too late, and for nobody
else, so in `queue` it goes on while entries with locks of two units are being sent. `AtomicInsert` (the entries of a
message appear all at once; `insertMany` does not promise it) is TRUE in all runs (section 6 has what
happens otherwise). Each database call is atomic; one that fails has changed nothing, except where an action
says that it may have (`FindFails`, `PushFails`).

## 5 What is proved

`QueueLockerProofs` proves, for all sets of keys, owners, zones and domains, all limits, lock lengths and
bounds of the clock that meet the assumption of the module:

| Theorem | Property |
|---|---|
| `TypeCorrect` | `TypeOK` |
| `IndexesCorrect` | `IndexConsistent`: the indexes by owner and by domain hold exactly the locks that exist |
| `TimerCorrect` | `TimerCoversLocks`: while there are locks the timer is set and no lock expires before its check |
| `SkipCorrect` | `SkippedDomainIsFull`: only a domain with all its connections in use is skipped |
| `ConsistentHolds` | `Consistent`: the conjunction of types, indexes and skip list |
| `SkipListCorrect` | `SkipListIsCurrent`: the cached list is the list |
| `LockerImplementsLeases` | `ImplementsLeases`: every behaviour of the locker is one of `LeaseTable` |

Type correctness is inductive. Consistency of the indexes is inductive given types, and the other three are
inductive given both, because whether a release empties an owner, or leaves a domain below its limit, is
decided by the indexes and must agree with the locks. So each theorem uses the earlier ones as invariants
(`[]TypeOK`, `[]IndexConsistent`) in its step. `release` and the three ways to it (one key, an owner, what
is over) are handled once, in the lemmas `ReleaseAll...` about `ReleaseAll(K)` for any set `K`; `Lock` has
its own (`LockIndex`, `LockSkip`). The refinement needs types only: a lock is a grant, a release of `K` is
the return of a key, the loss of an owner or the end of what is over, and the skip list stutters.

`SenderProofs` proves of `Sender`, for any number of attempts:

| Theorem | Property |
|---|---|
| `TypeCorrect` | `TypeOK` |
| `OneLoopHolds` | `OneLoop`: a sender that is not closing is one loop of `sendNext` |
| `OneOutcomeHolds` | `OneOutcome`: a delivery is reported once, or, if the MX accepts it after its connection has failed, as delivered and as failed |

`OneLoop` and `OneOutcome` are not inductive. The invariant `SenderInv` adds, for each attempt by itself
(`AttemptOK`), what its reports may be, given what the MX has said and whether the plugins hold back a failure
(`OutcomeOK`): a failure is reported only when `responseSent` is set and the plugins have called back, and they
are asked once; what was accepted in time has no failure, and `connectionDone` is set from then on, so that
neither error nor end of its connection counts; one that waits for the answer about a suppressed delivery has no
other report; and one that has not begun waits for nothing;
and, across attempts (`TurnOK`), that `sendingDone` passes the turn on at most once, which needs that
attempts begin in order. Each action changes one attempt: the lemmas `HandleErrorOK` and
`MovedOK` say what is done to its variables, `TurnKept`, `TurnPassed` and `TurnTaken`
what that does to the turn.

`MailDropProofs` proves, for any messages, receivers, margin and bound of the clock:

| Theorem | Property |
|---|---|
| `TypeCorrect` | `TypeOK`, with it that no message is answered twice |
| `OnlyWholeHolds` | `OnlyWholeIsQueued`: of what was refused or cut nothing is queued |
| `ConsistentHolds` | `Consistent`: the two before together |
| `AcceptedHolds` | `AcceptedIsKept`: what was answered as queued is sent or there with its body, if `Timely` |

`Inv` ties the callback that is waited for to how far the stream has come. For `AcceptedIsKept`, `Safe` adds
what relates a body to the collection: one that is under way, or whose entry is queued, is younger than
the time up to which the current round deletes. This is where `Timely` is needed, and nowhere else.

The same module has the theorems about `SmtpProxy`, which shares nothing with the intake, through an instance
`Proxy`. An instance brings no assumptions with it, so they have that of `SmtpProxy` as their hypothesis
(`ProxyConstants`). They hold for any number of processes, connections and ends:

| Theorem | Property |
|---|---|
| `ReceiversConsistent` | `Proxy!Consistent`: types, and who is missing among the receivers is on its way |
| `ReceiversTakeTurns` | `Proxy!TurnsAreTaken`: nobody is handed a second connection before all others had theirs |

`MissingIsOnItsWay` is inductive, given that the Set and the processes agree (`ListOK`): each member that is
deleted leaves one call behind. `CallsOK` says that there are no others: the calls that are due, with the
processes whose `close` has not run, are never more than the ends, and the first call. For the turns, `TurnsOK`
says where the debt can be: whoever had a connection is owed turns only by those between the selector and
itself, in the order of the Set. A deletion moves the places behind it, and the selector if it was past it, by
one and keeps the order of the others (lemma `Deletes`).

`SenderConnectionProofs` proves, for any number of deliveries, keys, hosts and connections, used any number
of times:

| Theorem | Property |
|---|---|
| `ConsistentHolds` | `Consistent`: types, and the gauge counts at least what is pooled |
| `OneHolderHolds` | `OneHolder`: each open connection has one holder, a delivery or a timer of the pool |
| `TlsHolds` | `TlsIsKept`: a connection opened under an enforced policy is handed over secure or not at all |
| `ReachedHolds` | `ReachedIsNotCached`: no server is called unreachable to which there was a socket |

One invariant (`Inv`) carries them all. Its part about the pool (`PoolOK`) says that a list of the pool has
only connections with a timer for its key, each once; the reverse is false, because a key is dropped with
its first connection, so a connection is held by its timer and not by the list. The others tie a delivery
to its connection: while it connects, they point at each other and no result was returned (`DeliveryOK`,
`ConnOK`), no two deliveries have the same connection (`Alone`), and each that waits for the cache has one
GETCACHE under way (`CommandsOK`). The lemmas `Taken`, `Added` and `Killed` say what the methods of the pool
do to its timers; `Told` what a new command does; `Leaves`, `Tried` and `AttemptFails` are about a delivery
that leaves its connection, which the six actions that end a try have in common.

`MailQueueProofs` proves, for any messages, entries, slots, clients, lengths of locks and bounds of the clock:

| Theorem | Property |
|---|---|
| `TypeCorrect` | `TypeOK` |
| `LocksOfTheQueue` | all that `QueueLockerProofs` shows of the locks, in the queue that uses them |
| `SingleRecipient` | `SingleKept`: an accepted entry of a message with one recipient is kept, with its body, if `TimelyPush` |
| `NoLossHolds` | `NoLoss`: no accepted entry leaves before its delivery has ended, if `AtomicInsert` and `TimelyPush` |
| `ConsistentHolds` | `Consistent`: types, and the body stays with the entries, if `AtomicInsert` and `TimelyPush` |
| `OneSenderHolds` | `OneSender`: no entry is sent by two senders, if `TimelySenders` |
| `SentIsLockedHolds` | `SentIsLocked`: what is sent is locked in the database, if `TimelySenders` |

The hypotheses are constants of the model (section 4), and each theorem has only those it needs. What
the locks in memory guarantee is not proved again: each step of the queue is a step of the locker, leaves it
alone or restarts it, so the step lemmas of `QueueLockerProofs` apply through an instance (`SameSteps`,
`LockerKept`). The rest does not lean on these locks at all, because they may be given up by somebody who lost
them before. `LockOK` says that an entry that somebody works on is locked in the database by a lock that is not
old enough to be undone, and that no two slots work on one entry; `TimelySenders` is what keeps the garbage
collector away from it. `BodyOK` says, of a message that is stored or queued: an entry that was inserted is
there or has ended, and the body is there while an entry is, or is still to come; and of everybody who has looked
for other entries in vain and is about to delete a body, that no entry of its message is there (`DropsOK`), nor
will be: because the entries of a message appear at once, or because there is only one. The collection of bodies
does not look for entries but at times, so what keeps it away from a body is `TimeOK`, which rests on
`TimelyPush`: the body of a message that is stored is younger than the margin, that of an entry is older than the
entry by less than the margin, and no entry that is there, or still comes, is older than the oldest that the
round has found. Hence `SingleRecipient` does without `AtomicInsert`, but not without `TimelyPush`: the run
`slow_upload` has the body of an accepted message with one recipient collected.

`BlacklistProofs` proves, for any domains, addresses, other keys and times to live:

| Theorem | Property |
|---|---|
| `ConsistentHolds` | `Consistent`: types; the array of the cache matches its map; the timer covers the first entry |
| `BackOffMatchesCacheHolds` | `BackOffMatchesCache`: an address is disabled as long as its cache entry lasts |

The array has one record per key of the map, with its expiry, in order (`Matches`). The lemmas about the
array say that this survives taking records out (`MatchesPart`, of which `MatchesWithout` and `MatchesRest`
are instances: one key, or the first ones), and putting one in after those that do not expire later
(`MatchesInserted`). They rest on lemmas about `RemoveAt` and `InsertAt`, as what recursion computes is out of
reach: so `TtlCache` says where the loop of `set` puts its record (`InsertSorted`), not how it gets there.
For the back-off, an address that is disabled and not configured so has an entry or a callback that is due,
or lost its entry to a reload (section 6).

`SenderServiceProofs` proves, for any number of senders, commands, connections of a zone and reloads, and
frames of any sizes:

| Theorem | Property |
|---|---|
| `ConsistentHolds` | `Consistent`: types, and no reload leaves fewer senders than the zone has connections |
| `CommandsOnceHolds` | `CommandsOnce`: a waiting command is at one place, and a sender waits for one answer |
| `ParserTypeCorrect` | `Parser!TypeOK` |
| `ParserImplementsChannel` | every behaviour of `FrameParser` is one of `FrameChannel` |
| `FramesInOrderHolds` | `FramesInOrder`: the connection implements `FrameChannel` |

The parser comes first, by itself: for any cutting into chunks, `ParserInv` says where it is in the stream,
at the start of a frame or just behind the length of one (`Aligned`). That a length is read only there, and so
right, is why the next frame is cut out whole. Every step of the connection is a step of the parser or leaves
it alone (`StreamStep`), so the connection implements the channel because the parser does.

`Inv` contains `ParserInv`: the frame that is handed over is the next one the master sent (`HandedIsNext`), so
`onData` takes the answers off one by one. `UnderWay` says, while the connection is open, that a command is in `responseHandlers` exactly if it is written, worked on or answered,
and at only one of the three; each action moves one command from one of these places to the next. `OneEach`
says the same of a sender: it waits exactly if it has a command without an answer or a callback that is due,
and never two. Both are about existence and uniqueness; `AtMostOne` turns them into the numbers
of the properties at the end. For the reload, `KeptEnough` shows that the first c + 1 senders are kept, if
there are as many: of the senders after them the least has c + 1 before it.

`SenderProcessesProofs` proves, for any number of zones, processes, children and failures:

| Theorem | Property |
|---|---|
| `StaffedHolds` | `Staffed`: a zone that lacks children has more on their way, and has never many too many |
| `OneStartHolds` | `OneStartAtATime`: one caller at most goes on with the next zone |

`spawnSenders` checks only the children that are up, not those that are starting, and a child that ends, or
takes too long to start, begins a chain of its own. So `ProcessBound` does not follow from that check alone.
`ChainsOK` counts, for each zone, the chains that are due, wait for a child, or follow from one that ended or
was killed: a zone begins with one, each failure adds one at most, and all other steps turn one of these into
another, or end it. When a chain forks, fewer children are up than configured, and each that is starting
has another chain, of which there are no more than failures; hence `ForksOK`, the children that are up or
starting are at most as many more than configured as have failed. `RepairOK` is the other direction: a chain
ends only when the zone is complete. The lemmas `ContinueStep` and `TakenOffStep` do the counting for the two
things that actions have in common, a chain that goes on and a child that is taken off the list. `OneCaller`
needs no counts: `nextZone`, a chain of `init` that is due and a child that one waits for exclude each other.

Out of the prover's reach and therefore only model-checked: liveness (`ExpiredIsReleased`,
`AbandonedIsFreed`, `BackOffIsOver`, `ZonesStart`, `StaffedAgain`, `FetchedIsReported`, `KeepsSending`,
`CommandIsAnswered`, `LostMasterEndsProcess`, `ConnectEnds`, `HandedIsServed`, `FilledAgain`, `StopsInTheEnd`,
`ReceivedIsAnswered`), anything that needs ENABLED, and induction over data. All other properties that the
passing runs check, invariants and refinements and what a step may not do, are proved.

## 6 Where the code and its documentation differ

`slow_upload` has the trace. README.md:186: messages are deleted from the queue only after a positive
response; mail-queue.js:1045 has ten minutes "just in case". The id of a body has the time its upload
began, the id of an entry that of its insertion. When more than ten minutes lie between them (a client
that sends slowly, or slow hooks) and no older entry is in the queue, `clearGarbage` deletes the body of a
message that is being stored, or was just answered as queued; its entries are later dropped as orphans.

The modules have formulas for six more differences. No run checks them; put as INVARIANT or PROPERTY
into the .cfg that is named, TLC shows each of them violated:

* `DeadOwnerHoldsNoLock` (`MCMailQueue.cfg`). README.md:186: a lock is released if the child dies. A GET
  that still waits for the database when its client is lost takes its lock afterwards, for an owner that is
  gone; it lasts its hour.
* `ConnectionLimit` (`MCMailQueue.cfg` with `MaxConnections <- MCOne`). README.md:172: no more connections
  to a domain than allowed. Two GETs in parallel, or one that retries with its old query, do not see each
  other's lock.
* `NoLoss` (`MCMailQueue.cfg` with `AtomicInsert = FALSE`). README.md:186. When the entries of a message
  appear one after the other and the first is delivered before the next is there, the body is taken for
  unreferenced and removed; the others are later dropped as orphans.
* `ReloadClears` (`MCBlacklist.cfg`). config/default.js:488: a reload clears the blacklist. It clears the
  cache entries but not the disabled addresses, which then stay disabled until the master is restarted.
* `ClosedIsReported` (`MCSender.cfg`). lib/sender.js:318-334 wants to defer a delivery whose connection is
  closed. It reads the message of a null error, and the process ends.
* `PooledIsFound` (`MCSenderConnection.cfg` with three deliveries). connection-pool.js:26-28 removes a key
  whose list is empty. It asks for the `size` of an array, which is undefined, so the key always goes with
  its first connection, and the others wait for their timers without being found.

Other observations from the models:

* A message that the MX accepts after its connection has failed is released and also deferred or bounced
  (`OneOutcome`; sender.js:576 logs it as UNEXPECTED and goes on). Which of the two comes first depends on the
  plugins (`sender:responseError`, sender.js:167).
* The garbage collector drops an old entry that it read earlier even when `shift` has taken it since
  (mail-queue.js:999, 1015), and `remove` may delete an entry whose lock `shift` has only in the database
  (mail-queue.js:616): the entry is sent although it was dropped or deleted.
* A message that was refused to its sender because `insertMany` failed may still be delivered to the
  recipients whose entries were inserted (mail-drop.js:221-236 removes the body, not the entries).
* A zone can get more children than configured (`ProcessBound` says how many): spawnSenders counts those
  that are up, and a child that ends before it is up is replaced by its chain and by its timer.
* A child that hangs for two minutes at its start is killed but its callback is never called
  (sending-zone.js:235-243): zones after it do not start and the plugins of the master are not loaded.
* When the master answers one RELEASE or DEFER with an error, all senders of the process close
  (services/sender.js:136-144), but the process neither exits nor opens new ones, also when it loses the
  master later.
* A reload to fewer connections keeps one sender more than configured (services/sender.js:163). The senders
  it closes have no `error` listener any more, so one failed RELEASE of theirs ends the process.
* An answer of more than three megabytes is refused by the parser of the child (frame-parser.js:66), which
  ends the process, and that of the next process that gets the same delivery.
* `send` of a connection looks at `closing` and `closed`, the fields are `_closing` and `_closed`
  (connection.js:53): what is written after close() goes to a socket that has ended.
* The gauge of the pool counts too much for good when a pooled connection is found closed
  (connection-pool.js:31-34). The key of the pool has neither the TLS policy nor the login of the delivery:
  a connection opened for one delivery is used for another that enforces TLS.
* A connection that arrives between the end of a receiver's channel and its `close` event stops the whole
  master: the `error` event of the child has no listener and is uncaught (smtp-proxy.js:237, app.js:201).
  The proxy listens before any receiver exists and answers 421 until then.
* The hooks of the plugins of a receiver are not waited for (services/receiver.js:113), so the first sessions
  may run without them.
* An error of a message's stream before the `message:store` hooks are done, or after they refused it, has
  no listener: the receiver ends with all its sessions (mail-drop.js:148-161). If it comes later and the
  upload then fails while it is being ended, the client never gets an answer (remote-queue.js:36-49; `"stuck"`
  in `MailDrop`).
* A PUSH that fails after its entries were inserted leaves them: a message that was refused to its sender
  is delivered if its body is not removed in time, and dropped as orphan if it is.
* plugins/README.md:55 has `enabled: true` for a plugin everywhere, plugin-handler.js:334-336 makes `'*'` of
  it; the comment at :333 says the default is "main", the code uses 'receiver'.
* `runHooks` calls `done` inside `then` and again in the `catch` behind it (plugin-handler.js:498-500): a
  callback that throws is called a second time, with its own exception.
* README.md:182 has a back-off of 6 hours, config/default.js:489 one of 1 hour.

## 7 What is not modelled

* The text of messages, headers, DKIM, bounce rules and reports: data the properties do not tell apart. A
  failed attempt is one outcome; whether it is deferred or bounced is chosen freely.
* The side of the master for BOUNCE, INDEX and the counters.
* In `MailQueue` a sender reports a delivery once; the second report of a message that was accepted after its
  connection had failed (section 6) is in `Sender` only.
* Frames that are no JSON: both sides write them with `frames.encode`.
* TLS and SNI in the SMTP proxy, authentication and the commands before DATA: checks of one client's input.
* How hooks are ordered and run (`lib/plugin-handler.js`): a hook is a choice of success or refusal, its
  calling back an assumption.
* The handlers of the API, the choice of zone and address, the Go port.
* Several ZoneMTA instances on one database.

PROJECT.json lists every component with its status and every hazard with the properties that cover it, or
the reason why none does.

## 8 Plan

Done: locks, queue, cache, back-off, sender processes, the sender with its connections, its process and
transport, receivers and intake.

Next modules: `PluginHandler` (order, errors and early ends of hooks), the choice of zone and address,
BOUNCE with the crash between RELEASE and the report, the Go port's queue manager and sender workers.

What the runs check of safety is proved; the next theorems are those of the next modules.
