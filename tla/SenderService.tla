--------------------------- MODULE SenderService ----------------------------
(***************************************************************************)
(* A sender process and its connection to the master: services/sender.js,  *)
(* lib/transport/* and the side of the master, lib/queue-server.js.        *)
(*                                                                         *)
(* The process starts a number of senders, which share one connection and  *)
(* one table of commands that wait for their answers.  The master serves   *)
(* the commands of a connection at the same time and answers in any order. *)
(* A sender is seen from its process: it gets a delivery, works on it and  *)
(* releases it; how it does that is in Sender.tla.                         *)
(*                                                                         *)
(* Answers come through the parser of FrameParser.tla, commands through    *)
(* the channel that it implements.                                         *)
(***************************************************************************)
EXTENDS FrameStream, Sequences, FiniteSets

CONSTANTS
    Connections,    \* zone.connections, before and after reloads
    FirstConnections,
    MaxSenders,     \* bounds of the senders, the commands and the reloads
    MaxCommands,
    MaxReloads

\* Each command has one answer, and a master that stops sends one frame more.
ASSUME ServiceAssumption ==
    /\ Connections \subseteq Nat \ {0} /\ FirstConnections \in Connections
    /\ {MaxSenders, MaxCommands, MaxReloads} \subseteq Nat
    /\ Frames > MaxCommands

Senders == 1..MaxSenders
Commands == 1..MaxCommands

VARIABLES
    process,         \* of the child
    closing,         \* of the child: a sender had an error
    due,             \* timers that are to start a sender
    sender,          \* what each sender does
    senders,         \* the set `senders`
    zoneConnections,
    reloads,         \* how many reloads there were
    cmdId,
    responseHandlers, \* command -> the sender that waits for its answer
    callbacks,       \* the answers that have been read, for their callbacks
    commands,        \* on their way to the master
    link,            \* the connection
    client,          \* of the master: null, or what it knows of the client
    running,         \* of the master: the commands it works on
    answers,         \* the frames the master has sent
    sent, arrived, taken, chunklen, frame, step, cut, last \* see FrameParser

childVars == <<due, sender, senders, zoneConnections, reloads>>
requestVars == <<cmdId, responseHandlers, callbacks>>
masterVars == <<client, running>>
streamVars == <<sent, arrived, taken, chunklen, frame, step, cut, last>>
vars == <<process, closing, childVars, requestVars, commands, link, masterVars,
          answers, streamVars>>

Parser == INSTANCE FrameParser

Hello == [cmd |-> "HELLO", req |-> 0]
CloseFrame == [req |-> 0, answer |-> "close"]
Request(cmd, id) == [cmd |-> cmd, req |-> id]
Answer(id, answer) == [req |-> id, answer |-> answer]

Running == process \in {"init", "up"}

Init ==
    /\ process = "new"
    /\ closing = FALSE
    /\ due = 0
    /\ sender = [s \in Senders |-> "none"]
    /\ senders = {}
    /\ zoneConnections = FirstConnections
    /\ reloads = 0
    /\ cmdId = 0
    /\ responseHandlers = [c \in {} |-> 0]
    /\ callbacks = << >>
    /\ commands = << >>
    /\ link = "none"
    /\ client = "null"
    /\ running = {}
    /\ answers = << >>
    /\ Parser!Init

(***************************************************************************)
(* The start of the process.                                               *)
(***************************************************************************)
\* queueClient.connect
Connect ==
    /\ process = "new"
    /\ process' = "init"
    /\ link' = "up"
    /\ client' = "unnamed"
    /\ commands' = <<Hello>>
    /\ UNCHANGED <<closing, childVars, requestVars, running, answers, streamVars>>

\* queue.init has connected to the database: the senders are to be started.
QueueReady ==
    /\ process = "init"
    /\ process' = "up"
    /\ due' = zoneConnections
    /\ UNCHANGED <<closing, sender, senders, zoneConnections, reloads, requestVars,
                   commands, link, masterVars, answers, streamVars>>

Exit ==
    /\ process' = "exited"
    /\ UNCHANGED <<closing, childVars, requestVars, commands, link, masterVars,
                   answers, streamVars>>

\* The database cannot be reached.
QueueFails == process = "init" /\ Exit

Spawned == {s \in Senders : sender[s] # "none"}

\* The timer of spawnConnections.
SpawnSender ==
    /\ process = "up"
    /\ due > 0
    /\ Spawned # Senders
    /\ due' = due - 1
    /\ sender' = [sender EXCEPT ![Cardinality(Spawned) + 1] = "idle"]
    /\ senders' = senders \cup {Cardinality(Spawned) + 1}
    /\ UNCHANGED <<process, closing, zoneConnections, reloads, requestVars, commands,
                   link, masterVars, answers, streamVars>>

(***************************************************************************)
(* Commands.                                                               *)
(***************************************************************************)
\* sendCommand; what is written to a connection that is gone is lost.
SendCommand(s, cmd) ==
    /\ cmdId < MaxCommands
    /\ cmdId' = cmdId + 1
    /\ responseHandlers' = [c \in DOMAIN responseHandlers \cup {cmdId + 1} |->
                              IF c = cmdId + 1 THEN s ELSE responseHandlers[c]]
    /\ commands' = IF link = "up" THEN Append(commands, Request(cmd, cmdId + 1))
                                  ELSE commands
    /\ UNCHANGED <<process, closing, due, senders, zoneConnections, reloads,
                   callbacks, link, masterVars, answers, streamVars>>

\* A sender that was closed does not ask for another delivery.
Get(s) ==
    /\ process = "up"
    /\ sender[s] = "idle"
    /\ s \in senders
    /\ sender' = [sender EXCEPT ![s] = "get"]
    /\ SendCommand(s, "GET")

Release(s) ==
    /\ process = "up"
    /\ sender[s] = "work"
    /\ sender' = [sender EXCEPT ![s] = "release"]
    /\ SendCommand(s, "RELEASE")

(***************************************************************************)
(* The master.                                                             *)
(***************************************************************************)
\* A frame is written to the client.
Write(message) ==
    /\ Parser!Send
    /\ answers' = Append(answers, message)

\* client.onData for the next command of the client.
Serve ==
    /\ commands # << >>
    /\ commands' = Tail(commands)
    /\ LET message == Head(commands)
       IN  \/ /\ client = "null"
              /\ UNCHANGED <<masterVars, answers, streamVars>>
           \/ /\ client # "null" /\ message = Hello
              /\ client' = "named"
              /\ UNCHANGED <<running, answers, streamVars>>
           \/ /\ client = "named" /\ message # Hello
              /\ running' = running \cup {message}
              /\ UNCHANGED <<client, answers, streamVars>>
           \/ /\ client = "unnamed" /\ message # Hello
              /\ Write(Answer(message.req, "zone not set"))
              /\ UNCHANGED masterVars
    /\ UNCHANGED <<process, closing, childVars, requestVars, link>>

Outcomes(cmd) ==
    IF cmd = "GET" THEN {"delivery", "nothing", "error"} ELSE {"released", "error"}

\* The work for a command is done.
Finish(message) ==
    /\ message \in running
    /\ running' = running \ {message}
    /\ IF client # "null"
       THEN \E outcome \in Outcomes(message.cmd) : Write(Answer(message.req, outcome))
       ELSE UNCHANGED <<answers, streamVars>>
    /\ UNCHANGED <<process, closing, childVars, requestVars, commands, link, client>>

\* The master stops: it says so, and ends the connection after what it has sent.
MasterStops ==
    /\ client # "null"
    /\ link = "up"
    /\ Write(CloseFrame)
    /\ client' = "null"
    /\ link' = "ended"
    /\ UNCHANGED <<process, closing, childVars, requestVars, commands, running>>

(***************************************************************************)
(* Answers.                                                                *)
(***************************************************************************)
\* A bug to be found: the command is not forgotten.
WithoutNone(id) == responseHandlers

Without(id) ==
    [c \in DOMAIN responseHandlers \ {id} |-> responseHandlers[c]]

Handed == Parser!FrameOf(cut)

\* onData, with the frame that the parser hands over.
OnData ==
    LET id == answers[Handed].req
    IN  /\ Parser!ProcessFrame
        /\ IF Handed \in DOMAIN answers /\ id \in DOMAIN responseHandlers
           THEN /\ responseHandlers' = Without(id)
                /\ callbacks' = Append(callbacks, [to |-> responseHandlers[id],
                                                   answer |-> answers[Handed].answer])
           ELSE UNCHANGED <<responseHandlers, callbacks>>
        /\ UNCHANGED <<process, closing, childVars, cmdId, commands, link, masterVars,
                       answers>>

\* Bytes arrive, as long as the connection is there.
Arrive ==
    /\ link \in {"up", "ended"}
    /\ Parser!ArriveSome
    /\ UNCHANGED <<process, closing, childVars, requestVars, commands, link,
                   masterVars, answers>>

Parse ==
    /\ Running
    /\ Parser!Read \/ Parser!ReadNothing
    /\ UNCHANGED <<process, closing, childVars, requestVars, commands, link,
                   masterVars, answers>>

(***************************************************************************)
(* The callback of a command: what the sender does with the answer.  An    *)
(* error for GET is waited out.                                            *)
(***************************************************************************)
NextState(s, answer) ==
    IF sender[s] = "get" /\ answer = "delivery" THEN "work" ELSE "idle"

\* An answer that is no failure, or the failure of GET.
Answered(s, answer) ==
    /\ answer = "error" => sender[s] = "get"
    /\ sender' = [sender EXCEPT ![s] = NextState(s, answer)]
    /\ UNCHANGED <<process, closing, senders>>

\* The sender has an error: all the senders are closed, and nobody listens to
\* their errors any more.
SenderError(s, answer) ==
    /\ answer = "error" /\ sender[s] = "release"
    /\ s \in senders
    /\ sender' = [sender EXCEPT ![s] = "idle"]
    /\ closing' = TRUE
    /\ senders' = {}
    /\ UNCHANGED process

\* The error of a sender that was closed before ends the process.
UnheardError(s, answer) ==
    /\ answer = "error" /\ sender[s] = "release"
    /\ s \notin senders
    /\ process' = "exited"
    /\ UNCHANGED <<sender, closing, senders>>

Callback ==
    /\ Running
    /\ callbacks # << >>
    /\ callbacks' = Tail(callbacks)
    /\ LET c == Head(callbacks)
       IN  \/ Answered(c.to, c.answer)
           \/ SenderError(c.to, c.answer)
           \/ UnheardError(c.to, c.answer)
    /\ UNCHANGED <<due, zoneConnections, reloads, cmdId, responseHandlers, commands,
                   link, masterVars, answers, streamVars>>

(***************************************************************************)
(* The end of the connection.                                              *)
(***************************************************************************)
\* It is lost: what has not arrived will not.
LinkLost ==
    /\ link \in {"up", "ended"}
    /\ link' = "lost"
    /\ commands' = << >>
    /\ UNCHANGED <<process, closing, childVars, requestVars, masterVars, answers,
                   streamVars>>

\* Bugs to be found: one of the three is not noticed.
AtEndOfStream ==
    \/ link = "ended" /\ arrived = taken /\ arrived = Parser!SentBytes
    \/ step = "failed"
AtEndWhenLost == link = "lost" \/ step = "failed"
AtEndUnlessFailed ==
    \/ link = "lost"
    \/ link = "ended" /\ arrived = taken /\ arrived = Parser!SentBytes

\* The child has read all that there is (the last frame need not have been
\* handed over yet), or a frame is too large.
AtEnd ==
    \/ link = "lost"
    \/ link = "ended" /\ arrived = taken /\ arrived = Parser!SentBytes
    \/ step = "failed"

\* 'close' or 'error' of queueClient
ChildSeesEnd ==
    /\ Running
    /\ AtEnd
    /\ process' = IF closing THEN process ELSE "exited"
    /\ link' = "lost"
    /\ commands' = << >>
    /\ UNCHANGED <<closing, childVars, requestVars, masterVars, answers, streamVars>>

\* 'close' of the client: its locks are released, its answers dropped.
MasterSeesEnd ==
    /\ client # "null"
    /\ link = "lost" \/ process = "exited"
    /\ client' = "null"
    /\ commands' = << >>
    /\ link' = "lost"
    /\ UNCHANGED <<process, closing, childVars, requestVars, running, answers,
                   streamVars>>

(***************************************************************************)
(* A reload of the configuration, by which the zone has c connections.     *)
(***************************************************************************)
\* A bug to be found: the count is increased before it is compared.
KeptOneLess(c) ==
    {s \in senders : Cardinality({t \in senders : t < s}) + 1 < c}

\* The senders in the order they were started: those after the first c + 1 are
\* closed (the count is increased after it is compared).
KeptOnReload(c) ==
    {s \in senders : Cardinality({t \in senders : t < s}) <= c}

Reload(c) ==
    /\ process = "up"
    /\ reloads < MaxReloads
    /\ c # zoneConnections
    /\ reloads' = reloads + 1
    /\ zoneConnections' = c
    /\ due' = IF c > zoneConnections THEN due + c - zoneConnections ELSE due
    /\ senders' = IF c < zoneConnections THEN KeptOnReload(c) ELSE senders
    /\ UNCHANGED <<process, closing, sender, requestVars, commands, link, masterVars,
                   answers, streamVars>>

Child ==
    \/ Connect \/ QueueReady \/ SpawnSender \/ Callback \/ ChildSeesEnd
    \/ \E s \in Senders : Get(s) \/ Release(s)

Master == Serve \/ (\E message \in running : Finish(message)) \/ MasterSeesEnd

Stream == Arrive \/ Parse \/ (Running /\ OnData)

Next ==
    \/ Child \/ Master \/ Stream
    \/ QueueFails
    \/ MasterStops
    \/ LinkLost
    \/ \E c \in Connections : Reload(c)

Spec == Init /\ [][Next]_vars

\* The event loops run what is due, the master ends its work for each command,
\* bytes arrive, and the end of the connection is noticed.
FairSpec ==
    /\ Spec
    /\ WF_vars(QueueReady) /\ WF_vars(SpawnSender) /\ WF_vars(Callback)
    /\ WF_vars(Serve) /\ WF_vars(Arrive) /\ WF_vars(Parse \/ (Running /\ OnData))
    /\ WF_vars(ChildSeesEnd) /\ WF_vars(MasterSeesEnd)
    /\ \A c \in Commands :
          WF_vars(\E message \in running : message.req = c /\ Finish(message))
    /\ \A s \in Senders : WF_vars(Release(s))

(***************************************************************************)
(* Properties.                                                             *)
(***************************************************************************)
\* Every variable keeps its shape.
TypeOK ==
    /\ process \in {"new", "init", "up", "exited"}
    /\ closing \in BOOLEAN
    /\ due \in Nat
    /\ sender \in [Senders -> {"none", "idle", "get", "work", "release"}]
    /\ senders \subseteq Spawned
    /\ zoneConnections \in Connections
    /\ cmdId \in 0..MaxCommands
    /\ DOMAIN responseHandlers \subseteq 1..cmdId
    /\ link \in {"none", "up", "ended", "lost"}
    /\ client \in {"null", "unnamed", "named"}
    /\ Len(answers) = sent
    /\ Parser!TypeOK

\* The answers come out of the stream whole, in order and once each.
FramesInOrder == Parser!FramesInOrder

\* The places where command c is on its way or its answer is.
Places(c) ==
    Cardinality({i \in DOMAIN commands : commands[i].req = c})
    + Cardinality({m \in running : m.req = c})
    + Cardinality({i \in DOMAIN answers : i > Parser!FrameOf(last) /\ answers[i].req = c})

\* While the connection is there and the master has not ended it, a command
\* that waits for its answer is under way at exactly one place, and one that
\* does not wait is nowhere: none is lost, done twice or answered twice.
WaitingIsUnderWay ==
    link = "up" /\ client # "null" /\ Running =>
        \A c \in 1..cmdId :
            Places(c) = IF c \in DOMAIN responseHandlers THEN 1 ELSE 0

\* A sender waits for at most one command, and never for one whose answer has
\* been given to it.
OneCommandEach ==
    Running => \A s \in Senders :
        Cardinality({c \in DOMAIN responseHandlers : responseHandlers[c] = s})
        + Cardinality({i \in DOMAIN callbacks : callbacks[i].to = s})
            = IF sender[s] \in {"get", "release"} THEN 1 ELSE 0

\* Every command is done and answered once, and its answer is given to the sender
\* that waits for it.
CommandsOnce == WaitingIsUnderWay /\ OneCommandEach

EnoughSenders ==
    process = "up" /\ ~closing => Cardinality(senders) + due >= zoneConnections

\* The variables keep their shape, and a reload never leaves the process with
\* fewer senders than the zone has connections, also when senders are still
\* being started.
Consistent == TypeOK /\ EnoughSenders

\* Each command is answered in the end, unless the process ends or has closed
\* its senders after an error.
CommandIsAnswered ==
    \A c \in Commands :
        c \in DOMAIN responseHandlers
            ~> (c \notin DOMAIN responseHandlers \/ process = "exited" \/ closing)

\* A process that has no master any more ends, so that its zone starts another:
\* whether the connection was lost, the master ended it (the process reads what
\* is still on its way, cut anywhere), or a frame cannot be read while the
\* connection goes on.
LostMasterEndsProcess ==
    (process = "up" /\ (link \in {"ended", "lost"} \/ step = "failed"))
        ~> (process = "exited" \/ closing)
=============================================================================
