------------------------------ MODULE SmtpProxy -------------------------------
(***************************************************************************)
(* An SMTP interface of the master and its receiver processes:             *)
(* lib/receiver/smtp-proxy.js, the sockets of services/receiver.js, and    *)
(* what of app.js starts and stops them.                                   *)
(*                                                                         *)
(* The master listens, keeps a number of receiver processes and hands each *)
(* connection to the next of them.  It listens before it has any, a        *)
(* process gets connections before it can serve them, and the end of a     *)
(* process is heard after the channel to it is closed.                     *)
(***************************************************************************)
EXTENDS Integers, Sequences, FiniteSets

CONSTANTS
    Processes,  \* options.processes
    Children,   \* identities of processes, used again when one has ended
    Sockets,    \* identities of connections, used again when one is over
    MaxExits    \* bound: how many processes end

ASSUME ProxyAssumption ==
    /\ Processes \in Nat \ {0}
    /\ Children \subseteq Nat \ {0}
    /\ IsFiniteSet(Children)
    /\ MaxExits \in Nat

VARIABLES
    children,   \* the Set, in the order of insertion
    passed,     \* how many of them the selector has passed, the first ones
    started,    \* has app.js called spawnReceiver for the first time?
    spawns,     \* calls of spawnReceiver that wait in an immediate
    respawns,   \* and in a timer
    closing,
    running,    \* is the master there?
    child,      \* "none", "starting", "ready", or "gone" and not heard of yet
    socket,     \* where each connection is, and in which process
    exits,      \* how many processes have ended
    owed        \* history: child -> who was there when it had its turn and has had
                \* none since

vars == <<children, passed, started, spawns, respawns, closing, running,
          child, socket, exits, owed>>

NoChild == 0

Nowhere == [at |-> "new", child |-> NoChild]

Listed == {children[i] : i \in DOMAIN children}

Init ==
    /\ children = << >>
    /\ passed = 0
    /\ started = FALSE
    /\ spawns = 0 /\ respawns = 0
    /\ closing = FALSE
    /\ running = TRUE
    /\ child = [c \in Children |-> "none"]
    /\ socket = [s \in Sockets |-> Nowhere]
    /\ exits = 0
    /\ owed = [c \in {} |-> {}]

(***************************************************************************)
(* The processes.                                                          *)
(***************************************************************************)
\* A bug to be found: one process too many.
RoomForOneMore == Len(children) <= Processes

Room == Len(children) < Processes

\* spawnReceiver, which calls itself in the next turn until all are there;
\* `waiting` are the calls that wait already.
SpawnReceiver(waiting) ==
    IF ~Room
    THEN spawns' = waiting /\ UNCHANGED <<children, child>>
    ELSE \E c \in Children :
            /\ child[c] = "none"
            /\ \A d \in Children : child[d] = "none" => c <= d
            /\ children' = Append(children, c)
            /\ child' = [child EXCEPT ![c] = "starting"]
            /\ spawns' = waiting + (IF Len(children) + 1 < Processes THEN 1 ELSE 0)

\* app.js, when the queue is there
Start ==
    /\ running /\ ~started
    /\ started' = TRUE
    /\ SpawnReceiver(spawns)
    /\ UNCHANGED <<passed, respawns, closing, running, socket, exits, owed>>

SpawnNext ==
    /\ running /\ spawns > 0
    /\ SpawnReceiver(spawns - 1)
    /\ UNCHANGED <<passed, started, respawns, closing, running, socket, exits, owed>>

\* The timer of a process that has ended, set for five seconds; it does not look
\* at `closing`.
Respawn ==
    /\ running /\ respawns > 0
    /\ respawns' = respawns - 1
    /\ SpawnReceiver(spawns)
    /\ UNCHANGED <<passed, started, closing, running, socket, exits, owed>>

\* The process is connected to the queue server and its interface is set up.
Ready(c) ==
    /\ child[c] = "starting"
    /\ child' = [child EXCEPT ![c] = "ready"]
    /\ UNCHANGED <<children, passed, started, spawns, respawns, closing, running,
                   socket, exits, owed>>

\* The connections of a process end with it.
Lost(c) ==
    [s \in Sockets |->
        IF socket[s].child = c THEN [at |-> "over", child |-> NoChild] ELSE socket[s]]

\* It fails to start, loses the queue server or crashes.
Exit(c) ==
    /\ child[c] \in {"starting", "ready"}
    /\ exits < MaxExits \/ ~running
    /\ exits' = IF running THEN exits + 1 ELSE exits
    /\ child' = [child EXCEPT ![c] = IF running THEN "gone" ELSE "none"]
    /\ socket' = Lost(c)
    /\ UNCHANGED <<children, passed, started, spawns, respawns, closing, running, owed>>

\* A bug to be found: the selector is an index and not an iterator of the Set.
PassedAsIndex(c) == passed

\* The iterator of a Set does not skip a member when an earlier one is deleted.
PassedAfter(c) ==
    IF \E i \in 1..passed : children[i] = c THEN passed - 1 ELSE passed

\* A bug to be found: only the end of the last process is made up for.
RespawnOfLast == IF Len(children) = 1 THEN 1 ELSE 0

RespawnOf == 1

\* this.children.delete
Position(c) == CHOOSE i \in DOMAIN children : children[i] = c
Deleted(c) ==
    [i \in 1..Len(children) - 1 |-> children[IF i < Position(c) THEN i ELSE i + 1]]

\* 'close' of the process
Closed(c) ==
    /\ running
    /\ child[c] = "gone"
    /\ child' = [child EXCEPT ![c] = "none"]
    /\ children' = Deleted(c)
    /\ passed' = PassedAfter(c)
    /\ respawns' = respawns + (IF closing THEN 0 ELSE RespawnOf)
    /\ owed' = [d \in DOMAIN owed \ {c} |-> owed[d] \ {c}]
    /\ UNCHANGED <<started, spawns, closing, running, socket, exits>>

(***************************************************************************)
(* The connections.                                                        *)
(***************************************************************************)
To(s, where, c) == socket' = [socket EXCEPT ![s] = [at |-> where, child |-> c]]

\* selector.next(), from the beginning again when the end was reached
NextPassed == IF passed < Len(children) THEN passed + 1 ELSE 1

Owed(c) == [d \in DOMAIN owed \cup {c} |-> IF d = c THEN Listed \ {c} ELSE owed[d] \ {c}]

\* connection.  The channel of a process that is gone is closed: the error is
\* an event that nobody listens for, and app.js stops the master.  send may also
\* throw: the connection is answered 421, and the turn of the process is over.
Connection(s) ==
    /\ running /\ ~closing
    /\ socket[s].at = "new"
    /\ \/ /\ children = << >>
          /\ To(s, "over", NoChild) \* 421
          /\ UNCHANGED <<passed, owed, closing>>
       \/ /\ children # << >>
          /\ passed' = NextPassed
          /\ LET c == children[NextPassed]
             IN  /\ owed' = Owed(c)
                 /\ \/ To(s, "over", NoChild) /\ UNCHANGED closing
                    \/ /\ closing' = (child[c] = "gone")
                       /\ IF child[c] = "gone" THEN To(s, "stuck", NoChild)
                          ELSE To(s, "sent", c)
    /\ UNCHANGED <<children, started, spawns, respawns, running, child, exits>>

\* passSocket, at once or when a later try finds the process ready
PassSocket(s) ==
    /\ socket[s].at = "sent"
    /\ child[socket[s].child] = "ready"
    /\ To(s, "session", socket[s].child)
    /\ UNCHANGED <<children, passed, started, spawns, respawns, closing, running,
                   child, exits, owed>>

\* A bug to be found: the process goes on trying.
TriesForever(s) == FALSE

TriesAreOver(s) == child[socket[s].child] = "starting"

\* nextTry has found the process not ready once too often: 421
GiveUp(s) ==
    /\ socket[s].at = "sent"
    /\ TriesAreOver(s)
    /\ To(s, "over", NoChild)
    /\ UNCHANGED <<children, passed, started, spawns, respawns, closing, running,
                   child, exits, owed>>

\* The client has left, in the middle of a session or before it began.
Ends(s) ==
    /\ socket[s].at \in {"sent", "session"}
    /\ To(s, "over", NoChild)
    /\ UNCHANGED <<children, passed, started, spawns, respawns, closing, running,
                   child, exits, owed>>

\* Another client
Again(s) ==
    /\ running
    /\ socket[s].at = "over"
    /\ To(s, "new", NoChild)
    /\ UNCHANGED <<children, passed, started, spawns, respawns, closing, running,
                   child, exits, owed>>

(***************************************************************************)
(* The end of the master.                                                  *)
(***************************************************************************)
\* stop: a signal, or an error that nothing caught
Stop ==
    /\ running /\ ~closing
    /\ closing' = TRUE
    /\ UNCHANGED <<children, passed, started, spawns, respawns, running, child,
                   socket, exits, owed>>

\* A bug to be found: it waits until the last connection is over.
AllAreOver == \A s \in Sockets : socket[s].at \in {"new", "over"}

\* All servers are closed, or ten seconds are over.
MayEnd == TRUE

\* The end of the master closes the queue server, so no process survives it.
MasterExit ==
    /\ running /\ closing
    /\ MayEnd
    /\ running' = FALSE
    /\ spawns' = 0 /\ respawns' = 0
    /\ children' = << >>
    /\ passed' = 0
    /\ owed' = [c \in {} |-> {}]
    /\ child' = [c \in Children |-> IF child[c] = "gone" THEN "none" ELSE child[c]]
    /\ socket' = [s \in Sockets |->
                    IF socket[s].at = "stuck" THEN [at |-> "over", child |-> NoChild]
                    ELSE socket[s]]
    /\ UNCHANGED <<started, closing, exits>>

Spawning == Start \/ SpawnNext \/ Respawn

Next ==
    \/ Spawning
    \/ \E c \in Children : Ready(c) \/ Exit(c) \/ Closed(c)
    \/ \E s \in Sockets :
          Connection(s) \/ PassSocket(s) \/ GiveUp(s) \/ Ends(s) \/ Again(s)
    \/ Stop
    \/ MasterExit

Spec == Init /\ [][Next]_vars

\* The event loop of the master and those of the processes go on; timers fire.
\* A start may hang, and clients stay as long as they like.
FairSpec ==
    /\ Spec
    /\ WF_vars(Start) /\ WF_vars(SpawnNext) /\ WF_vars(Respawn)
    /\ WF_vars(MasterExit)
    /\ \A c \in Children : WF_vars(Closed(c)) /\ WF_vars(~running /\ Exit(c))
    /\ \A s \in Sockets : WF_vars(PassSocket(s) \/ GiveUp(s))

(***************************************************************************)
(* Properties.                                                             *)
(***************************************************************************)
\* Every variable keeps its shape; while the master is there its Set holds the
\* processes that have not been heard to end, and no more than there may be.
TypeOK ==
    /\ Len(children) <= Processes
    /\ passed \in 0..Len(children)
    /\ {started, closing, running} \subseteq BOOLEAN
    /\ spawns \in 0..MaxExits + 1
    /\ respawns \in 0..MaxExits
    /\ running => Listed = {c \in Children : child[c] # "none"}
    /\ \A s \in Sockets :
          /\ socket[s].at \in {"new", "sent", "session", "stuck", "over"}
          /\ socket[s].child \in Children <=> socket[s].at \in {"sent", "session"}
    /\ DOMAIN owed \subseteq Listed

\* While a receiver process is missing, another one is on its way for each,
\* whichever ended while the others were being started.
MissingIsOnItsWay ==
    running /\ started /\ ~closing =>
        Len(children) = Processes \/ spawns > 0 \/ Len(children) + respawns >= Processes

\* Set, selector and timers agree with the processes that there are.
Consistent == TypeOK /\ MissingIsOnItsWay

\* The processes take turns, also when some end and others join: no process is
\* given another connection before every other one that has been there all the
\* time has had one.
TurnsAreTaken ==
    [][\A c \in DOMAIN owed :
          (\E s \in Sockets : socket[s].at = "new" /\ socket'[s] = [at |-> "sent", child |-> c])
              => owed[c] = {}]_vars

\* A connection that was handed over is served or ended: it does not wait for a
\* process that hangs at its start.
HandedIsServed ==
    \A s \in Sockets : (socket[s].at = "sent") ~> (socket[s].at # "sent")

\* When no more processes end, all of them are there, until the master stops.
FilledAgain == <>[](closing \/ Len(children) = Processes)

\* A master that stops is gone in the end, and its receiver processes with it.
StopsInTheEnd == closing ~> (\A c \in Children : child[c] = "none")
=============================================================================
