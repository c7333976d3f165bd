-------------------------- MODULE SenderProcesses --------------------------
(***************************************************************************)
(* How the master starts its sender processes and replaces those that end  *)
(* (lib/sending-zone.js: init, spawnSenders, spawnSender).  The zones are  *)
(* started one after the other.  A chain is one call of spawnSenders: it   *)
(* forks a child, waits until it is up and goes on until the zone has all  *)
(* its children; the chain of init then starts the next zone.  A child     *)
(* that ends starts a chain of its own 5 seconds later.                    *)
(*                                                                         *)
(* The turn of the event loop between a chain's check and its fork is left *)
(* out: a child counts only when it is up, so no check sees the fork.      *)
(***************************************************************************)
EXTENDS Integers, FiniteSets

CONSTANTS
    NumZones,
    Processes,     \* children of a zone
    Children,      \* bound of the children that exist at one time
    MaxFailures    \* bound of the children that end or time out

ASSUME ProcessesAssumption ==
    /\ NumZones \in Nat
    /\ Processes \in Nat \ {0}
    /\ MaxFailures \in Nat
    /\ IsFiniteSet(Children)

Zones == 1..NumZones
Chain == {"init", "respawn"}

VARIABLES
    zonePos,    \* how many zones init has started
    nextZone,   \* is startNextZone due?
    spawnNext,  \* of each zone and kind of chain: how many chains are due
    child,      \* "none", "starting", "killed" (for its timeout), or "up"
    origin,     \* of each child: its zone, and the chain that waits for it
    respawns,   \* of each zone: the 5 second timers
    closing,    \* queue.closing
    failures,
    timedOut    \* history: has a child of the chain of init timed out?

vars == <<zonePos, nextZone, spawnNext, child, origin, respawns, closing,
          failures, timedOut>>

Origin == [zone : Zones, chain : Chain]
NoOrigin == [zone |-> 0, chain |-> "none"]

Of(z, states) == {c \in Children : origin[c].zone = z /\ child[c] \in states}

\* this.children.size
Up(z) == Cardinality(Of(z, {"up"}))

Free == {c \in Children : child[c] = "none"}

Init ==
    /\ zonePos = 0
    /\ nextZone = TRUE
    /\ spawnNext = [z \in Zones |-> [k \in Chain |-> 0]]
    /\ child = [c \in Children |-> "none"]
    /\ origin = [c \in Children |-> NoOrigin]
    /\ respawns = [z \in Zones |-> 0]
    /\ closing = FALSE
    /\ failures = 0
    /\ timedOut = FALSE

Continue(z, k) == spawnNext' = [spawnNext EXCEPT ![z][k] = @ + 1]

\* A bug to be found: one zone too many is looked up.
ZoneLeftOffByOne == zonePos <= NumZones

ZoneLeft == zonePos < NumZones

\* startNextZone; after the last zone init is done.
StartNextZone ==
    /\ nextZone
    /\ ZoneLeft
    /\ ~closing
    /\ zonePos' = zonePos + 1
    /\ nextZone' = FALSE
    /\ Continue(zonePos + 1, "init")
    /\ UNCHANGED <<child, origin, respawns, closing, failures, timedOut>>

\* A zone that is started when the queue closes calls back at once.
StartNextZoneClosing ==
    /\ nextZone
    /\ zonePos < NumZones
    /\ closing
    /\ zonePos' = zonePos + 1
    /\ UNCHANGED <<nextZone, spawnNext, child, origin, respawns, closing, failures,
                   timedOut>>

\* A bug to be found: one child too many is started.
HasChildrenOffByOne(z) == Up(z) > Processes

HasChildren(z) == Up(z) >= Processes

\* spawnNext: the zone has its children, or no more are to be started ...
ChainEnds(z, k) ==
    /\ spawnNext[z][k] > 0
    /\ HasChildren(z) \/ closing
    /\ spawnNext' = [spawnNext EXCEPT ![z][k] = @ - 1]
    /\ nextZone' = (nextZone \/ k = "init")
    /\ UNCHANGED <<zonePos, child, origin, respawns, closing, failures, timedOut>>

\* ... or one more is forked; which of the free numbers it gets is immaterial.
SpawnSender(z, k) ==
    /\ spawnNext[z][k] > 0
    /\ ~HasChildren(z)
    /\ ~closing
    /\ Free # {}
    /\ spawnNext' = [spawnNext EXCEPT ![z][k] = @ - 1]
    /\ LET c == CHOOSE x \in Free : TRUE
       IN  /\ child' = [child EXCEPT ![c] = "starting"]
           /\ origin' = [origin EXCEPT ![c] = [zone |-> z, chain |-> k]]
    /\ UNCHANGED <<zonePos, nextZone, respawns, closing, failures, timedOut>>

\* The child reports that it is up.
Startup(c) ==
    /\ child[c] = "starting"
    /\ child' = [child EXCEPT ![c] = "up"]
    /\ Continue(origin[c].zone, origin[c].chain)
    /\ UNCHANGED <<zonePos, nextZone, origin, respawns, closing, failures, timedOut>>

\* It does not for two minutes: its chain is left where it is.
StartupTimeout(c) ==
    /\ child[c] = "starting"
    /\ failures < MaxFailures
    /\ failures' = failures + 1
    /\ child' = [child EXCEPT ![c] = "killed"]
    /\ timedOut' = (timedOut \/ origin[c].chain = "init")
    /\ UNCHANGED <<zonePos, nextZone, spawnNext, origin, respawns, closing>>

\* A bug to be found: a child that has timed out is not replaced.
RespawnsOfStarted(c) ==
    IF closing \/ child[c] = "killed" THEN respawns
    ELSE [respawns EXCEPT ![origin[c].zone] = @ + 1]

RespawnsAfter(c) ==
    IF closing THEN respawns ELSE [respawns EXCEPT ![origin[c].zone] = @ + 1]

\* Bugs to be found: the chain goes on for a child that was up, or it does not
\* go on for one that was not.
ContinueAlways(c) == Continue(origin[c].zone, origin[c].chain)
ContinueNever(c) == UNCHANGED spawnNext

\* The chain that still waits for the child goes on.
ContinueUnlessReturned(c) ==
    IF child[c] = "starting" THEN Continue(origin[c].zone, origin[c].chain)
    ELSE UNCHANGED spawnNext

\* The child has ended; one that was killed does so by itself.
Closed(c) ==
    /\ \/ child[c] \in {"starting", "up"} /\ failures < MaxFailures
          /\ failures' = failures + 1
       \/ child[c] = "killed" /\ UNCHANGED failures
    /\ respawns' = RespawnsAfter(c)
    /\ ContinueUnlessReturned(c)
    /\ child' = [child EXCEPT ![c] = "none"]
    /\ origin' = [origin EXCEPT ![c] = NoOrigin]
    /\ UNCHANGED <<zonePos, nextZone, closing, timedOut>>

\* The 5 seconds are over: spawnSenders.
Respawn(z) ==
    /\ respawns[z] > 0
    /\ respawns' = [respawns EXCEPT ![z] = @ - 1]
    /\ IF closing THEN UNCHANGED spawnNext ELSE Continue(z, "respawn")
    /\ UNCHANGED <<zonePos, nextZone, child, origin, closing, failures, timedOut>>

\* app.js: the master stops.
Close ==
    /\ ~closing
    /\ closing' = TRUE
    /\ UNCHANGED <<zonePos, nextZone, spawnNext, child, origin, respawns, failures,
                   timedOut>>

SpawnNext(z, k) == ChainEnds(z, k) \/ SpawnSender(z, k)

Next ==
    \/ StartNextZone \/ StartNextZoneClosing
    \/ \E z \in Zones, k \in Chain : SpawnNext(z, k)
    \/ \E c \in Children : Startup(c) \/ StartupTimeout(c) \/ Closed(c)
    \/ \E z \in Zones : Respawn(z)
    \/ Close

Spec == Init /\ [][Next]_vars

\* The event loop runs what is due, a timer fires, and within its two minutes a
\* child is up, has ended or is killed.
FairSpec ==
    /\ Spec
    /\ WF_vars(StartNextZone)
    /\ \A z \in Zones : WF_vars(Respawn(z)) /\ \A k \in Chain : WF_vars(SpawnNext(z, k))
    /\ \A c \in Children :
          WF_vars(Startup(c) \/ StartupTimeout(c) \/ (child[c] # "up" /\ Closed(c)))

(***************************************************************************)
(* Properties.                                                             *)
(***************************************************************************)
\* Every variable keeps its shape.
TypeOK ==
    /\ zonePos \in 0..NumZones
    /\ nextZone \in BOOLEAN
    /\ spawnNext \in [Zones -> [Chain -> Nat]]
    /\ child \in [Children -> {"none", "starting", "killed", "up"}]
    /\ \A c \in Children :
          IF child[c] = "none" THEN origin[c] = NoOrigin ELSE origin[c] \in Origin
    /\ respawns \in [Zones -> Nat]
    /\ {closing, timedOut} \subseteq BOOLEAN
    /\ failures \in 0..MaxFailures

\* A zone that has too few children has a chain that is due, a timer for one or
\* a child whose start or end goes on with one, whichever of the start, the end
\* and the timeout of a child came first (the flag `returned`).
UnderstaffedIsRepaired ==
    \A z \in 1..zonePos :
        ~closing /\ Up(z) < Processes =>
            \/ \E k \in Chain : spawnNext[z][k] > 0
            \/ respawns[z] > 0
            \/ Of(z, {"starting", "killed"}) # {}

\* README.md computes the limits of a zone from its number of children.  A zone
\* can have more than are configured, as chains that wait for a child do not see
\* each other, but only by one for each child that ended or timed out.
ProcessBound == \A z \in Zones : Up(z) <= Processes + failures

\* A zone has too few children only while more are on their way, and never many
\* more than are configured, whichever chains and timers start them.
Staffed == TypeOK /\ UnderstaffedIsRepaired /\ ProcessBound

\* startNextZone is due, or one chain of init is on its way to it, never two:
\* each zone is started once (its callback is called once per child).
OneStartAtATime ==
    LET due == {p \in Zones \X (1..(MaxFailures + NumZones)) :
                  p[2] <= spawnNext[p[1]]["init"]}
        waiting == {c \in Children : child[c] = "starting" /\ origin[c].chain = "init"}
    IN  Cardinality(due) + Cardinality(waiting) + (IF nextZone THEN 1 ELSE 0) <= 1

\* Every zone is started, unless the queue closes or a child that the chain of
\* init waits for takes longer than two minutes: then nothing calls back.
ZonesStart == <>(zonePos = NumZones \/ closing \/ timedOut)

\* When no more children end, every zone that was started has its children.
StaffedAgain == <>[](closing \/ \A z \in 1..zonePos : Up(z) >= Processes)
=============================================================================
