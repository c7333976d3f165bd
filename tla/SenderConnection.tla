-------------------------- MODULE SenderConnection ---------------------------
(***************************************************************************)
(* How the deliveries of a sender process get their connections:           *)
(* getConnectionWithCache and getConnection of lib/sender.js with the pool *)
(* of lib/connection-pool.js.                                              *)
(*                                                                         *)
(* A delivery first asks the master whether the server was unreachable a   *)
(* moment ago.  If not, it takes a connection of the pool or opens one; an *)
(* attempt that fails is repeated without TLS or with another MX.  The     *)
(* result is told to the master, and a connection that has served its      *)
(* delivery goes back to the pool.  What the delivery does meanwhile is in *)
(* Sender.tla.                                                             *)
(*                                                                         *)
(* The MX resolution and the SMTP client are libraries: they call back or  *)
(* emit an event at any time, also after an earlier event of the same      *)
(* connection.                                                             *)
(***************************************************************************)
EXTENDS ConnectionPool

CONSTANTS
    Deliveries,
    Key,        \* delivery.connectionKey, which the cache key follows
    Conns,      \* identities of connections, used again when one is closed
    Hosts,      \* delivery -> the hosts of its MX
    MaxReuse    \* connectionCache.reuseCount

ASSUME ConnectionAssumption ==
    /\ DOMAIN Key = Deliveries /\ DOMAIN Hosts = Deliveries
    /\ Conns \subseteq Nat \ {0} /\ IsFiniteSet(Conns)
    /\ MaxReuse \in Nat \ {0}

None == 0

Keys == {Key[d] : d \in Deliveries}

AllHosts == UNION {Hosts[d] : d \in Deliveries}

VARIABLES
    delivery,   \* the variables of each call of getConnectionWithCache
    conn,       \* each connection
    commands,   \* on their way to the master
    cache,      \* of the master: the keys that are unreachable
    reached     \* history: the deliveries that had a socket

vars == <<delivery, conn, commands, cache, reached, poolVars>>

Delivery == [
    at : {"start", "cache", "hit", "miss", "mx", "connect", "hook", "use", "over"},
    conn : Conns \cup {None},
    ignoreTLS : BOOLEAN,
    ignoreMXHosts : SUBSET AllHosts,
    netConnected : BOOLEAN,
    callbackReturned : BOOLEAN]

Connection == [
    at : {"new", "init", "auth", "done"},
    open : BOOLEAN,
    owner : Deliveries \cup {None}, \* whose getConnection opened it
    host : AllHosts \cup {None},
    enforceTLS : BOOLEAN, ignoreTLS : BOOLEAN, secure : BOOLEAN,
    returned : BOOLEAN,
    endTimer : BOOLEAN,
    usageCount : 0..MaxReuse]

NoConnection == [
    at |-> "new", open |-> FALSE, owner |-> None, host |-> None,
    enforceTLS |-> FALSE, ignoreTLS |-> FALSE, secure |-> FALSE,
    returned |-> FALSE, endTimer |-> FALSE, usageCount |-> 0]

\* Every search of the zone's begins with the ignoreTLS that it is configured with.
Init ==
    /\ \E ignoreTLS \in BOOLEAN :
          delivery = [d \in Deliveries |->
                        [at |-> "start", conn |-> None, ignoreTLS |-> ignoreTLS,
                         ignoreMXHosts |-> {}, netConnected |-> FALSE,
                         callbackReturned |-> FALSE]]
    /\ conn = [c \in Conns |-> NoConnection]
    /\ commands = << >>
    /\ cache = {}
    /\ reached = {}
    /\ PoolInit

\* What is left of a connection that was given up: when it is closed and has no
\* timer, what may still call back finds `returned` set and does nothing.
GivenUp(r) == IF r.open \/ r.endTimer THEN r ELSE NoConnection

Users(c) == {d \in Deliveries : delivery[d].conn = c}

Update(d, r) == delivery' = [delivery EXCEPT ![d] = r]
Command(cmd, d) == Append(commands, [cmd |-> cmd, delivery |-> d])

(***************************************************************************)
(* The cache of unreachable servers.                                       *)
(***************************************************************************)
\* getConnectionWithCache
LookUp(d) ==
    /\ delivery[d].at = "start"
    /\ Update(d, [delivery[d] EXCEPT !.at = "cache"])
    /\ commands' = Command("GETCACHE", d)
    /\ UNCHANGED <<conn, cache, reached, poolVars>>

\* The master serves the next command, or answers GETCACHE with an error.
Serve ==
    /\ commands # << >>
    /\ commands' = Tail(commands)
    /\ LET cmd == Head(commands).cmd
           d == Head(commands).delivery
       IN  \/ /\ cmd = "GETCACHE"
              /\ \E at \in {"hit"} \cup (IF Key[d] \in cache THEN {} ELSE {"miss"}) :
                    Update(d, [delivery[d] EXCEPT !.at = at])
              /\ UNCHANGED cache
           \/ /\ cmd = "SETCACHE"
              /\ cache' = cache \cup {Key[d]}
              /\ UNCHANGED delivery
           \/ /\ cmd = "CLEARCACHE"
              /\ cache' = cache \ {Key[d]}
              /\ UNCHANGED delivery
    /\ UNCHANGED <<conn, reached, poolVars>>

\* The time of an entry is over.
Expire(key) ==
    /\ key \in cache
    /\ cache' = cache \ {key}
    /\ UNCHANGED <<delivery, conn, commands, reached, poolVars>>

\* The cached error, or that of the command, is the result.
Hit(d) ==
    /\ delivery[d].at = "hit"
    /\ Update(d, [delivery[d] EXCEPT !.at = "over"])
    /\ UNCHANGED <<conn, commands, cache, reached, poolVars>>

(***************************************************************************)
(* The result of getConnection.                                            *)
(***************************************************************************)
\* The variables of getConnection are not looked at any more.
Returned(at, c) ==
    [at |-> at, conn |-> c, ignoreTLS |-> FALSE, ignoreMXHosts |-> {},
     netConnected |-> FALSE, callbackReturned |-> TRUE]

\* callback(err): if no socket was opened the server is unreachable for a while.
Failure(d, r) ==
    IF r.callbackReturned THEN Update(d, r) /\ UNCHANGED commands
    ELSE /\ Update(d, Returned("over", None))
         /\ commands' = Command(IF r.netConnected THEN "CLEARCACHE" ELSE "SETCACHE", d)

\* callback(null, connection): first the plugins are asked.
Success(d, r, c) ==
    /\ Update(d, IF r.callbackReturned THEN r ELSE Returned("hook", c))
    /\ UNCHANGED commands

\* They are done: the delivery has its connection.
HookDone(d) ==
    /\ delivery[d].at = "hook"
    /\ Update(d, [delivery[d] EXCEPT !.at = "use"])
    /\ commands' = Command("CLEARCACHE", d)
    /\ UNCHANGED <<conn, cache, reached, poolVars>>

(***************************************************************************)
(* Opening a connection.                                                   *)
(***************************************************************************)
\* tryConnect: a connection of the pool, if there is one that is open.
TryConnect(d, r) ==
    LET key == Key[d]
        pooled == Head(connectionPool[key])
        Resolve == Update(d, [r EXCEPT !.at = "mx", !.conn = None]) /\ UNCHANGED commands
    IN  \/ ~Has(key) /\ Resolve /\ UNCHANGED poolVars
        \/ /\ Has(key)
           /\ GetConnection(key, conn[pooled].open)
           /\ IF conn[pooled].open THEN Success(d, r, pooled) ELSE Resolve

Miss(d) ==
    /\ delivery[d].at = "miss"
    /\ TryConnect(d, delivery[d])
    /\ UNCHANGED <<conn, cache, reached>>

\* No host is left, or none can be reached.
MxFails(d) ==
    /\ delivery[d].at = "mx"
    /\ Failure(d, delivery[d])
    /\ UNCHANGED <<conn, cache, reached, poolVars>>

\* An identity that no callback, timer or list holds any more.
Free(c) ==
    /\ Users(c) = {}
    /\ GivenUp(conn[c]) = NoConnection
    /\ c \notin DOMAIN killTimer

\* A bug to be found: it is not noted that a socket was opened.
ForgetsSocket(r) == [r EXCEPT !.netConnected = FALSE]

HasSocket(r) == [r EXCEPT !.netConnected = TRUE]

\* An enforced policy lifts ignoreTLS.
IgnoresTLS(r, enforceTLS) == r.ignoreTLS /\ ~enforceTLS

\* mxConnect has a socket.
MxConnected(d, host, enforceTLS) ==
    LET r == delivery[d]
        ignoreTLS == IgnoresTLS(r, enforceTLS)
    IN  /\ r.at = "mx"
        /\ host \in Hosts[d] \ r.ignoreMXHosts
        /\ \E c \in Conns :
              /\ Free(c)
              /\ \A o \in Conns : Free(o) => c <= o
              /\ conn' = [conn EXCEPT ![c] =
                            [NoConnection EXCEPT
                               !.at = "init", !.open = TRUE, !.owner = d, !.host = host,
                               !.enforceTLS = enforceTLS, !.ignoreTLS = ignoreTLS]]
              /\ Update(d, [HasSocket(r) EXCEPT !.at = "connect", !.conn = c,
                                               !.ignoreTLS = ignoreTLS])
        /\ reached' = reached \cup {d}
        /\ UNCHANGED <<commands, cache, poolVars>>

\* A bug to be found: a host that timed out is tried again.
TimedOutAgain(r, host) == r

TimedOut(r, host) == [r EXCEPT !.ignoreMXHosts = @ \cup {host}]

\* Another try, without TLS.
FallsBack(r, c, kind) ==
    kind \in {"tls", "reset"} /\ ~r.ignoreTLS /\ ~conn[c].enforceTLS

\* _onError; `changed` is what else is known of the connection by now.
OnError(c, kind, changed) ==
    LET d == conn[c].owner
        r == delivery[d]
    IN  /\ conn' = [conn EXCEPT ![c] =
                      IF changed.at = "done" THEN changed
                      ELSE GivenUp([changed EXCEPT !.open = FALSE, !.returned = TRUE])]
        /\ IF conn[c].returned THEN UNCHANGED <<delivery, commands, poolVars>>
           ELSE IF FallsBack(r, c, kind) THEN TryConnect(d, [r EXCEPT !.ignoreTLS = TRUE])
           ELSE IF kind = "timeout" THEN TryConnect(d, TimedOut(r, conn[c].host))
           ELSE Failure(d, r) /\ UNCHANGED poolVars
        /\ UNCHANGED <<cache, reached>>

InProgress(c) == conn[c].at \in {"init", "auth"}

\* 'error', which is heard once: in TLS, a reset, a timeout or anything else.
ErrorEvent(c, kind) ==
    /\ InProgress(c) /\ ~conn[c].returned
    /\ OnError(c, kind, conn[c])

\* 'end': one second is given to the other callbacks.
EndEvent(c) ==
    /\ InProgress(c) /\ conn[c].open
    /\ conn' = [conn EXCEPT ![c].open = FALSE, ![c].endTimer = ~conn[c].returned]
    /\ UNCHANGED <<delivery, commands, cache, reached, poolVars>>

EndTimeout(c, kind) ==
    /\ conn[c].endTimer
    /\ kind \in {"tls", "other"}
    /\ OnError(c, kind, [conn[c] EXCEPT !.endTimer = FALSE])

\* A bug to be found: a policy is not looked at when the connection is there.
AnyWillDo(c, secure) == FALSE

TlsIsMissing(c, secure) == conn[c].enforceTLS /\ ~secure

\* The callback of connection.connect
ConnectDone(c, secure) ==
    /\ conn[c].at = "init"
    /\ IF conn[c].returned
       THEN /\ conn' = [conn EXCEPT ![c].open = FALSE, ![c].at = "done"]
            /\ UNCHANGED <<delivery, commands>>
       ELSE IF TlsIsMissing(c, secure)
       THEN /\ conn' = [conn EXCEPT ![c] =
                          GivenUp([@ EXCEPT !.open = FALSE, !.at = "done", !.returned = TRUE])]
            /\ Failure(conn[c].owner, delivery[conn[c].owner])
       ELSE /\ conn' = [conn EXCEPT ![c].at = "auth", ![c].secure = secure]
            /\ UNCHANGED <<delivery, commands>>
    /\ UNCHANGED <<cache, reached, poolVars>>

\* The callback of auth
AuthDone(c, ok) ==
    LET d == conn[c].owner
    IN  /\ conn[c].at = "auth"
        /\ \/ /\ conn[c].returned
              /\ conn' = [conn EXCEPT ![c].at = "done"]
              /\ UNCHANGED <<delivery, commands>>
           \/ /\ ok /\ ~conn[c].returned
              /\ conn' = [conn EXCEPT ![c].at = "done", ![c].returned = TRUE,
                                      ![c].host = None, ![c].owner = None]
              /\ Success(d, delivery[d], c)
           \/ /\ ~ok /\ ~conn[c].returned
              /\ conn' = [conn EXCEPT ![c] =
                            GivenUp([@ EXCEPT !.open = FALSE, !.at = "done", !.returned = TRUE])]
              /\ Failure(d, delivery[d])
        /\ UNCHANGED <<cache, reached, poolVars>>

(***************************************************************************)
(* Using it.                                                               *)
(***************************************************************************)
\* The message is sent, which may become known when the connection is closed
\* already.  The connection is pooled if it was not used too often.
SendDone(d) ==
    LET c == delivery[d].conn
        usageCount == conn[c].usageCount + 1
        pooled == usageCount < MaxReuse
    IN  /\ delivery[d].at = "use"
        /\ Update(d, [delivery[d] EXCEPT !.at = "over", !.conn = None])
        /\ conn' = [conn EXCEPT ![c] =
                      IF pooled THEN [@ EXCEPT !.usageCount = usageCount]
                      ELSE GivenUp([@ EXCEPT !.open = FALSE])]
        /\ IF pooled THEN AddConnection(Key[d], c) ELSE UNCHANGED poolVars
        /\ UNCHANGED <<commands, cache, reached>>

\* It is not; a plugin may also have refused it.
SendFails(d) ==
    /\ delivery[d].at = "use"
    /\ Update(d, [delivery[d] EXCEPT !.at = "over", !.conn = None])
    /\ conn' = [conn EXCEPT ![delivery[d].conn] = GivenUp([@ EXCEPT !.open = FALSE])]
    /\ UNCHANGED <<commands, cache, reached, poolVars>>

\* The other side closes it, or it has an error, in use or in the pool.
Breaks(c) ==
    /\ conn[c].at = "done" /\ conn[c].open
    /\ conn' = [conn EXCEPT ![c].open = FALSE]
    /\ UNCHANGED <<delivery, commands, cache, reached, poolVars>>

\* A bug to be found: the timer only takes the connection out of the pool.
OnlyTakenOut(c) == FALSE

ClosedByTimer(c) == TRUE

\* killTimer, with killConnection
KillTimer(c) ==
    /\ c \in DOMAIN killTimer
    /\ Kill(c)
    /\ conn' = [conn EXCEPT ![c] = GivenUp([@ EXCEPT !.open = @ /\ ~ClosedByTimer(c)])]
    /\ UNCHANGED <<delivery, commands, cache, reached>>

Asking(d) == LookUp(d) \/ Hit(d) \/ Miss(d)

Resolving(d) ==
    MxFails(d) \/ \E host \in Hosts[d], enforceTLS \in BOOLEAN : MxConnected(d, host, enforceTLS)

Opening(c) ==
    \/ \E kind \in {"tls", "reset", "timeout", "other"} : ErrorEvent(c, kind)
    \/ EndEvent(c)
    \/ \E secure \in BOOLEAN : ConnectDone(c, secure)
    \/ \E ok \in BOOLEAN : AuthDone(c, ok)

Ended(c) == \E kind \in {"tls", "other"} : EndTimeout(c, kind)

Using(d) == HookDone(d) \/ SendDone(d) \/ SendFails(d)

Next ==
    \/ \E d \in Deliveries : Asking(d) \/ Resolving(d) \/ Using(d)
    \/ \E c \in Conns : Opening(c) \/ Ended(c) \/ Breaks(c) \/ KillTimer(c)
    \/ Serve
    \/ \E key \in Keys : Expire(key)

Spec == Init /\ [][Next]_vars

\* The event loop, the libraries and the master go on.
FairSpec ==
    /\ Spec
    /\ WF_vars(Serve)
    /\ \A d \in Deliveries : WF_vars(Asking(d)) /\ WF_vars(Resolving(d)) /\ WF_vars(Using(d))
    /\ \A c \in Conns : WF_vars(Opening(c)) /\ WF_vars(Ended(c)) /\ WF_vars(KillTimer(c))

(***************************************************************************)
(* Properties.                                                             *)
(***************************************************************************)
\* Every variable keeps its shape; no key of the pool has an empty list.
TypeOK ==
    /\ delivery \in [Deliveries -> Delivery]
    /\ conn \in [Conns -> Connection]
    /\ cache \subseteq Keys
    /\ reached \subseteq Deliveries
    /\ DOMAIN connectionPool \subseteq Keys
    /\ \A k \in DOMAIN connectionPool :
          connectionPool[k] \in Seq(Conns) \ {<< >>}
    /\ DOMAIN killTimer \subseteq Conns
    /\ connPoolSizeGauge \in Nat

Holders(c) == Cardinality(Users(c)) + (IF c \in DOMAIN killTimer THEN 1 ELSE 0)

\* A connection serves one delivery at a time, and while it does it is neither
\* in the pool nor has it a timer that would close it.
OneUser ==
    \A c \in Conns :
        /\ Holders(c) <= 1
        /\ \A k \in DOMAIN connectionPool : \A i \in DOMAIN connectionPool[k] :
              connectionPool[k][i] = c => c \in DOMAIN killTimer

\* No connection stays open that nobody uses and no timer closes, whichever of
\* the callbacks, events and retries found it and left it.
NoLeak == \A c \in Conns : conn[c].open => Holders(c) = 1

\* Each open connection is somebody's and only his: of the delivery that opens or
\* uses it, or of the timer of the pool.
OneHolder == OneUser /\ NoLeak

\* A connection that is opened under a policy that enforces TLS is not handed to
\* the delivery it is opened for unless it is secure, after whatever retries, nor
\* to a later one through the pool, and no try falls back to plaintext under it.
\* The policy of the delivery that takes a connection from the pool is not asked
\* for (sender.js:1031), and nothing is said of it here.
TlsIsKept ==
    \A c \in Conns :
        conn[c].enforceTLS =>
            /\ ~conn[c].ignoreTLS
            /\ conn[c].usageCount > 0 => conn[c].secure
            /\ \A d \in Users(c) : delivery[d].at \in {"hook", "use"} => conn[c].secure

\* A server to which a socket could be opened is not called unreachable,
\* whatever the later tries of the delivery came to.
ReachedIsNotCached ==
    \A i \in DOMAIN commands :
        commands[i].cmd = "SETCACHE" => commands[i].delivery \notin reached

\* The gauge may drift, but upwards only: it counts at least what is pooled.
GaugeCoversPool == connPoolSizeGauge >= Cardinality(DOMAIN killTimer)

\* Deliveries, connections and pool keep their shape and the gauge follows them.
Consistent == TypeOK /\ GaugeCoversPool

\* The tries of a delivery come to an end: it gets a connection or an error.
ConnectEnds ==
    \A d \in Deliveries :
        (delivery[d].at = "miss") ~> (delivery[d].at \in {"use", "over"})

\* lib/connection-pool.js:26, "Connection list is empty, remove it from pool":
\* what is kept and waits for its timer can be found under its key.
PooledIsFound ==
    \A c \in DOMAIN killTimer :
        /\ Has(killTimer[c])
        /\ \E i \in DOMAIN connectionPool[killTimer[c]] : connectionPool[killTimer[c]][i] = c
=============================================================================
