--------------------------- MODULE ConnectionPool ----------------------------
(***************************************************************************)
(* The open connections that a sender process keeps for later deliveries:  *)
(* lib/connection-pool.js.  Each is kept under a key (source address,      *)
(* destination and port) and closed by a timer of its own when nobody has  *)
(* taken it before.                                                        *)
(***************************************************************************)
EXTENDS Integers, Sequences, FiniteSets

VARIABLES
    connectionPool,     \* key -> the connections that are kept for it
    killTimer,          \* connection whose timer is set -> the key it was added with
    connPoolSizeGauge   \* what the master has been told: the size of the pool

poolVars == <<connectionPool, killTimer, connPoolSizeGauge>>

PoolInit ==
    /\ connectionPool = [k \in {} |-> << >>]
    /\ killTimer = [c \in {} |-> 0]
    /\ connPoolSizeGauge = 0

Drop(f, x) == [y \in DOMAIN f \ {x} |-> f[y]]
Put(f, x, v) == [y \in DOMAIN f \cup {x} |-> IF y = x THEN v ELSE f[y]]

Has(key) == key \in DOMAIN connectionPool

\* A bug to be found: the timer of a connection that is taken goes on.
TimerGoesOn(c) == killTimer

TimerCleared(c) == Drop(killTimer, c)

\* getConnection: the oldest connection.  The key goes with it, also when there
\* are other connections (connList.size of an array is undefined).  One that is
\* found closed is forgotten, and the master not told.
GetConnection(key, usable) ==
    LET c == Head(connectionPool[key])
    IN  /\ connectionPool' = Drop(connectionPool, key)
        /\ killTimer' = TimerCleared(c)
        /\ connPoolSizeGauge' = connPoolSizeGauge - (IF usable THEN 1 ELSE 0)

\* A bug to be found: only the first connection of a key is counted.
CountedFirst(key) == IF Has(key) THEN 0 ELSE 1

Counted(key) == 1

\* add
AddConnection(key, c) ==
    /\ connectionPool' =
         Put(connectionPool, key,
             IF Has(key) THEN Append(connectionPool[key], c) ELSE <<c>>)
    /\ killTimer' = Put(killTimer, c, key)
    /\ connPoolSizeGauge' = connPoolSizeGauge + Counted(key)

\* A bug to be found: the key of a list that has become empty stays.
AfterKillEmpty(key, list) == Put(connectionPool, key, list)

AfterKill(key, list) ==
    IF list = << >> THEN Drop(connectionPool, key) ELSE Put(connectionPool, key, list)

\* splice(i, 1)
Splice(list, i) == [j \in 1 .. Len(list) - 1 |-> IF j < i THEN list[j] ELSE list[j + 1]]

Without(list, c) ==
    IF \E i \in 1 .. Len(list) : list[i] = c
    THEN Splice(list, CHOOSE i \in 1 .. Len(list) : list[i] = c)
    ELSE list

\* The timer of a connection: it is taken out of the list of its key, where it
\* need not be any more.
Kill(c) ==
    LET key == killTimer[c]
    IN  /\ connectionPool' = IF Has(key) THEN AfterKill(key, Without(connectionPool[key], c))
                             ELSE connectionPool
        /\ killTimer' = Drop(killTimer, c)
        /\ connPoolSizeGauge' = connPoolSizeGauge - 1
=============================================================================
