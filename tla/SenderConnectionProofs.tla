----------------------- MODULE SenderConnectionProofs -----------------------
(***************************************************************************)
(* Proofs about SenderConnection: for any deliveries, connections, hosts   *)
(* and keys, each open connection has one holder, an enforced TLS policy   *)
(* is kept, a server that was reached is not called unreachable, and the   *)
(* gauge covers the pool.                                                  *)
(*                                                                         *)
(* The first part is about the pool alone: which connections have a timer  *)
(* after each of its methods, and that its lists hold no other.  The       *)
(* second ties the variables of each delivery to its connection.           *)
(***************************************************************************)
EXTENDS SenderConnection, FiniteSetTheorems, SequenceTheorems, TLAPS

(***************************************************************************)
(* The pool.                                                               *)
(***************************************************************************)
\* A list holds connections with a timer for its key, each once.
Listed(key, list) ==
    /\ list \in Seq(Conns) /\ list # << >>
    /\ \A i \in 1 .. Len(list) :
          list[i] \in DOMAIN killTimer /\ killTimer[list[i]] = key
    /\ \A i, j \in 1 .. Len(list) : list[i] = list[j] => i = j

PoolOK ==
    /\ connectionPool = [k \in DOMAIN connectionPool |-> connectionPool[k]]
    /\ DOMAIN connectionPool \subseteq Keys
    /\ killTimer = [c \in DOMAIN killTimer |-> killTimer[c]]
    /\ DOMAIN killTimer \subseteq Conns
    /\ \A c \in DOMAIN killTimer : killTimer[c] \in Keys
    /\ \A k \in DOMAIN connectionPool : Listed(k, connectionPool[k])
    /\ connPoolSizeGauge \in Nat
    /\ GaugeCoversPool

LEMMA TimersFinite ==
    ASSUME PoolOK
    PROVE  /\ IsFiniteSet(DOMAIN killTimer)
           /\ Cardinality(DOMAIN killTimer) \in Nat
BY FS_Subset, FS_CardinalityType, ConnectionAssumption DEF PoolOK

LEMMA FirstHasTimer ==
    ASSUME PoolOK, NEW key \in Keys, Has(key)
    PROVE  Head(connectionPool[key]) \in DOMAIN killTimer
<1>1. connectionPool[key] \in Seq(Conns) /\ connectionPool[key] # << >>
  BY DEF PoolOK, Has, Listed
<1>2. Len(connectionPool[key]) \in Nat \ {0}
  BY <1>1, EmptySeq
<1>3. Head(connectionPool[key]) = connectionPool[key][1]
  BY <1>1, <1>2
<1> QED BY <1>2, <1>3 DEF PoolOK, Has, Listed

\* getConnection takes a connection that had a timer; the others keep theirs.
LEMMA Taken ==
    ASSUME PoolOK, NEW key \in Keys, Has(key), NEW usable \in BOOLEAN,
           GetConnection(key, usable)
    PROVE  /\ Head(connectionPool[key]) \in DOMAIN killTimer
           /\ DOMAIN killTimer' = DOMAIN killTimer \ {Head(connectionPool[key])}
           /\ PoolOK'
<1> DEFINE c == Head(connectionPool[key])
           list == connectionPool[key]
<1>1. list \in Seq(Conns) /\ list # << >> /\ Len(list) \in Nat \ {0}
  BY EmptySeq DEF PoolOK, Has, Listed
<1>2. c = list[1] /\ c \in DOMAIN killTimer /\ killTimer[c] = key
  BY <1>1 DEF PoolOK, Has, Listed
<1>3. /\ connectionPool' = Drop(connectionPool, key)
      /\ killTimer' = Drop(killTimer, c)
      /\ connPoolSizeGauge' = connPoolSizeGauge - (IF usable THEN 1 ELSE 0)
  BY DEF GetConnection, TimerCleared
<1>4. DOMAIN killTimer' = DOMAIN killTimer \ {c}
  BY <1>3 DEF Drop
<1>5. \A o \in DOMAIN killTimer' : killTimer'[o] = killTimer[o]
  BY <1>3 DEF Drop
<1>6. /\ DOMAIN connectionPool' = DOMAIN connectionPool \ {key}
      /\ \A k \in DOMAIN connectionPool' : connectionPool'[k] = connectionPool[k]
  BY <1>3 DEF Drop
<1>7. ASSUME NEW k \in DOMAIN connectionPool' PROVE Listed(k, connectionPool[k])'
  <2>1. Listed(k, connectionPool[k]) /\ k # key
    BY <1>6 DEF PoolOK
  <2>2. \A i \in 1 .. Len(connectionPool[k]) : connectionPool[k][i] \in DOMAIN killTimer'
    BY <1>2, <1>4, <2>1 DEF Listed
  <2> QED BY <1>5, <1>6, <2>1, <2>2 DEF Listed
<1>8. connPoolSizeGauge' \in Nat /\ GaugeCoversPool'
  <2>1. /\ Cardinality(DOMAIN killTimer') = Cardinality(DOMAIN killTimer) - 1
        /\ Cardinality(DOMAIN killTimer') \in Nat
    BY <1>2, <1>4, TimersFinite, FS_RemoveElement, FS_CardinalityType
  <2> QED BY <1>3, <2>1, TimersFinite DEF PoolOK, GaugeCoversPool
<1>9. /\ connectionPool' = [k \in DOMAIN connectionPool' |-> connectionPool'[k]]
      /\ killTimer' = [o \in DOMAIN killTimer' |-> killTimer'[o]]
  BY <1>3 DEF Drop
<1> QED BY <1>2, <1>4, <1>5, <1>6, <1>7, <1>8, <1>9 DEF PoolOK

\* add: the connection has a timer now.
LEMMA Added ==
    ASSUME PoolOK, NEW key \in Keys, NEW c \in Conns, c \notin DOMAIN killTimer,
           AddConnection(key, c)
    PROVE  /\ DOMAIN killTimer' = DOMAIN killTimer \cup {c}
           /\ PoolOK'
<1> DEFINE old == IF Has(key) THEN connectionPool[key] ELSE << >>
           list == IF Has(key) THEN Append(connectionPool[key], c) ELSE <<c>>
<1>1. /\ connectionPool' = Put(connectionPool, key, list)
      /\ killTimer' = Put(killTimer, c, key)
      /\ connPoolSizeGauge' = connPoolSizeGauge + 1
  BY DEF AddConnection, Counted
<1>2. /\ DOMAIN killTimer' = DOMAIN killTimer \cup {c}
      /\ killTimer' = [o \in DOMAIN killTimer' |-> killTimer'[o]]
      /\ killTimer'[c] = key
      /\ \A o \in DOMAIN killTimer : killTimer'[o] = killTimer[o]
  BY <1>1 DEF Put
<1>3. /\ DOMAIN connectionPool' = DOMAIN connectionPool \cup {key}
      /\ connectionPool' = [k \in DOMAIN connectionPool' |-> connectionPool'[k]]
      /\ connectionPool'[key] = list
      /\ \A k \in DOMAIN connectionPool : k # key => connectionPool'[k] = connectionPool[k]
  BY <1>1 DEF Put
<1>4. ASSUME NEW k \in DOMAIN connectionPool, k # key PROVE Listed(k, connectionPool[k])'
  <2>1. Listed(k, connectionPool[k])
    BY <1>4 DEF PoolOK
  <2> QED BY <1>2, <1>3, <1>4, <2>1 DEF Listed
<1>5. Listed(key, connectionPool[key])'
  <2>1. CASE Has(key)
    <3>1. Listed(key, connectionPool[key]) /\ list = Append(connectionPool[key], c)
      BY <2>1 DEF PoolOK, Has
    <3>2. /\ list \in Seq(Conns) /\ list # << >>
          /\ Len(connectionPool[key]) \in Nat /\ Len(list) = Len(connectionPool[key]) + 1
          /\ list[Len(list)] = c
          /\ \A i \in 1 .. Len(connectionPool[key]) : list[i] = connectionPool[key][i]
      BY <3>1 DEF Listed
    <3>3. \A i \in 1 .. Len(list) : i = Len(list) \/ i \in 1 .. Len(connectionPool[key])
      BY <3>2
    <3>4. \A i \in 1 .. Len(list) : list[i] \in DOMAIN killTimer' /\ killTimer'[list[i]] = key
      BY <1>2, <3>1, <3>2, <3>3 DEF Listed
    <3>5. \A i, j \in 1 .. Len(list) : list[i] = list[j] => i = j
      BY <3>1, <3>2, <3>3 DEF Listed
    <3> QED BY <1>3, <3>2, <3>4, <3>5 DEF Listed
  <2>2. CASE ~Has(key)
    <3>1. list = <<c>>
      BY <2>2
    <3>2. list \in Seq(Conns) /\ list # << >> /\ Len(list) = 1 /\ list[1] = c
      <4>1. <<c>> \in Seq(Conns) /\ Len(<<c>>) = 1 /\ <<c>>[1] = c
        OBVIOUS
      <4>2. <<c>> # << >>
        BY <4>1
      <4> HIDE DEF list
      <4> QED BY <3>1, <4>1, <4>2
    <3> HIDE DEF list
    <3> QED BY <1>2, <1>3, <3>2 DEF Listed
  <2> QED BY <2>1, <2>2
<1>6. connPoolSizeGauge' \in Nat /\ GaugeCoversPool'
  <2>1. Cardinality(DOMAIN killTimer') = Cardinality(DOMAIN killTimer) + 1
    BY <1>2, TimersFinite, FS_AddElement
  <2> QED BY <1>1, <2>1, TimersFinite DEF PoolOK, GaugeCoversPool
<1> QED BY <1>2, <1>3, <1>4, <1>5, <1>6 DEF PoolOK

\* splice takes out the one at i.
LEMMA SpliceProperties ==
    ASSUME NEW S, NEW list \in Seq(S), NEW i \in 1 .. Len(list)
    PROVE  /\ Splice(list, i) \in Seq(S)
           /\ Len(Splice(list, i)) = Len(list) - 1
           /\ \A j \in 1 .. Len(list) - 1 :
                 Splice(list, i)[j] = IF j < i THEN list[j] ELSE list[j + 1]
<1>1. Len(list) \in Nat \ {0} /\ list \in [1 .. Len(list) -> S]
  OBVIOUS
<1>2. \A j \in 1 .. Len(list) - 1 : j \in 1 .. Len(list) /\ j + 1 \in 1 .. Len(list)
  BY <1>1
<1>3. Splice(list, i) \in [1 .. Len(list) - 1 -> S]
  BY <1>1, <1>2 DEF Splice
<1>4. Len(list) - 1 \in Nat
  BY <1>1
<1>5. Splice(list, i) \in Seq(S) /\ Len(Splice(list, i)) = Len(list) - 1
  BY <1>3, <1>4
<1> QED BY <1>5 DEF Splice

LEMMA WithoutListed ==
    ASSUME PoolOK, NEW key \in DOMAIN connectionPool, NEW c
    PROVE  LET list == connectionPool[key]
           IN  /\ Without(list, c) \in Seq(Conns)
               /\ \A j \in 1 .. Len(Without(list, c)) :
                     \E i \in 1 .. Len(list) : Without(list, c)[j] = list[i] /\ list[i] # c
               /\ \A j, k \in 1 .. Len(Without(list, c)) :
                     Without(list, c)[j] = Without(list, c)[k] => j = k
<1> DEFINE list == connectionPool[key]
<1>1. /\ list \in Seq(Conns) /\ Len(list) \in Nat
      /\ \A i, j \in 1 .. Len(list) : list[i] = list[j] => i = j
  BY DEF PoolOK, Listed
<1>2. CASE \E i \in 1 .. Len(list) : list[i] = c
  <2> DEFINE p == CHOOSE i \in 1 .. Len(list) : list[i] = c
             rest == Splice(list, p)
             Old(j) == IF j < p THEN j ELSE j + 1
  <2>1. p \in 1 .. Len(list) /\ list[p] = c
    BY <1>2
  <2> HIDE DEF p
  <2>2. /\ rest \in Seq(Conns) /\ Len(rest) = Len(list) - 1
        /\ \A j \in 1 .. Len(list) - 1 : rest[j] = IF j < p THEN list[j] ELSE list[j + 1]
    BY <1>1, <2>1, SpliceProperties
  <2> HIDE DEF rest
  <2>3. ASSUME NEW j \in 1 .. Len(rest)
        PROVE  /\ Old(j) \in 1 .. Len(list) /\ Old(j) # p
               /\ rest[j] = list[Old(j)]
    BY <1>1, <2>1, <2>2
  <2>4. ASSUME NEW j \in 1 .. Len(rest)
        PROVE  \E i \in 1 .. Len(list) : rest[j] = list[i] /\ list[i] # c
    BY <1>1, <2>1, <2>3
  <2>5. ASSUME NEW j \in 1 .. Len(rest), NEW k \in 1 .. Len(rest), rest[j] = rest[k]
        PROVE  j = k
    <3>1. Old(j) = Old(k)
      BY <1>1, <2>3, <2>5
    <3> QED BY <1>1, <2>1, <2>2, <3>1
  <2>6. Without(list, c) = rest
    BY <1>2 DEF Without, p, rest
  <2> QED BY <2>2, <2>4, <2>5, <2>6
<1>3. CASE ~\E i \in 1 .. Len(list) : list[i] = c
  <2>1. Without(list, c) = list
    BY <1>3 DEF Without
  <2> QED BY <1>1, <1>3, <2>1
<1> QED BY <1>2, <1>3

\* The timer of a connection.
LEMMA Killed ==
    ASSUME PoolOK, NEW c \in DOMAIN killTimer, Kill(c)
    PROVE  /\ DOMAIN killTimer' = DOMAIN killTimer \ {c}
           /\ PoolOK'
<1>0. PICK key \in Keys : key = killTimer[c]
  BY DEF PoolOK
<1> DEFINE list == Without(connectionPool[key], c)
<1>1. /\ connectionPool' = IF Has(key) THEN AfterKill(key, list) ELSE connectionPool
      /\ killTimer' = Drop(killTimer, c)
      /\ connPoolSizeGauge' = connPoolSizeGauge - 1
  BY <1>0 DEF Kill
<1>2. /\ DOMAIN killTimer' = DOMAIN killTimer \ {c}
      /\ killTimer' = [o \in DOMAIN killTimer' |-> killTimer'[o]]
      /\ \A o \in DOMAIN killTimer' : killTimer'[o] = killTimer[o]
  BY <1>1 DEF Drop
<1>3. connPoolSizeGauge' \in Nat /\ GaugeCoversPool'
  <2>1. /\ Cardinality(DOMAIN killTimer') = Cardinality(DOMAIN killTimer) - 1
        /\ Cardinality(DOMAIN killTimer') \in Nat
    BY <1>2, TimersFinite, FS_RemoveElement, FS_CardinalityType
  <2> QED BY <1>1, <2>1, TimersFinite DEF PoolOK, GaugeCoversPool
<1>4. ASSUME NEW k \in DOMAIN connectionPool, k # key PROVE Listed(k, connectionPool[k])'
  <2>1. Listed(k, connectionPool[k])
    BY DEF PoolOK
  <2>2. connectionPool'[k] = connectionPool[k]
    BY <1>1, <1>4 DEF AfterKill, Drop, Put, PoolOK
  <2>3. \A i \in 1 .. Len(connectionPool[k]) : connectionPool[k][i] # c
    BY <1>0, <1>4, <2>1 DEF Listed
  <2> QED BY <1>2, <2>1, <2>2, <2>3 DEF Listed
<1>5. CASE Has(key) /\ list # << >>
  <2>1. connectionPool' = Put(connectionPool, key, list)
    BY <1>1, <1>5 DEF AfterKill
  <2>2. /\ DOMAIN connectionPool' = DOMAIN connectionPool
        /\ connectionPool' = [k \in DOMAIN connectionPool' |-> connectionPool'[k]]
        /\ connectionPool'[key] = list
    BY <1>5, <2>1 DEF Put, Has
  <2>3. Listed(key, connectionPool[key])
    BY <1>5 DEF PoolOK, Has
  <2>4. /\ list \in Seq(Conns)
        /\ \A j \in 1 .. Len(list) :
              \E i \in 1 .. Len(connectionPool[key]) :
                 list[j] = connectionPool[key][i] /\ connectionPool[key][i] # c
        /\ \A j, k \in 1 .. Len(list) : list[j] = list[k] => j = k
    BY <1>5, WithoutListed DEF Has
  <2> HIDE DEF list
  <2>5. \A j \in 1 .. Len(list) : list[j] \in DOMAIN killTimer' /\ killTimer'[list[j]] = key
    BY <1>2, <2>3, <2>4 DEF Listed
  <2>6. Listed(key, connectionPool[key])'
    BY <1>5, <2>2, <2>4, <2>5 DEF Listed
  <2>7. \A k \in DOMAIN connectionPool' : Listed(k, connectionPool[k])'
    BY <1>4, <2>2, <2>6
  <2> QED BY <1>2, <1>3, <2>2, <2>7 DEF PoolOK
<1>6. CASE Has(key) /\ list = << >>
  <2>1. connectionPool' = Drop(connectionPool, key)
    BY <1>1, <1>6 DEF AfterKill
  <2>2. /\ DOMAIN connectionPool' = DOMAIN connectionPool \ {key}
        /\ connectionPool' = [k \in DOMAIN connectionPool' |-> connectionPool'[k]]
    BY <2>1 DEF Drop
  <2> QED BY <1>2, <1>3, <1>4, <2>2 DEF PoolOK
<1>7. CASE ~Has(key)
  <2>1. connectionPool' = connectionPool /\ key \notin DOMAIN connectionPool
    BY <1>1, <1>7 DEF Has
  <2> QED BY <1>2, <1>3, <1>4, <2>1 DEF PoolOK
<1> QED BY <1>2, <1>5, <1>6, <1>7

(***************************************************************************)
(* Deliveries and their connections.                                       *)
(***************************************************************************)
Timers == DOMAIN killTimer

Used(c) == \E d \in Deliveries : delivery[d].conn = c

\* A delivery that waits for a connection is the one that its callbacks return
\* to; one that has got a connection has it for itself.
DeliveryOK(d) ==
    /\ delivery[d].at \in {"start", "cache", "hit", "miss", "mx"} =>
          delivery[d].conn = None /\ ~delivery[d].callbackReturned
    /\ delivery[d].at = "over" => delivery[d].conn = None
    /\ delivery[d].at = "connect" =>
          /\ ~delivery[d].callbackReturned
          /\ delivery[d].conn \in Conns /\ InProgress(delivery[d].conn)
          /\ ~conn[delivery[d].conn].returned /\ conn[delivery[d].conn].owner = d
    /\ delivery[d].at \in {"hook", "use"} =>
          delivery[d].conn \in Conns /\ conn[delivery[d].conn].at = "done"
    /\ delivery[d].conn \notin Timers

Alone ==
    \A d, e \in Deliveries :
        delivery[d].conn = delivery[e].conn /\ delivery[d].conn # None => d = e

ConnOK(c) ==
    /\ InProgress(c) /\ ~conn[c].returned =>
          /\ conn[c].owner \in Deliveries
          /\ delivery[conn[c].owner].conn = c /\ delivery[conn[c].owner].at = "connect"
          /\ conn[c].host \in AllHosts
    /\ conn[c].at = "done" => conn[c].returned
    /\ conn[c].at = "new" => ~conn[c].open /\ ~conn[c].endTimer
    /\ conn[c].open => Used(c) \/ c \in Timers
    /\ c \in Timers => conn[c].at = "done"

TlsOK(c) ==
    conn[c].enforceTLS =>
        /\ ~conn[c].ignoreTLS
        /\ conn[c].usageCount > 0 => conn[c].secure
        /\ conn[c].at = "auth" => conn[c].secure
        /\ conn[c].at = "done" /\ (Used(c) \/ c \in Timers) => conn[c].secure

Commands == [cmd : {"GETCACHE", "SETCACHE", "CLEARCACHE"}, delivery : Deliveries]

Asks(i, d) == commands[i].cmd = "GETCACHE" /\ commands[i].delivery = d

CommandsOK ==
    /\ commands \in Seq(Commands)
    /\ \A i \in 1 .. Len(commands), d \in Deliveries :
          Asks(i, d) => /\ delivery[d].at = "cache"
                        /\ \A j \in 1 .. Len(commands) : Asks(j, d) => i = j
    /\ \A i \in 1 .. Len(commands) :
          commands[i].cmd = "SETCACHE" =>
              /\ commands[i].delivery \notin reached
              /\ delivery[commands[i].delivery].callbackReturned

ReachedOK ==
    \A d \in Deliveries :
        ~delivery[d].callbackReturned => (delivery[d].netConnected <=> d \in reached)

Inv ==
    /\ TypeOK
    /\ PoolOK
    /\ \A d \in Deliveries : DeliveryOK(d)
    /\ Alone
    /\ \A c \in Conns : ConnOK(c) /\ TlsOK(c)
    /\ CommandsOK
    /\ ReachedOK

LEMMA InitInv == Init => Inv
<1> SUFFICES ASSUME Init PROVE Inv
  OBVIOUS
<1> USE ConnectionAssumption
<1>1. /\ delivery \in [Deliveries -> Delivery]
      /\ conn \in [Conns -> Connection]
  BY DEF Init, Delivery, Connection, NoConnection, None
<1>2. /\ connectionPool = [k \in {} |-> << >>] /\ killTimer = [c \in {} |-> 0]
      /\ DOMAIN connectionPool = {} /\ DOMAIN killTimer = {}
      /\ connPoolSizeGauge = 0 /\ Cardinality({}) = 0
  BY FS_EmptySet DEF Init, PoolInit
<1>3. TypeOK
  BY <1>1, <1>2 DEF Init, TypeOK
<1>4. PoolOK
  BY <1>2 DEF PoolOK, GaugeCoversPool
<1>5. \A d \in Deliveries : DeliveryOK(d)
  BY <1>2 DEF Init, DeliveryOK, Timers
<1>6. Alone
  BY DEF Init, Alone
<1>7. \A c \in Conns : ConnOK(c) /\ TlsOK(c)
  BY <1>2 DEF Init, ConnOK, TlsOK, InProgress, NoConnection, Timers
<1>8. CommandsOK
  BY DEF Init, CommandsOK
<1>9. ReachedOK
  BY DEF Init, ReachedOK
<1> QED BY <1>3, <1>4, <1>5, <1>6, <1>7, <1>8, <1>9 DEF Inv

(***************************************************************************)
(* What a step of one delivery does to the commands.                       *)
(***************************************************************************)
\* What r says of d, which was not waiting for the cache, fits what is told.
Fits(d, r) ==
    /\ r \in Delivery
    /\ delivery' = [delivery EXCEPT ![d] = r]
    /\ delivery[d].at # "cache"
    /\ delivery[d].callbackReturned => r.callbackReturned
    /\ reached' = reached \/ (reached' = reached \cup {d} /\ ~delivery[d].callbackReturned)
    /\ ~r.callbackReturned => (r.netConnected <=> d \in reached')
    /\ \/ commands' = commands
       \/ commands' = Command("GETCACHE", d) /\ r.at = "cache"
       \/ commands' = Command("CLEARCACHE", d)
       \/ commands' = Command("SETCACHE", d) /\ d \notin reached' /\ r.callbackReturned

LEMMA Told ==
    ASSUME Inv, NEW d \in Deliveries, NEW r, Fits(d, r)
    PROVE  CommandsOK' /\ ReachedOK'
<1>1. /\ delivery \in [Deliveries -> Delivery] /\ delivery' \in [Deliveries -> Delivery]
      /\ delivery'[d] = r
      /\ \A e \in Deliveries \ {d} : delivery'[e] = delivery[e]
  BY DEF Inv, TypeOK, Fits
<1>2. ReachedOK'
  BY <1>1 DEF Inv, ReachedOK, Fits
<1>3. /\ commands \in Seq(Commands) /\ Len(commands) \in Nat
      /\ \A i \in 1 .. Len(commands) : commands[i] \in Commands /\ ~Asks(i, d)
  BY DEF Inv, CommandsOK, Fits
<1>4. ASSUME commands' = commands PROVE CommandsOK'
  <2>1. ASSUME NEW i \in 1 .. Len(commands), NEW e \in Deliveries, Asks(i, e)
        PROVE  /\ delivery'[e].at = "cache"
               /\ \A j \in 1 .. Len(commands) : Asks(j, e) => i = j
    BY <1>1, <1>3, <2>1 DEF Inv, CommandsOK
  <2>2. ASSUME NEW i \in 1 .. Len(commands), commands[i].cmd = "SETCACHE"
        PROVE  /\ commands[i].delivery \notin reached'
               /\ delivery'[commands[i].delivery].callbackReturned
    BY <1>1, <1>3, <2>2 DEF Inv, CommandsOK, Fits, Commands
  <2> QED BY <1>3, <1>4, <2>1, <2>2 DEF CommandsOK, Asks
<1>5. ASSUME NEW cmd \in {"GETCACHE", "SETCACHE", "CLEARCACHE"},
             commands' = Command(cmd, d),
             cmd = "GETCACHE" => r.at = "cache",
             cmd = "SETCACHE" => d \notin reached' /\ r.callbackReturned
      PROVE  CommandsOK'
  <2>1. [cmd |-> cmd, delivery |-> d] \in Commands
    BY DEF Commands
  <2>2. /\ commands' \in Seq(Commands) /\ Len(commands') = Len(commands) + 1
        /\ commands'[Len(commands) + 1] = [cmd |-> cmd, delivery |-> d]
        /\ \A i \in 1 .. Len(commands) : commands'[i] = commands[i]
        /\ \A i \in 1 .. Len(commands') : i \in 1 .. Len(commands) \/ i = Len(commands) + 1
    BY <1>3, <1>5, <2>1 DEF Command
  <2>3. ASSUME NEW i \in 1 .. Len(commands'), NEW e \in Deliveries, Asks(i, e)'
        PROVE  /\ delivery'[e].at = "cache"
               /\ \A j \in 1 .. Len(commands') : Asks(j, e)' => i = j
    <3>1. CASE i = Len(commands) + 1
      <4>1. e = d /\ cmd = "GETCACHE"
        BY <2>2, <2>3, <3>1 DEF Asks
      <4>2. \A j \in 1 .. Len(commands) : ~Asks(j, e)'
        BY <1>3, <2>2, <4>1 DEF Asks
      <4> QED BY <1>1, <1>5, <2>2, <3>1, <4>1, <4>2
    <3>2. CASE i \in 1 .. Len(commands)
      <4>1. Asks(i, e) /\ e # d
        BY <1>3, <2>2, <2>3, <3>2 DEF Asks
      <4>2. /\ delivery[e].at = "cache"
            /\ \A j \in 1 .. Len(commands) : Asks(j, e) => i = j
        BY <3>2, <4>1 DEF Inv, CommandsOK
      <4>3. commands'[Len(commands) + 1].delivery # e
        BY <2>2, <4>1
      <4> QED BY <1>1, <2>2, <4>1, <4>2, <4>3 DEF Asks
    <3> QED BY <2>2, <3>1, <3>2
  <2>4. ASSUME NEW i \in 1 .. Len(commands'), commands'[i].cmd = "SETCACHE"
        PROVE  /\ commands'[i].delivery \notin reached'
               /\ delivery'[commands'[i].delivery].callbackReturned
    <3>1. CASE i = Len(commands) + 1
      BY <1>1, <1>5, <2>2, <2>4, <3>1
    <3>2. CASE i \in 1 .. Len(commands)
      <4>1. /\ commands'[i] = commands[i] /\ commands[i].delivery \in Deliveries
            /\ commands[i].delivery \notin reached
            /\ delivery[commands[i].delivery].callbackReturned
        BY <1>3, <2>2, <2>4, <3>2 DEF Inv, CommandsOK, Commands
      <4> QED BY <1>1, <4>1 DEF Fits
    <3> QED BY <2>2, <3>1, <3>2
  <2> QED BY <2>2, <2>3, <2>4 DEF CommandsOK
<1>6. CASE commands' = commands
  BY <1>2, <1>4, <1>6
<1>7. CASE commands' = Command("GETCACHE", d) /\ r.at = "cache"
  BY <1>2, <1>5, <1>7
<1>8. CASE commands' = Command("CLEARCACHE", d)
  BY <1>2, <1>5, <1>8
<1>9. CASE commands' = Command("SETCACHE", d) /\ d \notin reached' /\ r.callbackReturned
  BY <1>2, <1>5, <1>9
<1> QED BY <1>6, <1>7, <1>8, <1>9 DEF Fits

(***************************************************************************)
(* What a step does to the holders of connections.                         *)
(***************************************************************************)
Held ==
    /\ \A d \in Deliveries : DeliveryOK(d)
    /\ Alone
    /\ \A c \in Conns : ConnOK(c) /\ TlsOK(c)

LEMMA PoolSame == ASSUME PoolOK, UNCHANGED poolVars PROVE PoolOK' /\ Timers' = Timers
BY DEF PoolOK, poolVars, Timers, GaugeCoversPool, Listed

\* What the types of the pool say is in PoolOK.
LEMMA TypeKept ==
    ASSUME PoolOK', delivery' \in [Deliveries -> Delivery], conn' \in [Conns -> Connection],
           cache' \subseteq Keys, reached' \subseteq Deliveries
    PROVE  TypeOK'
BY DEF TypeOK, PoolOK, Listed

LEMMA Untold ==
    ASSUME Inv, UNCHANGED <<delivery, commands, reached>>
    PROVE  CommandsOK' /\ ReachedOK'
BY DEF Inv, CommandsOK, Asks, ReachedOK

\* A step of a delivery that leaves the pool alone
LEMMA DeliverySteps ==
    ASSUME Inv, NEW d \in Deliveries, NEW r, Fits(d, r), Held',
           UNCHANGED <<conn, cache, poolVars>>
    PROVE  Inv'
<1>1. delivery' \in [Deliveries -> Delivery] /\ reached' \subseteq Deliveries
  BY DEF Inv, TypeOK, Fits
<1>2. PoolOK'
  BY PoolSame DEF Inv
<1>3. TypeOK'
  BY <1>1, <1>2, TypeKept DEF Inv, TypeOK
<1> QED BY <1>2, <1>3, Told DEF Inv, Held

LEMMA LookUpInv ==
    ASSUME Inv, NEW d \in Deliveries, LookUp(d)
    PROVE  Inv'
<1> DEFINE r == [delivery[d] EXCEPT !.at = "cache"]
<1>1. Fits(d, r)
  BY DEF LookUp, Update, Fits, Delivery, Inv, TypeOK, DeliveryOK, ReachedOK
<1>2. Held'
  BY PoolSame DEF LookUp, Update, Held, Inv, TypeOK, Delivery, DeliveryOK, Alone, ConnOK, TlsOK, Used, InProgress
<1> QED BY <1>1, <1>2, DeliverySteps DEF LookUp

LEMMA HitInv ==
    ASSUME Inv, NEW d \in Deliveries, Hit(d)
    PROVE  Inv'
<1> DEFINE r == [delivery[d] EXCEPT !.at = "over"]
<1>1. Fits(d, r)
  BY DEF Hit, Update, Fits, Delivery, Inv, TypeOK, DeliveryOK, ReachedOK
<1>2. Held'
  BY PoolSame DEF Hit, Update, Held, Inv, TypeOK, Delivery, DeliveryOK, Alone, ConnOK, TlsOK, Used, InProgress
<1> QED BY <1>1, <1>2, DeliverySteps DEF Hit

LEMMA HookDoneInv ==
    ASSUME Inv, NEW d \in Deliveries, HookDone(d)
    PROVE  Inv'
<1> DEFINE r == [delivery[d] EXCEPT !.at = "use"]
<1>1. Fits(d, r)
  BY DEF HookDone, Update, Fits, Delivery, Inv, TypeOK, ReachedOK
<1>2. Held'
  BY PoolSame DEF HookDone, Update, Held, Inv, TypeOK, Delivery, DeliveryOK, Alone, ConnOK, TlsOK, Used, InProgress
<1> QED BY <1>1, <1>2, DeliverySteps DEF HookDone

LEMMA ReturnedType ==
    ASSUME NEW at \in {"hook", "over"}, NEW c \in Conns \cup {None}
    PROVE  /\ Returned(at, c) \in Delivery
           /\ Returned(at, c).at = at /\ Returned(at, c).conn = c /\ Returned(at, c).callbackReturned
BY DEF Returned, Delivery

LEMMA MxFailsInv ==
    ASSUME Inv, NEW d \in Deliveries, MxFails(d)
    PROVE  Inv'
<1> DEFINE r == Returned("over", None)
<1>1. /\ ~delivery[d].callbackReturned /\ delivery[d].conn = None
      /\ delivery' = [delivery EXCEPT ![d] = r]
      /\ commands' = Command(IF delivery[d].netConnected THEN "CLEARCACHE" ELSE "SETCACHE", d)
      /\ UNCHANGED <<conn, cache, reached, poolVars>>
      /\ delivery[d].at = "mx"
  BY DEF MxFails, Failure, Update, Inv, DeliveryOK
<1>2. Fits(d, r)
  BY <1>1, ReturnedType DEF Fits, Inv, ReachedOK
<1>3. delivery'[d] = r /\ \A e \in Deliveries \ {d} : delivery'[e] = delivery[e]
  BY <1>1 DEF Inv, TypeOK
<1>4. Held'
  BY <1>1, <1>3, ReturnedType, PoolSame
     DEF Held, Inv, DeliveryOK, Alone, ConnOK, TlsOK, Used, InProgress
<1> QED BY <1>1, <1>2, <1>4, DeliverySteps

\* A step of a connection that leaves its delivery and the pool alone
LEMMA ConnectionSteps ==
    ASSUME Inv, NEW c \in Conns, NEW x \in Connection, conn' = [conn EXCEPT ![c] = x], Held',
           UNCHANGED <<delivery, commands, cache, reached, poolVars>>
    PROVE  Inv'
<1>1. conn' \in [Conns -> Connection]
  BY DEF Inv, TypeOK
<1>2. PoolOK'
  BY PoolSame DEF Inv
<1>3. TypeOK'
  BY <1>1, <1>2, TypeKept DEF Inv, TypeOK
<1> QED BY <1>2, <1>3, Untold DEF Inv, Held

LEMMA GivenUpType ==
    ASSUME NEW x \in Connection, ~x.open
    PROVE  /\ GivenUp(x) \in Connection /\ ~GivenUp(x).open
           /\ GivenUp(x) = x \/ (GivenUp(x) = NoConnection /\ ~x.endTimer)
           /\ NoConnection \in Connection
BY ConnectionAssumption DEF GivenUp, NoConnection, Connection, None

LEMMA ClosedType ==
    ASSUME NEW x \in Connection
    PROVE  [x EXCEPT !.open = FALSE] \in Connection /\ ~[x EXCEPT !.open = FALSE].open
BY DEF Connection

LEMMA BreaksInv ==
    ASSUME Inv, NEW c \in Conns, Breaks(c)
    PROVE  Inv'
<1> DEFINE x == [conn[c] EXCEPT !.open = FALSE]
<1>1. x \in Connection /\ conn' = [conn EXCEPT ![c] = x]
  BY DEF Breaks, Inv, TypeOK, Connection
<1>2. Held'
  BY <1>1, PoolSame
     DEF Breaks, Held, Inv, TypeOK, Connection, DeliveryOK, Alone, ConnOK, TlsOK, Used, InProgress
<1> QED BY <1>1, <1>2, ConnectionSteps DEF Breaks

LEMMA EndEventInv ==
    ASSUME Inv, NEW c \in Conns, EndEvent(c)
    PROVE  Inv'
<1> DEFINE x == [conn[c] EXCEPT !.open = FALSE, !.endTimer = ~conn[c].returned]
<1>1. x \in Connection /\ conn' = [conn EXCEPT ![c] = x]
  BY DEF EndEvent, Inv, TypeOK, Connection
<1>2. Held'
  BY <1>1, PoolSame
     DEF EndEvent, Held, Inv, TypeOK, Connection, DeliveryOK, Alone, ConnOK, TlsOK, Used, InProgress
<1> QED BY <1>1, <1>2, ConnectionSteps DEF EndEvent

LEMMA ExpireInv ==
    ASSUME Inv, NEW key \in Keys, Expire(key)
    PROVE  Inv'
<1>1. Held' /\ PoolOK'
  BY PoolSame
     DEF Expire, Held, Inv, DeliveryOK, Alone, ConnOK, TlsOK, Used, InProgress
<1>2. TypeOK'
  BY <1>1, TypeKept DEF Expire, Inv, TypeOK
<1> QED BY <1>1, <1>2, Untold DEF Expire, Inv, Held

\* The commands that are left when the first is served.
LEMMA ServeInv ==
    ASSUME Inv, Serve
    PROVE  Inv'
<1> DEFINE cmd == Head(commands).cmd
           d == Head(commands).delivery
<1>1. /\ commands \in Seq(Commands) /\ commands # << >> /\ Len(commands) \in Nat \ {0}
      /\ Head(commands) = commands[1] /\ commands[1] \in Commands
      /\ cmd \in {"GETCACHE", "SETCACHE", "CLEARCACHE"} /\ d \in Deliveries
      /\ UNCHANGED <<conn, reached, poolVars>>
  <2>1. commands \in Seq(Commands) /\ commands # << >> /\ UNCHANGED <<conn, reached, poolVars>>
    BY DEF Serve, Inv, CommandsOK
  <2>2. Len(commands) \in Nat \ {0}
    BY <2>1, EmptySeq
  <2>3. Head(commands) = commands[1] /\ commands[1] \in Commands
    BY <2>1, <2>2
  <2> QED BY <2>1, <2>2, <2>3 DEF Commands
<1>2. /\ commands' \in Seq(Commands) /\ Len(commands') = Len(commands) - 1
      /\ \A i \in 1 .. Len(commands') : commands'[i] = commands[i + 1] /\ i + 1 \in 1 .. Len(commands)
  BY <1>1, HeadTailProperties DEF Serve
<1>3. /\ delivery' \in [Deliveries -> Delivery]
      /\ \A e \in Deliveries : /\ delivery'[e].callbackReturned = delivery[e].callbackReturned
                                /\ delivery'[e].netConnected = delivery[e].netConnected
      /\ \A e \in Deliveries : delivery'[e] = delivery[e] \/ (cmd = "GETCACHE" /\ e = d)
  <2>1. \/ UNCHANGED delivery
        \/ /\ cmd = "GETCACHE"
           /\ \E at \in {"hit", "miss"} :
                 delivery' = [delivery EXCEPT ![d] = [delivery[d] EXCEPT !.at = at]]
    BY <1>1 DEF Serve, Update
  <2> HIDE DEF cmd, d
  <2> QED BY <1>1, <2>1 DEF Inv, TypeOK, Delivery
<1>4. CommandsOK'
  <2>1. ASSUME NEW i \in 1 .. Len(commands'), NEW e \in Deliveries, Asks(i, e)'
        PROVE  /\ delivery'[e].at = "cache"
               /\ \A j \in 1 .. Len(commands') : Asks(j, e)' => i = j
    <3>1. Asks(i + 1, e) /\ i + 1 \in 1 .. Len(commands)
      BY <1>2, <2>1 DEF Asks
    <3>2. ~Asks(1, e)
      BY <1>1, <1>2, <3>1 DEF Inv, CommandsOK
    <3>3. delivery'[e] = delivery[e]
      BY <1>1, <1>3, <3>2 DEF Asks
    <3>4. \A j \in 1 .. Len(commands') : Asks(j, e)' => Asks(j + 1, e) /\ j + 1 \in 1 .. Len(commands)
      BY <1>2 DEF Asks
    <3>5. /\ delivery[e].at = "cache"
          /\ \A j \in 1 .. Len(commands) : Asks(j, e) => i + 1 = j
      BY <3>1 DEF Inv, CommandsOK
    <3> QED BY <1>1, <1>2, <3>3, <3>4, <3>5
  <2>2. ASSUME NEW i \in 1 .. Len(commands'), commands'[i].cmd = "SETCACHE"
        PROVE  /\ commands'[i].delivery \notin reached'
               /\ delivery'[commands'[i].delivery].callbackReturned
    <3>1. commands'[i] = commands[i + 1] /\ i + 1 \in 1 .. Len(commands)
      BY <1>2
    <3>2. /\ commands[i + 1] \in Commands /\ commands[i + 1].delivery \notin reached
          /\ delivery[commands[i + 1].delivery].callbackReturned
      BY <1>1, <2>2, <3>1 DEF Inv, CommandsOK
    <3>3. commands[i + 1].delivery \in Deliveries
      BY <3>2 DEF Commands
    <3> QED BY <1>1, <1>3, <3>1, <3>2, <3>3
  <2> QED BY <1>2, <2>1, <2>2 DEF CommandsOK
<1>5. ReachedOK'
  BY <1>1, <1>3 DEF Inv, ReachedOK
<1>6. PoolOK' /\ Timers' = Timers
  BY <1>1, PoolSame DEF Inv
<1>7. TypeOK'
  <2>1. cache' \subseteq Keys
    BY <1>1 DEF Serve, Inv, TypeOK, Keys
  <2> QED BY <1>1, <1>3, <1>6, <2>1, TypeKept DEF Inv, TypeOK
<1>8. Held'
  <2>1. CASE cmd = "GETCACHE"
    <3>1. /\ delivery[d].at = "cache"
          /\ \E at \in {"hit", "miss"} : delivery' = [delivery EXCEPT ![d] = [delivery[d] EXCEPT !.at = at]]
      <4>1. Asks(1, d)
        BY <1>1, <2>1 DEF Asks
      <4>2. \E at \in {"hit", "miss"} :
                delivery' = [delivery EXCEPT ![d] = [delivery[d] EXCEPT !.at = at]]
        <5>1. PICK at \in {"hit"} \cup (IF Key[d] \in cache THEN {} ELSE {"miss"}) :
                delivery' = [delivery EXCEPT ![d] = [delivery[d] EXCEPT !.at = at]]
          BY <2>1 DEF Serve, Update
        <5> QED BY <5>1
      <4>3. delivery[d].at = "cache"
        BY <1>1, <4>1 DEF Inv, CommandsOK
      <4> QED BY <4>2, <4>3
    <3> QED BY <1>1, <1>6, <3>1
            DEF Held, Inv, TypeOK, Delivery, DeliveryOK, Alone, ConnOK, TlsOK, Used, InProgress
  <2>2. CASE cmd # "GETCACHE"
    <3>1. UNCHANGED <<delivery, conn>>
      BY <1>1, <2>2 DEF Serve
    <3> QED BY <1>6, <3>1 DEF Held, Inv, DeliveryOK, Alone, ConnOK, TlsOK, Used, InProgress
  <2> QED BY <2>1, <2>2
<1> QED BY <1>4, <1>5, <1>6, <1>7, <1>8 DEF Inv, Held

LEMMA KillTimerInv ==
    ASSUME Inv, NEW c \in Conns, KillTimer(c)
    PROVE  Inv'
<1> DEFINE x == GivenUp([conn[c] EXCEPT !.open = FALSE])
<1>1. /\ c \in Timers /\ Timers' = Timers \ {c} /\ PoolOK'
  BY Killed DEF KillTimer, Timers, Inv
<1>2. /\ conn' = [conn EXCEPT ![c] = x]
      /\ UNCHANGED <<delivery, commands, cache, reached>>
  BY DEF KillTimer, ClosedByTimer
<1>3. /\ x \in Connection /\ ~x.open
      /\ x = NoConnection \/ x = [conn[c] EXCEPT !.open = FALSE]
  BY GivenUpType, ClosedType DEF Inv, TypeOK
<1>4. conn' \in [Conns -> Connection]
  BY <1>2, <1>3 DEF Inv, TypeOK
<1>5. ~Used(c)
  BY <1>1, ConnectionAssumption DEF Used, Inv, DeliveryOK
<1>6. Held'
  <2>1. conn'[c] = x /\ \A o \in Conns \ {c} : conn'[o] = conn[o]
    BY <1>2 DEF Inv, TypeOK
  <2>2. /\ ~x.open /\ conn[c].at = "done"
        /\ \/ x.at = "new" /\ ~x.endTimer /\ ~x.enforceTLS
           \/ /\ x.at = "done" /\ x.returned /\ x.enforceTLS = conn[c].enforceTLS
              /\ x.ignoreTLS = conn[c].ignoreTLS /\ x.secure = conn[c].secure
    <3>1. conn[c].at = "done" /\ conn[c].returned /\ conn[c] \in Connection
      BY <1>1 DEF Inv, ConnOK, TypeOK
    <3>2. CASE x = NoConnection
      BY <1>3, <3>1, <3>2 DEF NoConnection
    <3>3. CASE x = [conn[c] EXCEPT !.open = FALSE]
      <4> DEFINE y == [conn[c] EXCEPT !.open = FALSE]
      <4>1. /\ ~y.open /\ y.at = "done" /\ y.returned /\ y.enforceTLS = conn[c].enforceTLS
            /\ y.ignoreTLS = conn[c].ignoreTLS /\ y.secure = conn[c].secure
        BY <3>1 DEF Connection
      <4> HIDE DEF y
      <4> QED BY <3>1, <3>3, <4>1 DEF y
    <3> QED BY <1>3, <3>2, <3>3
  <2> HIDE DEF x
  <2>3. \A d \in Deliveries : DeliveryOK(d)' /\ delivery[d].conn # c
    BY <1>1, <1>2, <1>5, <2>1 DEF Inv, DeliveryOK, InProgress, Used
  <2>4. Alone'
    BY <1>2 DEF Inv, Alone
  <2>5. \A o \in Conns : Used(o)' <=> Used(o)
    BY <1>2 DEF Used
  <2>6. ASSUME NEW o \in Conns, o # c PROVE ConnOK(o)' /\ TlsOK(o)'
    BY <1>1, <1>2, <2>1, <2>5, <2>6 DEF Inv, ConnOK, TlsOK, InProgress
  <2>7. ConnOK(c)'
    BY <1>1, <2>1, <2>2 DEF ConnOK, InProgress
  <2>8. TlsOK(c)'
    BY <1>1, <2>1, <2>2 DEF Inv, TlsOK
  <2> QED BY <2>3, <2>4, <2>6, <2>7, <2>8 DEF Held
<1>7. TypeOK'
  BY <1>1, <1>2, <1>4, TypeKept DEF Inv, TypeOK
<1> QED BY <1>1, <1>2, <1>6, <1>7, Untold DEF Inv, Held

LEMMA MxConnectedInv ==
    ASSUME Inv, NEW d \in Deliveries, NEW host \in Hosts[d], NEW enforceTLS \in BOOLEAN,
           MxConnected(d, host, enforceTLS)
    PROVE  Inv'
<1> DEFINE ignoreTLS == IgnoresTLS(delivery[d], enforceTLS)
<1>1. PICK c \in Conns :
         /\ Free(c)
         /\ conn' = [conn EXCEPT ![c] =
                       [NoConnection EXCEPT
                          !.at = "init", !.open = TRUE, !.owner = d, !.host = host,
                          !.enforceTLS = enforceTLS, !.ignoreTLS = ignoreTLS]]
         /\ delivery' = [delivery EXCEPT ![d] =
                           [HasSocket(delivery[d]) EXCEPT !.at = "connect", !.conn = c,
                                                          !.ignoreTLS = ignoreTLS]]
  BY DEF MxConnected, Update
<1> DEFINE x == [NoConnection EXCEPT
                   !.at = "init", !.open = TRUE, !.owner = d, !.host = host,
                   !.enforceTLS = enforceTLS, !.ignoreTLS = ignoreTLS]
           r == [HasSocket(delivery[d]) EXCEPT !.at = "connect", !.conn = c, !.ignoreTLS = ignoreTLS]
<1>2. /\ delivery[d].at = "mx" /\ ~delivery[d].callbackReturned /\ delivery[d] \in Delivery
      /\ reached' = reached \cup {d}
      /\ UNCHANGED <<commands, cache, poolVars>>
  BY DEF MxConnected, Inv, DeliveryOK, TypeOK
<1>3. ignoreTLS \in BOOLEAN /\ (enforceTLS => ~ignoreTLS)
  BY <1>2 DEF IgnoresTLS, Delivery
<1>4. /\ r \in Delivery /\ r.at = "connect" /\ r.conn = c /\ r.netConnected
      /\ ~r.callbackReturned
  BY <1>2, <1>3 DEF HasSocket, Delivery
<1>5. host \in AllHosts
  BY DEF AllHosts
<1>6. /\ x \in Connection /\ x.at = "init" /\ x.owner = d /\ x.host = host /\ ~x.returned
      /\ x.usageCount = 0 /\ x.enforceTLS = enforceTLS /\ x.ignoreTLS = ignoreTLS
  <2>1. /\ NoConnection \in Connection
        /\ ~NoConnection.returned /\ NoConnection.usageCount = 0
    BY ConnectionAssumption DEF NoConnection, Connection, None
  <2> HIDE DEF ignoreTLS
  <2> QED BY <1>3, <1>5, <2>1 DEF Connection
<1>7. ~Used(c) /\ c \notin Timers
  BY <1>1 DEF Free, Users, Used, Timers
<1> HIDE DEF x, r, ignoreTLS
<1>8. /\ delivery' = [delivery EXCEPT ![d] = r] /\ conn' = [conn EXCEPT ![c] = x]
      /\ delivery'[d] = r /\ \A e \in Deliveries \ {d} : delivery'[e] = delivery[e]
      /\ conn'[c] = x /\ \A o \in Conns \ {c} : conn'[o] = conn[o]
      /\ delivery' \in [Deliveries -> Delivery] /\ conn' \in [Conns -> Connection]
  BY <1>1, <1>4, <1>6 DEF Inv, TypeOK, x, r
<1>9. PoolOK' /\ Timers' = Timers
  BY <1>2, PoolSame DEF Inv
<1>10. CommandsOK' /\ ReachedOK'
  <2>1. Fits(d, r)
    BY <1>2, <1>4, <1>8 DEF Fits
  <2> QED BY <2>1, Told
<1>11. TypeOK'
  BY <1>2, <1>8, <1>9, TypeKept DEF Inv, TypeOK
<1>12. Held'
  <2>1. \A e \in Deliveries : delivery[e].conn # c
    BY <1>7 DEF Used
  <2>2. \A e \in Deliveries : DeliveryOK(e)'
    BY <1>4, <1>6, <1>7, <1>8, <1>9, <2>1 DEF Inv, DeliveryOK, InProgress
  <2>3. Alone'
    BY <1>4, <1>8, <2>1 DEF Inv, Alone
  <2>4. ASSUME NEW o \in Conns, o # c PROVE ConnOK(o)' /\ TlsOK(o)'
    <3>1. Used(o)' <=> Used(o)
      BY <1>2, <1>4, <1>8, <2>4, ConnectionAssumption DEF Used, Inv, DeliveryOK, None
    <3> QED BY <1>2, <1>8, <1>9, <2>4, <3>1 DEF Inv, ConnOK, TlsOK, InProgress
  <2>5. ConnOK(c)' /\ TlsOK(c)'
    BY <1>3, <1>4, <1>5, <1>6, <1>7, <1>8, <1>9 DEF ConnOK, TlsOK, InProgress, Used
  <2> QED BY <2>2, <2>3, <2>4, <2>5 DEF Held
<1> QED BY <1>9, <1>10, <1>11, <1>12 DEF Inv, Held

(***************************************************************************)
(* A delivery leaves its connection.                                       *)
(***************************************************************************)
\* What a connection without a delivery has to be
Nobodys(c) ==
    /\ conn[c].at # "new" => conn[c].returned
    /\ conn[c].at = "new" => ~conn[c].open /\ ~conn[c].endTimer
    /\ conn[c].open => c \in Timers
    /\ c \in Timers => conn[c].at = "done"
    /\ conn[c].enforceTLS =>
          /\ ~conn[c].ignoreTLS
          /\ conn[c].usageCount > 0 => conn[c].secure
          /\ conn[c].at = "auth" => conn[c].secure
          /\ c \in Timers => conn[c].secure

\* The delivery has none then, or one of the pool.
Gets(r) ==
    \/ /\ r.at \in {"over", "mx"} /\ r.conn = None
       /\ r.at = "mx" => ~r.callbackReturned
       /\ \A o \in Timers \ Timers' : ~conn[o].open
    \/ r.at = "hook" /\ r.conn \in Timers \ Timers' /\ Timers' = Timers \ {r.conn}

LEMMA Leaves ==
    ASSUME Inv, PoolOK', NEW d \in Deliveries, NEW c, c = delivery[d].conn,
           NEW r \in Delivery, delivery' = [delivery EXCEPT ![d] = r], Gets(r),
           \A o \in Conns \ {c} : conn'[o] = conn[o] /\ (o \in Timers' => o \in Timers),
           c \in Conns => Nobodys(c)'
    PROVE  Held'
<1>1. /\ delivery'[d] = r /\ \A e \in Deliveries \ {d} : delivery'[e] = delivery[e]
      /\ Timers' \subseteq Conns /\ Timers \subseteq Conns
  BY DEF Inv, TypeOK, PoolOK, Timers
<1>2. \A e \in Deliveries \ {d} : delivery[e].conn # c \/ delivery[e].conn = None
  BY DEF Inv, Alone
<1>3. None \notin Conns
  BY ConnectionAssumption DEF None
<1>4. \A o \in Timers : conn[o].at = "done"
  BY <1>1 DEF Inv, ConnOK
<1>5. \A e \in Deliveries : delivery[e].conn \notin Timers
  BY DEF Inv, DeliveryOK
<1>6. r.conn # c \/ r.conn = None
  BY <1>5 DEF Gets
<1>7. ASSUME NEW e \in Deliveries, e # d PROVE DeliveryOK(e)'
  <2>1. DeliveryOK(e) /\ delivery[e] \in Delivery
    BY DEF Inv, TypeOK
  <2>2. delivery[e].conn \in Conns => conn'[delivery[e].conn] = conn[delivery[e].conn]
    BY <1>2, <1>3, <1>7
  <2>3. delivery[e].conn \notin Timers'
    BY <1>1, <1>2, <1>3, <1>5, <1>7
  <2> QED BY <1>1, <1>7, <2>1, <2>2, <2>3 DEF DeliveryOK, InProgress
<1>8. DeliveryOK(d)'
  <2>1. CASE r.conn = None
    BY <1>1, <1>3, <2>1 DEF DeliveryOK, Gets
  <2>2. CASE r.conn # None
    BY <1>1, <1>4, <1>6, <2>2 DEF DeliveryOK, Gets
  <2> QED BY <2>1, <2>2
<1>9. Alone'
  <2>1. \A e \in Deliveries \ {d} : delivery[e].conn # r.conn \/ r.conn = None
    BY <1>5 DEF Gets
  <2> QED BY <1>1, <2>1 DEF Inv, Alone
<1>10. ASSUME NEW o \in Conns, o # c PROVE ConnOK(o)' /\ TlsOK(o)'
  <2>1. ConnOK(o) /\ TlsOK(o) /\ conn'[o] = conn[o] /\ (o \in Timers' => o \in Timers)
    BY <1>10 DEF Inv
  <2>2. Used(o)' <=> (Used(o) \/ o = r.conn)
    BY <1>1, <1>10 DEF Used
  <2>3. InProgress(o) /\ ~conn[o].returned => conn[o].owner # d
    BY <1>10, <2>1 DEF ConnOK
  <2>4. o \in Timers => o \in Timers' \/ o = r.conn \/ ~conn[o].open
    BY DEF Gets
  <2>5. o = r.conn => o \in Timers
    BY <1>3 DEF Gets
  <2>6. ConnOK(o)'
    BY <1>1, <2>1, <2>2, <2>3, <2>4 DEF ConnOK, InProgress
  <2>7. TlsOK(o)'
    BY <2>1, <2>2, <2>5 DEF TlsOK
  <2> QED BY <2>6, <2>7
<1>11. ASSUME c \in Conns PROVE ConnOK(c)' /\ TlsOK(c)'
  <2>1. ~Used(c)'
    BY <1>1, <1>2, <1>3, <1>6, <1>11 DEF Used
  <2>2. Nobodys(c)'
    BY <1>11
  <2> QED BY <2>1, <2>2 DEF Nobodys, ConnOK, TlsOK, InProgress
<1> QED BY <1>7, <1>8, <1>9, <1>10, <1>11 DEF Held

\* A connection is taken from the pool, or looked for again.
LEMMA Tried ==
    ASSUME Inv, NEW d \in Deliveries, NEW r0 \in Delivery, ~r0.callbackReturned,
           TryConnect(d, r0)
    PROVE  /\ PoolOK' /\ UNCHANGED commands /\ Timers' \subseteq Timers
           /\ \E r \in Delivery :
                 /\ delivery' = [delivery EXCEPT ![d] = r]
                 /\ Gets(r)
                 /\ ~r.callbackReturned => r.netConnected = r0.netConnected
<1> DEFINE key == Key[d]
           pooled == Head(connectionPool[key])
           again == [r0 EXCEPT !.at = "mx", !.conn = None]
<1>1. key \in Keys
  BY DEF Keys
<1>2. /\ again \in Delivery /\ again.at = "mx" /\ again.conn = None
      /\ ~again.callbackReturned /\ again.netConnected = r0.netConnected
  BY DEF Delivery
<1> HIDE DEF again
<1>3. CASE ~Has(key)
  <2>1. /\ delivery' = [delivery EXCEPT ![d] = again] /\ UNCHANGED commands
        /\ UNCHANGED poolVars
    BY <1>3 DEF TryConnect, Update, again
  <2>2. PoolOK' /\ Timers' = Timers
    BY <2>1, PoolSame DEF Inv
  <2> QED BY <1>2, <2>1, <2>2 DEF Gets
<1>4. CASE Has(key)
  <2>1. GetConnection(key, conn[pooled].open)
    BY <1>4 DEF TryConnect
  <2>2. pooled \in Timers
    BY <1>1, <1>4, FirstHasTimer DEF Inv, Timers
  <2>3. pooled \in Conns /\ conn[pooled].open \in BOOLEAN
    BY <2>2 DEF Inv, PoolOK, Timers, TypeOK, Connection
  <2>4. Timers' = Timers \ {pooled} /\ PoolOK'
    BY <1>1, <1>4, <2>1, <2>3, Taken DEF Inv, Timers
  <2>5. CASE conn[pooled].open
    <3>1. delivery' = [delivery EXCEPT ![d] = Returned("hook", pooled)] /\ UNCHANGED commands
      BY <1>4, <2>5 DEF TryConnect, Success, Update
    <3>2. /\ Returned("hook", pooled) \in Delivery
          /\ Returned("hook", pooled).at = "hook" /\ Returned("hook", pooled).conn = pooled
          /\ Returned("hook", pooled).callbackReturned
      BY <2>3, ReturnedType
    <3> QED BY <2>2, <2>4, <3>1, <3>2 DEF Gets
  <2>6. CASE ~conn[pooled].open
    <3>1. delivery' = [delivery EXCEPT ![d] = again] /\ UNCHANGED commands
      BY <1>4, <2>6 DEF TryConnect, Update, again
    <3> QED BY <1>2, <2>4, <2>6, <3>1 DEF Gets
  <2> QED BY <2>5, <2>6
<1> QED BY <1>3, <1>4

LEMMA MissInv ==
    ASSUME Inv, NEW d \in Deliveries, Miss(d)
    PROVE  Inv'
<1>1. /\ delivery[d] \in Delivery /\ delivery[d].at = "miss" /\ ~delivery[d].callbackReturned
      /\ delivery[d].conn = None /\ UNCHANGED <<conn, cache, reached>>
  BY DEF Miss, Inv, TypeOK, DeliveryOK
<1>2. /\ PoolOK' /\ UNCHANGED commands /\ Timers' \subseteq Timers
  BY <1>1, Tried DEF Miss
<1>3. PICK r \in Delivery :
         /\ delivery' = [delivery EXCEPT ![d] = r]
         /\ Gets(r)
         /\ ~r.callbackReturned => r.netConnected = delivery[d].netConnected
  BY <1>1, Tried DEF Miss
<1>4. Held'
  BY <1>1, <1>2, <1>3, Leaves, ConnectionAssumption DEF None
<1>5. Fits(d, r)
  BY <1>1, <1>2, <1>3 DEF Fits, Inv, ReachedOK
<1>6. TypeOK'
  BY <1>1, <1>2, <1>3, TypeKept DEF Inv, TypeOK
<1> QED BY <1>2, <1>4, <1>5, <1>6, Told DEF Inv, Held

LEMMA SendFailsInv ==
    ASSUME Inv, NEW d \in Deliveries, SendFails(d)
    PROVE  Inv'
<1> DEFINE c == delivery[d].conn
           r == [delivery[d] EXCEPT !.at = "over", !.conn = None]
           x == GivenUp([conn[c] EXCEPT !.open = FALSE])
<1>1. /\ delivery[d] \in Delivery /\ delivery[d].at = "use"
      /\ c \in Conns /\ conn[c] \in Connection /\ conn[c].at = "done" /\ c \notin Timers
      /\ UNCHANGED <<commands, cache, reached, poolVars>>
  BY DEF SendFails, Inv, TypeOK, DeliveryOK
<1>2. r \in Delivery /\ r.at = "over" /\ r.conn = None
      /\ r.callbackReturned = delivery[d].callbackReturned
      /\ r.netConnected = delivery[d].netConnected
  BY <1>1 DEF Delivery
<1>3. delivery' = [delivery EXCEPT ![d] = r] /\ conn' = [conn EXCEPT ![c] = x]
  BY DEF SendFails, Update
<1>4. x \in Connection /\ (x = [conn[c] EXCEPT !.open = FALSE] \/ x = NoConnection)
  BY <1>1, GivenUpType, ClosedType
<1> HIDE DEF r, x
<1>5. PoolOK' /\ Timers' = Timers
  BY <1>1, PoolSame DEF Inv
<1>6. PICK b \in Conns : b = c
  BY <1>1
<1>7. Nobodys(b)'
  <2>1. conn'[b] = x
    BY <1>1, <1>3, <1>6 DEF Inv, TypeOK
  <2>2. ConnOK(b) /\ TlsOK(b) /\ Used(b)
    BY <1>6 DEF Inv, Used
  <2>3. CASE x = NoConnection
    BY <2>1, <2>3, <1>1, <1>5, <1>6 DEF Nobodys, NoConnection
  <2>4. CASE x = [conn[c] EXCEPT !.open = FALSE]
    BY <2>1, <2>2, <2>4, <1>1, <1>5, <1>6 DEF Nobodys, ConnOK, TlsOK, Connection
  <2> QED BY <1>4, <2>3, <2>4
<1>8. Held'
  <2>1. Gets(r)
    BY <1>2, <1>5 DEF Gets
  <2>2. \A o \in Conns \ {b} : conn'[o] = conn[o]
    BY <1>3, <1>6 DEF Inv, TypeOK
  <2> QED BY <1>2, <1>3, <1>5, <1>6, <1>7, <2>1, <2>2, Leaves
<1>9. Fits(d, r)
  BY <1>1, <1>2, <1>3 DEF Fits, Inv, ReachedOK
<1>10. TypeOK'
  BY <1>1, <1>2, <1>3, <1>4, <1>5, TypeKept DEF Inv, TypeOK
<1> QED BY <1>5, <1>8, <1>9, <1>10, Told DEF Inv, Held

LEMMA SendDoneInv ==
    ASSUME Inv, NEW d \in Deliveries, SendDone(d)
    PROVE  Inv'
<1> DEFINE r == [delivery[d] EXCEPT !.at = "over", !.conn = None]
<1>1. PICK c \in Conns : c = delivery[d].conn
  BY DEF SendDone, Inv, DeliveryOK
<1>2. /\ delivery[d] \in Delivery /\ delivery[d].at = "use"
      /\ conn[c] \in Connection /\ conn[c].at = "done" /\ c \notin Timers
      /\ UNCHANGED <<commands, cache, reached>>
  BY <1>1 DEF SendDone, Inv, TypeOK, DeliveryOK
<1>3. /\ r \in Delivery /\ r.at = "over" /\ r.conn = None
      /\ r.callbackReturned = delivery[d].callbackReturned
      /\ r.netConnected = delivery[d].netConnected
  BY <1>2 DEF Delivery
<1>4. delivery' = [delivery EXCEPT ![d] = r]
  BY DEF SendDone, Update
<1> HIDE DEF r
<1>5. ConnOK(c) /\ TlsOK(c) /\ Used(c)
  BY <1>1 DEF Inv, Used
<1>6. Fits(d, r)
  BY <1>2, <1>3, <1>4 DEF Fits, Inv, ReachedOK
<1>7. CASE conn[c].usageCount + 1 < MaxReuse
  <2> DEFINE x == [conn[c] EXCEPT !.usageCount = conn[c].usageCount + 1]
  <2>1. conn' = [conn EXCEPT ![c] = x] /\ AddConnection(Key[d], c)
    BY <1>1, <1>7 DEF SendDone
  <2>2. /\ x \in Connection /\ x.at = "done" /\ x.returned = conn[c].returned
        /\ x.enforceTLS = conn[c].enforceTLS /\ x.ignoreTLS = conn[c].ignoreTLS
        /\ x.secure = conn[c].secure
    BY <1>2, <1>7, ConnectionAssumption DEF Connection
  <2> HIDE DEF x
  <2>3. PoolOK' /\ Timers' = Timers \cup {c}
    BY <1>2, <2>1, Added DEF Inv, Timers, Keys
  <2>4. conn'[c] = x /\ \A o \in Conns \ {c} : conn'[o] = conn[o]
    BY <2>1 DEF Inv, TypeOK
  <2>5. Nobodys(c)'
    BY <1>2, <1>5, <2>2, <2>3, <2>4 DEF Nobodys, ConnOK, TlsOK
  <2>6. Gets(r)
    BY <1>3, <2>3 DEF Gets
  <2>7. Held'
    BY <1>1, <1>3, <1>4, <2>3, <2>4, <2>5, <2>6, Leaves
  <2>8. TypeOK'
    BY <1>2, <1>3, <1>4, <2>1, <2>2, <2>3, TypeKept DEF Inv, TypeOK
  <2> QED BY <1>6, <2>3, <2>7, <2>8, Told DEF Inv, Held
<1>8. CASE ~(conn[c].usageCount + 1 < MaxReuse)
  <2> DEFINE x == GivenUp([conn[c] EXCEPT !.open = FALSE])
  <2>1. conn' = [conn EXCEPT ![c] = x] /\ UNCHANGED poolVars
    BY <1>1, <1>8 DEF SendDone
  <2>2. x \in Connection /\ (x = [conn[c] EXCEPT !.open = FALSE] \/ x = NoConnection)
    BY <1>2, GivenUpType, ClosedType
  <2> HIDE DEF x
  <2>3. PoolOK' /\ Timers' = Timers
    BY <2>1, PoolSame DEF Inv
  <2>4. conn'[c] = x /\ \A o \in Conns \ {c} : conn'[o] = conn[o]
    BY <2>1 DEF Inv, TypeOK
  <2>5. Nobodys(c)'
    <3>1. CASE x = NoConnection
      BY <1>2, <2>3, <2>4, <3>1 DEF Nobodys, NoConnection
    <3>2. CASE x = [conn[c] EXCEPT !.open = FALSE]
      BY <1>2, <1>5, <2>3, <2>4, <3>2 DEF Nobodys, ConnOK, TlsOK, Connection
    <3> QED BY <2>2, <3>1, <3>2
  <2>6. Gets(r)
    BY <1>3, <2>3 DEF Gets
  <2>7. Held'
    BY <1>1, <1>3, <1>4, <2>3, <2>4, <2>5, <2>6, Leaves
  <2>8. TypeOK'
    BY <1>2, <1>3, <1>4, <2>1, <2>2, <2>3, TypeKept DEF Inv, TypeOK
  <2> QED BY <1>6, <2>3, <2>7, <2>8, Told DEF Inv, Held
<1> QED BY <1>7, <1>8

\* The delivery gets an error, and the master is told.
LEMMA Failed ==
    ASSUME Inv, NEW d \in Deliveries, NEW r0, Failure(d, r0), UNCHANGED reached,
           delivery[d].at # "cache", ~delivery[d].callbackReturned,
           ~r0.callbackReturned, r0.netConnected = delivery[d].netConnected
    PROVE  /\ Fits(d, Returned("over", None))
           /\ Timers' = Timers => Gets(Returned("over", None))
<1>1. /\ delivery' = [delivery EXCEPT ![d] = Returned("over", None)]
      /\ commands' = Command(IF r0.netConnected THEN "CLEARCACHE" ELSE "SETCACHE", d)
  BY DEF Failure, Update
<1>2. delivery[d].netConnected <=> d \in reached
  BY DEF Inv, ReachedOK
<1> QED BY <1>1, <1>2, ReturnedType DEF Fits, Gets

\* The connection whose attempt has failed is nobody's.
LEMMA AttemptFails ==
    ASSUME Inv, NEW c \in Conns, NEW d \in Deliveries, d = conn[c].owner, NEW x \in Connection,
           InProgress(c), ~conn[c].returned,
           conn' = [conn EXCEPT ![c] = x],
           Failure(d, delivery[d]), UNCHANGED <<cache, reached, poolVars>>,
           (Timers' = Timers) => Nobodys(c)'
    PROVE  Inv'
<1> DEFINE r == Returned("over", None)
<1>1. /\ delivery[d].conn = c /\ delivery[d].at = "connect" /\ ~delivery[d].callbackReturned
  BY DEF Inv, ConnOK, DeliveryOK
<1>2. PoolOK' /\ Timers' = Timers
  BY PoolSame DEF Inv
<1>3. Fits(d, r) /\ Gets(r) /\ r \in Delivery
  BY <1>1, <1>2, Failed, ReturnedType
<1>4. \A o \in Conns \ {c} : conn'[o] = conn[o]
  BY DEF Inv, TypeOK
<1> HIDE DEF r
<1>5. delivery' = [delivery EXCEPT ![d] = r]
  BY <1>3 DEF Fits
<1>6. Held'
  BY <1>1, <1>2, <1>3, <1>4, <1>5, Leaves
<1>7. TypeOK'
  BY <1>2, <1>3, <1>5, TypeKept DEF Inv, TypeOK
<1> QED BY <1>2, <1>3, <1>6, <1>7, Told DEF Inv, Held

LEMMA ConnectDoneInv ==
    ASSUME Inv, NEW c \in Conns, NEW secure \in BOOLEAN, ConnectDone(c, secure)
    PROVE  Inv'
<1>1. /\ conn[c] \in Connection /\ conn[c].at = "init" /\ ConnOK(c) /\ TlsOK(c)
      /\ UNCHANGED <<cache, reached, poolVars>>
  BY DEF ConnectDone, Inv, TypeOK
<1>2. CASE conn[c].returned
  <2> DEFINE x == [conn[c] EXCEPT !.open = FALSE, !.at = "done"]
  <2>1. /\ x \in Connection /\ conn' = [conn EXCEPT ![c] = x]
        /\ UNCHANGED <<delivery, commands>>
    BY <1>1, <1>2 DEF ConnectDone, Connection
  <2>2. ~Used(c) /\ c \notin Timers
    BY <1>1, <1>2, ConnectionAssumption DEF Used, Inv, DeliveryOK, ConnOK, TypeOK, Delivery, None
  <2>3. Held'
    BY <1>1, <1>2, <2>1, <2>2, PoolSame
       DEF Held, Inv, TypeOK, Connection, DeliveryOK, Alone, ConnOK, TlsOK, Used, InProgress
  <2> QED BY <1>1, <2>1, <2>3, ConnectionSteps
<1>3. CASE ~conn[c].returned /\ TlsIsMissing(c, secure)
  <2> DEFINE y == [conn[c] EXCEPT !.open = FALSE, !.at = "done", !.returned = TRUE]
             x == GivenUp(y)
  <2>1. conn' = [conn EXCEPT ![c] = x] /\ Failure(conn[c].owner, delivery[conn[c].owner])
    BY <1>1, <1>3 DEF ConnectDone
  <2>2. /\ y \in Connection /\ ~y.open /\ y.at = "done" /\ y.returned
        /\ y.enforceTLS = conn[c].enforceTLS /\ y.ignoreTLS = conn[c].ignoreTLS
        /\ y.usageCount = conn[c].usageCount /\ y.secure = conn[c].secure
    BY <1>1 DEF Connection
  <2> HIDE DEF y
  <2>3. x \in Connection /\ (x = y \/ x = NoConnection)
    BY <2>2, GivenUpType
  <2> HIDE DEF x
  <2>4. conn'[c] = x
    BY <2>1 DEF Inv, TypeOK
  <2>5. (Timers' = Timers) => Nobodys(c)'
    <3>1. CASE x = NoConnection
      BY <1>1, <2>4, <3>1 DEF Nobodys, NoConnection, ConnOK
    <3>2. CASE x = y
      BY <1>1, <2>2, <2>4, <3>2 DEF Nobodys, ConnOK, TlsOK
    <3> QED BY <2>3, <3>1, <3>2
  <2>6. conn[c].owner \in Deliveries /\ InProgress(c)
    BY <1>1, <1>3 DEF ConnOK, InProgress
  <2> QED BY <1>1, <1>3, <2>1, <2>3, <2>5, <2>6, AttemptFails
<1>4. CASE ~conn[c].returned /\ ~TlsIsMissing(c, secure)
  <2> DEFINE x == [conn[c] EXCEPT !.at = "auth", !.secure = secure]
  <2>1. /\ x \in Connection /\ conn' = [conn EXCEPT ![c] = x]
        /\ UNCHANGED <<delivery, commands>>
    BY <1>1, <1>4 DEF ConnectDone, Connection
  <2>2. /\ x.at = "auth" /\ x.secure = secure /\ x.returned = conn[c].returned
        /\ x.owner = conn[c].owner /\ x.open = conn[c].open /\ x.enforceTLS = conn[c].enforceTLS
        /\ x.ignoreTLS = conn[c].ignoreTLS /\ x.usageCount = conn[c].usageCount
        /\ x.host = conn[c].host
    BY <1>1 DEF Connection
  <2>3. x.enforceTLS => secure
    BY <1>4, <2>2 DEF TlsIsMissing
  <2> HIDE DEF x
  <2>4. Held'
    BY <1>1, <1>4, <2>1, <2>2, <2>3, PoolSame
       DEF Held, Inv, TypeOK, DeliveryOK, Alone, ConnOK, TlsOK, Used, InProgress
  <2> QED BY <1>1, <2>1, <2>4, ConnectionSteps
<1> QED BY <1>2, <1>3, <1>4

LEMMA AuthDoneInv ==
    ASSUME Inv, NEW c \in Conns, NEW ok \in BOOLEAN, AuthDone(c, ok)
    PROVE  Inv'
<1>1. /\ conn[c] \in Connection /\ conn[c].at = "auth" /\ ConnOK(c) /\ TlsOK(c)
      /\ UNCHANGED <<cache, reached, poolVars>>
  BY DEF AuthDone, Inv, TypeOK
<1>2. PoolOK' /\ Timers' = Timers
  BY <1>1, PoolSame DEF Inv
<1>3. CASE conn[c].returned
  <2> DEFINE x == [conn[c] EXCEPT !.at = "done"]
  <2>1. /\ x \in Connection /\ conn' = [conn EXCEPT ![c] = x]
        /\ UNCHANGED <<delivery, commands>>
    BY <1>1, <1>3 DEF AuthDone, Connection
  <2>2. ~Used(c) /\ c \notin Timers
    BY <1>1, <1>3, ConnectionAssumption DEF Used, Inv, DeliveryOK, ConnOK, TypeOK, Delivery, None
  <2>3. Held'
    BY <1>1, <1>2, <1>3, <2>1, <2>2
       DEF Held, Inv, TypeOK, Connection, DeliveryOK, Alone, ConnOK, TlsOK, Used, InProgress
  <2> QED BY <1>1, <2>1, <2>3, ConnectionSteps
<1>4. ASSUME ~conn[c].returned PROVE conn[c].owner \in Deliveries /\ InProgress(c)
  BY <1>1, <1>4 DEF ConnOK, InProgress
<1>5. CASE ~conn[c].returned /\ ok
  <2>1. PICK d \in Deliveries : d = conn[c].owner
    BY <1>4, <1>5
  <2> DEFINE x == [conn[c] EXCEPT !.at = "done", !.returned = TRUE, !.host = None, !.owner = None]
             r == Returned("hook", c)
  <2>2. /\ delivery[d] \in Delivery /\ delivery[d].conn = c /\ delivery[d].at = "connect"
        /\ ~delivery[d].callbackReturned /\ c \notin Timers
    BY <1>4, <1>5, <2>1 DEF Inv, TypeOK, ConnOK, DeliveryOK
  <2>3. /\ x \in Connection /\ x.at = "done" /\ x.returned /\ x.open = conn[c].open
        /\ x.enforceTLS = conn[c].enforceTLS /\ x.ignoreTLS = conn[c].ignoreTLS
        /\ x.usageCount = conn[c].usageCount /\ x.secure = conn[c].secure
    BY <1>1 DEF Connection
  <2>4. /\ conn' = [conn EXCEPT ![c] = x] /\ delivery' = [delivery EXCEPT ![d] = r]
        /\ UNCHANGED commands
    BY <1>5, <2>1, <2>2 DEF AuthDone, Success, Update
  <2>5. r \in Delivery /\ r.at = "hook" /\ r.conn = c /\ r.callbackReturned
    BY ReturnedType
  <2> HIDE DEF x, r
  <2>6. /\ conn'[c] = x /\ \A o \in Conns \ {c} : conn'[o] = conn[o]
        /\ delivery'[d] = r /\ \A e \in Deliveries \ {d} : delivery'[e] = delivery[e]
        /\ conn' \in [Conns -> Connection] /\ delivery' \in [Deliveries -> Delivery]
    BY <2>3, <2>4, <2>5 DEF Inv, TypeOK
  <2>7. \A e \in Deliveries \ {d} : delivery[e].conn # c
    BY <2>2, ConnectionAssumption DEF Inv, Alone, None
  <2>8. \A e \in Deliveries : DeliveryOK(e)'
    BY <1>2, <2>2, <2>3, <2>5, <2>6, <2>7 DEF Inv, DeliveryOK, InProgress
  <2>9. Alone'
    BY <2>2, <2>5, <2>6 DEF Inv, Alone
  <2>10. \A o \in Conns : Used(o)' <=> Used(o)
    BY <2>2, <2>5, <2>6 DEF Used
  <2>11. ASSUME NEW o \in Conns, o # c PROVE ConnOK(o)' /\ TlsOK(o)'
    <3>1. InProgress(o) /\ ~conn[o].returned => conn[o].owner # d
      BY <2>2, <2>11 DEF Inv, ConnOK
    <3> QED BY <1>2, <2>6, <2>10, <2>11, <3>1 DEF Inv, ConnOK, TlsOK, InProgress
  <2>12. ConnOK(c)' /\ TlsOK(c)'
    BY <1>1, <1>2, <2>2, <2>3, <2>6, <2>10 DEF ConnOK, TlsOK, InProgress
  <2>13. Held'
    BY <2>8, <2>9, <2>11, <2>12 DEF Held
  <2>14. Fits(d, r)
    BY <1>1, <2>2, <2>4, <2>5 DEF Fits
  <2>15. TypeOK'
    BY <1>1, <1>2, <2>6, TypeKept DEF Inv, TypeOK
  <2> QED BY <1>2, <2>13, <2>14, <2>15, Told DEF Inv, Held
<1>6. CASE ~conn[c].returned /\ ~ok
  <2> DEFINE y == [conn[c] EXCEPT !.open = FALSE, !.at = "done", !.returned = TRUE]
             x == GivenUp(y)
  <2>1. conn' = [conn EXCEPT ![c] = x] /\ Failure(conn[c].owner, delivery[conn[c].owner])
    BY <1>6 DEF AuthDone
  <2>2. /\ y \in Connection /\ ~y.open /\ y.at = "done" /\ y.returned
        /\ y.enforceTLS = conn[c].enforceTLS /\ y.ignoreTLS = conn[c].ignoreTLS
        /\ y.usageCount = conn[c].usageCount /\ y.secure = conn[c].secure
    BY <1>1 DEF Connection
  <2> HIDE DEF y
  <2>3. x \in Connection /\ (x = y \/ x = NoConnection)
    BY <2>2, GivenUpType
  <2> HIDE DEF x
  <2>4. conn'[c] = x
    BY <2>1 DEF Inv, TypeOK
  <2>5. (Timers' = Timers) => Nobodys(c)'
    <3>1. CASE x = NoConnection
      BY <1>1, <2>4, <3>1 DEF Nobodys, NoConnection, ConnOK
    <3>2. CASE x = y
      BY <1>1, <2>2, <2>4, <3>2 DEF Nobodys, ConnOK, TlsOK
    <3> QED BY <2>3, <3>1, <3>2
  <2> QED BY <1>1, <1>4, <1>6, <2>1, <2>3, <2>5, AttemptFails
<1> QED BY <1>3, <1>5, <1>6

\* _onError, called by the event 'error' or the timer of 'end'.
LEMMA OnErrorInv ==
    ASSUME Inv, NEW c \in Conns, NEW kind, NEW y \in Connection, conn[c].at # "new",
           y = conn[c] \/ y = [conn[c] EXCEPT !.endTimer = FALSE],
           OnError(c, kind, y)
    PROVE  Inv'
<1>1. /\ conn[c] \in Connection /\ ConnOK(c) /\ TlsOK(c)
      /\ y.at = conn[c].at /\ y.open = conn[c].open /\ y.returned = conn[c].returned
      /\ y.owner = conn[c].owner /\ y.enforceTLS = conn[c].enforceTLS
      /\ y.ignoreTLS = conn[c].ignoreTLS /\ y.usageCount = conn[c].usageCount
      /\ y.secure = conn[c].secure
      /\ UNCHANGED <<cache, reached>>
  BY DEF OnError, Inv, TypeOK, Connection
<1>2. CASE y.at = "done"
  <2>1. /\ conn' = [conn EXCEPT ![c] = y]
        /\ UNCHANGED <<delivery, commands, poolVars>>
    BY <1>1, <1>2 DEF OnError, ConnOK
  <2>2. /\ conn'[c] = y /\ \A o \in Conns \ {c} : conn'[o] = conn[o]
    BY <2>1 DEF Inv, TypeOK
  <2>3. Held'
    BY <1>1, <1>2, <2>1, <2>2, PoolSame
       DEF Held, Inv, DeliveryOK, Alone, ConnOK, TlsOK, Used, InProgress
  <2> QED BY <1>1, <2>1, <2>3, ConnectionSteps
<1>3. CASE y.at # "done"
  <2> DEFINE z == [y EXCEPT !.open = FALSE, !.returned = TRUE]
             x == GivenUp(z)
  <2>1. conn' = [conn EXCEPT ![c] = x]
    BY <1>3 DEF OnError
  <2>2. InProgress(c)
    BY <1>1, <1>3 DEF InProgress, Connection
  <2>3. /\ z \in Connection /\ ~z.open /\ z.at = conn[c].at /\ z.returned
        /\ z.enforceTLS = conn[c].enforceTLS /\ z.ignoreTLS = conn[c].ignoreTLS
        /\ z.usageCount = conn[c].usageCount /\ z.secure = conn[c].secure
    BY <1>1 DEF Connection
  <2> HIDE DEF z
  <2>4. x \in Connection /\ (x = z \/ x = NoConnection)
    BY <2>3, GivenUpType
  <2> HIDE DEF x
  <2>5. conn'[c] = x /\ (\A o \in Conns \ {c} : conn'[o] = conn[o]) /\ conn' \in [Conns -> Connection]
    BY <2>1, <2>4 DEF Inv, TypeOK
  <2>6. c \notin Timers
    BY <1>1, <1>3 DEF ConnOK
  <2>7. ASSUME c \notin Timers' PROVE Nobodys(c)'
    <3>1. CASE x = NoConnection
      BY <2>5, <2>7, <3>1 DEF Nobodys, NoConnection
    <3>2. CASE x = z
      BY <1>1, <1>3, <2>2, <2>3, <2>5, <2>7, <3>2 DEF Nobodys, ConnOK, TlsOK
    <3> QED BY <2>4, <3>1, <3>2
  <2>8. CASE conn[c].returned
    <3>1. UNCHANGED <<delivery, commands, poolVars>>
      BY <2>8 DEF OnError
    <3>2. ~Used(c)
      BY <1>1, <2>2, <2>8, ConnectionAssumption DEF Used, Inv, DeliveryOK, TypeOK, Delivery, None, InProgress
    <3>3. Nobodys(c)' /\ Timers' = Timers
      BY <2>6, <2>7, <3>1, PoolSame DEF Inv
    <3>4. Held'
      <4>1. \A d \in Deliveries : DeliveryOK(d)'
        BY <2>5, <3>1, <3>2, <3>3 DEF Inv, DeliveryOK, InProgress, Used
      <4>2. Alone'
        BY <3>1 DEF Inv, Alone
      <4>3. \A o \in Conns : Used(o)' <=> Used(o)
        BY <3>1 DEF Used
      <4>4. ASSUME NEW o \in Conns, o # c PROVE ConnOK(o)' /\ TlsOK(o)'
        BY <2>5, <3>1, <3>3, <4>3, <4>4 DEF Inv, ConnOK, TlsOK, InProgress
      <4>5. ConnOK(c)' /\ TlsOK(c)'
        BY <3>2, <3>3, <4>3 DEF Nobodys, ConnOK, TlsOK, InProgress
      <4> QED BY <4>1, <4>2, <4>4, <4>5 DEF Held
    <3> QED BY <1>1, <2>1, <2>4, <3>1, <3>4, ConnectionSteps
  <2>9. CASE ~conn[c].returned
    <3>1. PICK d \in Deliveries : d = conn[c].owner
      BY <1>1, <2>2, <2>9 DEF ConnOK
    <3>2. /\ delivery[d] \in Delivery /\ delivery[d].conn = c /\ delivery[d].at = "connect"
          /\ ~delivery[d].callbackReturned
      BY <1>1, <2>2, <2>9, <3>1 DEF Inv, TypeOK, ConnOK, DeliveryOK
    <3>3. ASSUME NEW r0 \in Delivery, ~r0.callbackReturned,
                 r0.netConnected = delivery[d].netConnected, TryConnect(d, r0)
          PROVE  Inv'
      <4>1. PoolOK' /\ UNCHANGED commands /\ Timers' \subseteq Timers
        BY <3>3, Tried
      <4>2. PICK r \in Delivery :
               /\ delivery' = [delivery EXCEPT ![d] = r]
               /\ Gets(r)
               /\ ~r.callbackReturned => r.netConnected = r0.netConnected
        BY <3>3, Tried
      <4>3. Nobodys(c)'
        BY <2>6, <2>7, <4>1
      <4>4. Held'
        BY <2>5, <3>2, <4>1, <4>2, <4>3, Leaves
      <4>5. Fits(d, r)
        BY <1>1, <3>2, <3>3, <4>1, <4>2 DEF Fits, Inv, ReachedOK
      <4>6. TypeOK'
        BY <1>1, <2>5, <4>1, <4>2, TypeKept DEF Inv, TypeOK
      <4> QED BY <4>1, <4>4, <4>5, <4>6, Told DEF Inv, Held
    <3>4. \/ TryConnect(d, [delivery[d] EXCEPT !.ignoreTLS = TRUE])
          \/ TryConnect(d, TimedOut(delivery[d], conn[c].host))
          \/ Failure(d, delivery[d]) /\ UNCHANGED poolVars
      BY <2>9, <3>1 DEF OnError
    <3>5. CASE TryConnect(d, [delivery[d] EXCEPT !.ignoreTLS = TRUE])
      <4> DEFINE r0 == [delivery[d] EXCEPT !.ignoreTLS = TRUE]
      <4>1. /\ r0 \in Delivery /\ ~r0.callbackReturned
            /\ r0.netConnected = delivery[d].netConnected
        BY <3>2 DEF Delivery
      <4> HIDE DEF r0
      <4> QED BY <3>3, <3>5, <4>1 DEF r0
    <3>6. CASE TryConnect(d, TimedOut(delivery[d], conn[c].host))
      <4> DEFINE r0 == TimedOut(delivery[d], conn[c].host)
      <4>1. conn[c].host \in AllHosts
        BY <1>1, <2>2, <2>9 DEF Inv, ConnOK
      <4>2. /\ r0 \in Delivery /\ ~r0.callbackReturned
            /\ r0.netConnected = delivery[d].netConnected
        BY <3>2, <4>1 DEF Delivery, TimedOut
      <4> HIDE DEF r0
      <4> QED BY <3>3, <3>6, <4>2 DEF r0
    <3>7. CASE Failure(d, delivery[d]) /\ UNCHANGED poolVars
      BY <1>1, <2>1, <2>2, <2>4, <2>6, <2>7, <2>9, <3>1, <3>7, AttemptFails
    <3> QED BY <3>4, <3>5, <3>6, <3>7
  <2> QED BY <2>8, <2>9
<1> QED BY <1>2, <1>3

LEMMA ErrorEventInv ==
    ASSUME Inv, NEW c \in Conns, NEW kind, ErrorEvent(c, kind)
    PROVE  Inv'
<1>1. conn[c] \in Connection /\ conn[c].at # "new" /\ OnError(c, kind, conn[c])
  BY DEF ErrorEvent, InProgress, Inv, TypeOK
<1> QED BY <1>1, OnErrorInv

LEMMA EndTimeoutInv ==
    ASSUME Inv, NEW c \in Conns, NEW kind, EndTimeout(c, kind)
    PROVE  Inv'
<1> DEFINE y == [conn[c] EXCEPT !.endTimer = FALSE]
<1>1. conn[c].at # "new" /\ OnError(c, kind, y)
  BY DEF EndTimeout, Inv, ConnOK
<1>2. y \in Connection
  BY DEF Inv, TypeOK, Connection
<1> HIDE DEF y
<1> QED BY <1>1, <1>2, OnErrorInv DEF y

LEMMA StepInv == Inv /\ [Next]_vars => Inv'
<1> SUFFICES ASSUME Inv, [Next]_vars PROVE Inv'
  OBVIOUS
<1>1. CASE UNCHANGED vars
  <2>1. UNCHANGED <<delivery, conn, commands, cache, reached>> /\ UNCHANGED poolVars
    BY <1>1 DEF vars
  <2>2. PoolOK' /\ Timers' = Timers
    BY <2>1, PoolSame DEF Inv
  <2>3. Held'
    BY <2>1, <2>2 DEF Held, Inv, DeliveryOK, Alone, ConnOK, TlsOK, Used, InProgress
  <2>4. TypeOK'
    BY <2>1, <2>2, TypeKept DEF Inv, TypeOK
  <2> QED BY <2>1, <2>2, <2>3, <2>4, Untold DEF Inv, Held
<1>2. ASSUME NEW d \in Deliveries, Asking(d) PROVE Inv'
  BY <1>2, LookUpInv, HitInv, MissInv DEF Asking
<1>3. ASSUME NEW d \in Deliveries, Resolving(d) PROVE Inv'
  BY <1>3, MxFailsInv, MxConnectedInv DEF Resolving
<1>4. ASSUME NEW d \in Deliveries, Using(d) PROVE Inv'
  BY <1>4, HookDoneInv, SendDoneInv, SendFailsInv DEF Using
<1>5. ASSUME NEW c \in Conns, Opening(c) PROVE Inv'
  BY <1>5, ErrorEventInv, EndEventInv, ConnectDoneInv, AuthDoneInv DEF Opening
<1>6. ASSUME NEW c \in Conns, Ended(c) PROVE Inv'
  BY <1>6, EndTimeoutInv DEF Ended
<1>7. ASSUME NEW c \in Conns, Breaks(c) PROVE Inv'
  BY <1>7, BreaksInv
<1>8. ASSUME NEW c \in Conns, KillTimer(c) PROVE Inv'
  BY <1>8, KillTimerInv
<1>9. CASE Serve
  BY <1>9, ServeInv
<1>10. ASSUME NEW key \in Keys, Expire(key) PROVE Inv'
  BY <1>10, ExpireInv
<1> QED BY <1>1, <1>2, <1>3, <1>4, <1>5, <1>6, <1>7, <1>8, <1>9, <1>10 DEF Next

\* What getConnectionWithCache, getConnection and the pool keep true between them:
\* each part of Inv says what the other parts' proofs need of it.
THEOREM InvHolds == Spec => []Inv
<1> QED BY InitInv, StepInv, PTL DEF Spec

\* The variables of deliveries and connections keep their shape, and the gauge
\* of connection-pool.js counts at least what is pooled.
THEOREM ConsistentHolds == Spec => []Consistent
<1>1. Inv => Consistent
  BY DEF Inv, PoolOK, Consistent
<1> QED BY <1>1, InvHolds, PTL

\* However many deliveries share a pool: each open connection has one holder, a
\* delivery or the timer of the pool, and no other.
THEOREM OneHolderHolds == Spec => []OneHolder
<1>1. ASSUME Inv PROVE OneHolder
  <2>1. ASSUME NEW c \in Conns
        PROVE  /\ Holders(c) <= 1
               /\ conn[c].open => Holders(c) = 1
    <3>1. \A d, e \in Users(c) : d = e
      BY <1>1, <2>1, ConnectionAssumption DEF Users, Inv, Alone, None
    <3>2. CASE Users(c) = {}
      <4>1. Cardinality(Users(c)) = 0
        BY <3>2, FS_EmptySet
      <4>2. conn[c].open => c \in DOMAIN killTimer
        BY <1>1, <3>2 DEF Inv, ConnOK, Used, Users, Timers
      <4> QED BY <4>1, <4>2 DEF Holders
    <3>3. CASE Users(c) # {}
      <4>1. PICK d \in Users(c) : Users(c) = {d}
        BY <3>1, <3>3
      <4>2. Cardinality(Users(c)) = 1
        BY <4>1, FS_Singleton
      <4>3. c \notin DOMAIN killTimer
        BY <1>1, <4>1 DEF Inv, DeliveryOK, Users, Timers
      <4> QED BY <4>2, <4>3 DEF Holders
    <3> QED BY <3>2, <3>3
  <2>2. ASSUME NEW c \in Conns, NEW k \in DOMAIN connectionPool,
               NEW i \in DOMAIN connectionPool[k], connectionPool[k][i] = c
        PROVE  c \in DOMAIN killTimer
    <3>1. Listed(k, connectionPool[k]) /\ DOMAIN connectionPool[k] = 1 .. Len(connectionPool[k])
      BY <1>1 DEF Inv, PoolOK, Listed
    <3> QED BY <2>2, <3>1 DEF Listed
  <2> QED BY <2>1, <2>2 DEF OneHolder, OneUser, NoLeak
<1> QED BY <1>1, InvHolds, PTL

\* Whatever retry, fallback or pooled connection it came to: under an enforced
\* policy nothing is sent before the connection is secure.
THEOREM TlsHolds == Spec => []TlsIsKept
<1>1. ASSUME Inv PROVE TlsIsKept
  <2>1. ASSUME NEW c \in Conns, conn[c].enforceTLS,
               NEW d \in Users(c), delivery[d].at \in {"hook", "use"}
        PROVE  conn[c].secure
    <3>1. d \in Deliveries /\ delivery[d].conn = c
      BY DEF Users
    <3> QED BY <1>1, <2>1, <3>1 DEF Inv, TlsOK, Used, DeliveryOK
  <2> QED BY <1>1, <2>1 DEF TlsIsKept, Inv, TlsOK
<1> QED BY <1>1, InvHolds, PTL

\* The master is not told that a server is unreachable to which the delivery had
\* a socket (netConnected of getConnection).
THEOREM ReachedHolds == Spec => []ReachedIsNotCached
<1>1. ASSUME Inv PROVE ReachedIsNotCached
  <2>1. DOMAIN commands = 1 .. Len(commands)
    BY <1>1 DEF Inv, CommandsOK
  <2> QED BY <1>1, <2>1 DEF Inv, CommandsOK, ReachedIsNotCached
<1> QED BY <1>1, InvHolds, PTL

=============================================================================
