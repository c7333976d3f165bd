------------------------------ MODULE TtlCache ------------------------------
(***************************************************************************)
(* lib/ttl-cache.js: the cache of the master process.  Its entries are in  *)
(* a Map and, in the order in which they expire, in an array; one timer    *)
(* serves the first of them.  What the code defers with setImmediate is a  *)
(* step of its own: setting the timer, the check for expired entries and   *)
(* the callback of an entry that is gone.                                  *)
(*                                                                         *)
(* The values are left out.                                                *)
(***************************************************************************)
EXTENDS Integers, SequencesExt

CONSTANTS
    Keys,
    Watched,    \* keys whose entries have an expireCb
    Ttls,       \* 0 stands for all that are not positive, and a null value
    MaxTime     \* bound of the clock

VARIABLES
    now,
    data,       \* this.data: when each key that is present expires
    sorted,     \* this.sorted
    checkTimer, \* when the timer fires, or Never
    due,        \* the immediates "update" (updateTimer) and "check" (checkExpired)
    calls       \* the keys whose expireCb is due

cacheVars == <<data, sorted, checkTimer, due, calls>>
vars == <<now, cacheVars>>

Never == -1

Present == DOMAIN data
Record == [key : Keys, expires : Nat]

Init ==
    /\ now = 0
    /\ data = [k \in {} |-> 0]
    /\ sorted = << >>
    /\ checkTimer = Never
    /\ due = {}
    /\ calls = {}

\* A bug to be found: also entries without a callback have one that is due.
CallbacksOfAll(K) == calls \cup K

\* A bug to be found: of the entries that are over only the last is told.
CallbackOfLast(K) ==
    LET told == IF Cardinality(K) <= 1 THEN K ELSE {sorted[Cardinality(K)].key}
    IN  calls \cup (told \cap Watched)

Callbacks(K) == calls \cup (K \cap Watched)

WithoutKey(k) ==
    IF \E i \in 1..Len(sorted) : sorted[i].key = k
    THEN RemoveAt(sorted, CHOOSE i \in 1..Len(sorted) : sorted[i].key = k)
    ELSE sorted

\* In the array list the new record follows the last record that does not
\* expire later.
InsertSorted(list, k, expires) ==
    \E p \in 1..(Len(list) + 1) :
        /\ p > 1 => list[p - 1].expires <= expires
        /\ \A i \in p..Len(list) : list[i].expires > expires
        /\ sorted' = InsertAt(list, p, [key |-> k, expires |-> expires])

\* A bug to be found: an entry that is set again stays in the array as it was.
SortedAfterSetTwice(k, expires) == InsertSorted(sorted, k, expires)

SortedAfterSet(k, expires) == InsertSorted(WithoutKey(k), k, expires)

\* remove: the callback of the entry is due at once.
RemoveKey(k) ==
    /\ k \in Present
    /\ calls' = Callbacks({k})
    /\ data' = [x \in Present \ {k} |-> data[x]]
    /\ sorted' = WithoutKey(k)
    /\ due' = due \cup {"update"}
    /\ UNCHANGED <<now, checkTimer>>

\* set; the callback of an entry that is replaced is dropped.
Set(k, ttl) ==
    /\ ttl > 0
    /\ data' = [x \in Present \cup {k} |-> IF x = k THEN now + ttl ELSE data[x]]
    /\ SortedAfterSet(k, now + ttl)
    /\ due' = due \cup {"update"}
    /\ UNCHANGED <<now, checkTimer, calls>>

SetNothing(k, ttl) == ttl = 0 /\ RemoveKey(k)

\* get of an entry that is over removes it; otherwise it changes nothing.
Get(k) == k \in Present /\ data[k] < now /\ RemoveKey(k)

\* A bug to be found: the timer is only moved when there is none.
TimerForFirstOnce ==
    IF checkTimer # Never THEN checkTimer ELSE Head(sorted).expires + 1

TimerForFirst == Head(sorted).expires + 1

\* A bug to be found: an entry that is over when the timer is set is forgotten.
FirstOverForgotten == {}

\* The first entry is over: checkExpired is due instead of a timer.
FirstOver == IF sorted # << >> /\ Head(sorted).expires <= now THEN {"check"} ELSE {}

UpdateTimer ==
    /\ "update" \in due
    /\ due' = (due \ {"update"}) \cup FirstOver
    /\ checkTimer' = IF sorted = << >> \/ Head(sorted).expires <= now
                     THEN Never ELSE TimerForFirst
    /\ UNCHANGED <<now, data, sorted, calls>>

\* The first n records of the array, and no more, are over.
Over(n) ==
    /\ \A i \in 1..n : sorted[i].expires <= now
    /\ n < Len(sorted) => sorted[n + 1].expires > now

\* checkExpired, from the timer or from updateTimer.
CheckExpired ==
    \E n \in 0..Len(sorted) :
        LET gone == {sorted[i].key : i \in 1..n}
        IN  /\ Over(n)
            /\ \/ /\ "check" \in due
                  /\ due' = (due \ {"check"}) \cup {"update"}
                  /\ UNCHANGED checkTimer
               \/ /\ checkTimer # Never /\ checkTimer <= now
                  /\ due' = due \cup {"update"}
                  /\ checkTimer' = Never
            /\ calls' = Callbacks(gone)
            /\ data' = [k \in Present \ gone |-> data[k]]
            /\ sorted' = IF n = Len(sorted) \/ Present \subseteq gone THEN << >>
                         ELSE SubSeq(sorted, n + 1, Len(sorted))
            /\ UNCHANGED now

Flush ==
    /\ data' = [k \in {} |-> 0]
    /\ sorted' = << >>
    /\ checkTimer' = Never
    /\ UNCHANGED <<now, due, calls>>

\* The callback of k runs; what it does is up to the user of the cache.
Called(k) ==
    /\ k \in calls
    /\ calls' = calls \ {k}
    /\ UNCHANGED <<now, data, sorted, checkTimer, due>>

Tick ==
    /\ now < MaxTime
    /\ now' = now + 1
    /\ UNCHANGED cacheVars

Next ==
    \/ \E k \in Keys : Get(k) \/ RemoveKey(k) \/ Called(k)
    \/ \E k \in Keys, ttl \in Ttls : Set(k, ttl) \/ SetNothing(k, ttl)
    \/ UpdateTimer
    \/ CheckExpired
    \/ Flush
    \/ Tick

Spec == Init /\ [][Next]_vars

(***************************************************************************)
(* Properties.                                                             *)
(***************************************************************************)
\* Every variable keeps its shape.
TypeOK ==
    /\ now \in Nat
    /\ Present \subseteq Keys /\ data \in [Present -> Nat]
    /\ sorted \in Seq(Record)
    /\ checkTimer \in Nat \cup {Never}
    /\ due \subseteq {"update", "check"}
    /\ calls \subseteq Watched

\* The array lists each entry of the map once and in the order in which they
\* expire, so that the timer of the first entry is the timer of them all.
SortedMatchesData ==
    /\ {<<sorted[i].key, sorted[i].expires>> : i \in 1..Len(sorted)}
          = {<<k, data[k]>> : k \in Present}
    /\ Len(sorted) = Cardinality(Present)
    /\ \A i \in 1..(Len(sorted) - 1) : sorted[i].expires <= sorted[i + 1].expires

\* While there are entries, the timer fires just after the first of them is
\* over, unless setting it or checking the entries is due.
TimerCoversFirst ==
    sorted # << >> /\ due = {} =>
        checkTimer # Never /\ checkTimer <= Head(sorted).expires + 1
=============================================================================
