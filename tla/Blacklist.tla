----------------------------- MODULE Blacklist -----------------------------
(***************************************************************************)
(* The back-off of lib/sending-zone.js: an address that a recipient domain *)
(* has refused is not used for that domain until its entry in the cache of *)
(* the master (TtlCache.tla) is over, and its callback has run.            *)
(*                                                                         *)
(* A pair <<domain, address>> stands for the key "blacklist:..." of the    *)
(* cache; the other keys of the cache (the "empty:" keys of the queue, the *)
(* keys that senders set) share its array and its timer.                   *)
(***************************************************************************)
EXTENDS Integers, FiniteSets

CONSTANTS
    Domains, Addresses,
    Configured,   \* the disabledAddresses of each domain in the configuration
    OtherKeys, OtherTtls,
    BlacklistTtl,
    MaxTime

Pairs == Domains \X Addresses

ASSUME BlacklistAssumption ==
    /\ Configured \in [Domains -> SUBSET Addresses]
    /\ Pairs \cap OtherKeys = {}
    /\ BlacklistTtl \in Nat \ {0}
    /\ OtherTtls \subseteq Nat
    /\ MaxTime \in Nat

VARIABLES
    now, data, sorted, checkTimer, due, calls,  \* see TtlCache
    disabled,   \* domainConfig.get(domain, 'disabledAddresses')
    lost        \* history: pairs whose entry went with a reload

Cache == INSTANCE TtlCache
    WITH Keys <- Pairs \cup OtherKeys, Watched <- Pairs,
         Ttls <- OtherTtls \cup {BlacklistTtl}

vars == <<now, data, sorted, checkTimer, due, calls, disabled, lost>>

Init == Cache!Init /\ disabled = Configured /\ lost = {}

\* deferDelivery, when the response says that the address is blacklisted.
Disable(d, a) ==
    /\ a \notin disabled[d]
    /\ disabled' = [disabled EXCEPT ![d] = @ \cup {a}]
    /\ Cache!Set(<<d, a>>, BlacklistTtl)
    /\ UNCHANGED lost

\* A bug to be found: the list goes with the first of its addresses.
WithoutList(d, a) == [disabled EXCEPT ![d] = {}]

WithoutAddress(d, a) == [disabled EXCEPT ![d] = @ \ {a}]

\* The callback of the entry: removeFromBlacklist.
RemoveFromBlacklist(d, a) ==
    /\ Cache!Called(<<d, a>>)
    /\ disabled' = WithoutAddress(d, a)
    /\ UNCHANGED lost

\* What the queue and the senders do with keys of their own.
UseCache(k) ==
    /\ \/ Cache!Get(k) \/ Cache!RemoveKey(k)
       \/ \E ttl \in OtherTtls : Cache!Set(k, ttl) \/ Cache!SetNothing(k, ttl)
    /\ UNCHANGED <<disabled, lost>>

UpdateTimer == Cache!UpdateTimer /\ UNCHANGED <<disabled, lost>>

CheckExpired == Cache!CheckExpired /\ UNCHANGED <<disabled, lost>>

\* app.js: the cache is emptied when the configuration is reloaded.
Reload ==
    /\ Cache!Flush
    /\ lost' = lost \cup (Pairs \cap DOMAIN data)
    /\ UNCHANGED disabled

Tick == Cache!Tick /\ UNCHANGED <<disabled, lost>>

Called == \E d \in Domains, a \in Addresses : RemoveFromBlacklist(d, a)

Next ==
    \/ \E d \in Domains, a \in Addresses : Disable(d, a)
    \/ Called
    \/ \E k \in OtherKeys : UseCache(k)
    \/ UpdateTimer
    \/ CheckExpired
    \/ Reload
    \/ Tick

Spec == Init /\ [][Next]_vars

\* The event loop runs what is due, and time goes on to its bound.
FairSpec ==
    /\ Spec
    /\ WF_vars(UpdateTimer) /\ WF_vars(CheckExpired) /\ WF_vars(Tick)
    /\ \A p \in Pairs : WF_vars(RemoveFromBlacklist(p[1], p[2]))

(***************************************************************************)
(* Properties.                                                             *)
(***************************************************************************)
BackedOff == {p \in Pairs : p[2] \in disabled[p[1]] \ Configured[p[1]]}

\* Every variable keeps its shape.
TypeOK ==
    /\ Cache!TypeOK
    /\ disabled \in [Domains -> SUBSET Addresses]
    /\ lost \subseteq Pairs

\* The array of the cache lists the entries of its map, once and in the order
\* in which they expire: its first record is the next to go.
SortedMatchesData == Cache!SortedMatchesData

\* While the cache has entries, its one timer fires just after the first of
\* them is over, or setting it or checking the entries is due.
TimerCoversFirst == Cache!TimerCoversFirst

\* Map, array and timer of the cache agree after every change, made by whichever
\* of its methods, immediates and callbacks.
Consistent == TypeOK /\ SortedMatchesData /\ TimerCoversFirst

\* An address that a response disabled is on its way back: it has an entry in
\* the cache, or the callback of its entry is due (removeFromBlacklist is
\* called from nowhere else); unless a reload has emptied the cache.
BackOffEnds == BackedOff \subseteq DOMAIN data \cup calls \cup lost

\* While the cache has the entry of a pair its address is disabled for the
\* domain: the end of another back-off of the domain does not enable it
\* (removeFromBlacklist edits the list they share), nor does it ever enable an
\* address that the configuration disables.
BackOffHolds ==
    /\ \A p \in Pairs : p \in DOMAIN data => p[2] \in disabled[p[1]]
    /\ \A d \in Domains : Configured[d] \subseteq disabled[d]

\* An address is disabled exactly as long as its entry is in the cache, or the
\* configuration says so: the two are changed by different callbacks.
BackOffMatchesCache == BackOffEnds /\ BackOffHolds

\* An address that is disabled early enough before the bound of the clock is
\* enabled again: other entries that are set, read and removed at any time do
\* not keep the one timer of the cache from firing for it.
BackOffIsOver ==
    \A p \in Pairs :
        (p \in BackedOff \ lost /\ now + BlacklistTtl < MaxTime)
            ~> (p \notin BackedOff \ lost)

\* What config/default.js says of the blacklist, that a reload clears it: the
\* addresses that stay disabled are those that still have an entry, or a due
\* callback, to enable them.
ReloadClears == BackedOff \subseteq DOMAIN data \cup calls
=============================================================================
