------------------------ MODULE SenderProcessesProofs ------------------------
(***************************************************************************)
(* Proofs about SenderProcesses, for any number of zones, of children of a *)
(* zone and of children that end.                                          *)
(***************************************************************************)
EXTENDS SenderProcesses, FiniteSetTheorems, TLAPS

(***************************************************************************)
(* The invariants.                                                         *)
(***************************************************************************)
TypesOK ==
    /\ zonePos \in Nat /\ zonePos <= NumZones
    /\ nextZone \in BOOLEAN
    /\ spawnNext \in [Zones -> [Chain -> Nat]]
    /\ child \in [Children -> {"none", "starting", "killed", "up"}]
    /\ origin \in [Children -> Origin \cup {NoOrigin}]
    /\ \A c \in Children : child[c] = "none" <=> origin[c] = NoOrigin
    /\ respawns \in [Zones -> Nat]
    /\ closing \in BOOLEAN /\ timedOut \in BOOLEAN
    /\ failures \in Nat /\ failures <= MaxFailures

Due(z) == spawnNext[z]["init"] + spawnNext[z]["respawn"]

Count(z, state) == Cardinality(Of(z, {state}))

\* The chains of a zone: those that are due, those that wait for a child, and
\* those that will follow from one that was killed or has ended.
Chains(z) == Due(z) + Count(z, "starting") + Count(z, "killed") + respawns[z]

\* A zone has one chain since it was started, and one more for each child that
\* has failed.
ChainsOK ==
    \A z \in Zones : Chains(z) <= failures + (IF z <= zonePos THEN 1 ELSE 0)

\* A zone without its children has a chain.
RepairOK ==
    \A z \in Zones :
        z <= zonePos /\ ~closing /\ Count(z, "up") < Processes => Chains(z) > 0

\* A chain forks only when a child is missing, so what is up or starting exceeds
\* the number of children by the chains that do not see each other.
ForksOK ==
    \A z \in Zones : Count(z, "up") + Count(z, "starting") <= Processes + failures

Waits(c) == child[c] = "starting" /\ origin[c].chain = "init"
InitDue(z) == spawnNext[z]["init"] > 0

\* startNextZone has one caller at a time.
OneCaller ==
    /\ \A z \in Zones : spawnNext[z]["init"] <= 1
    /\ \A y, z \in Zones : InitDue(y) /\ InitDue(z) => y = z
    /\ \A c, d \in Children : Waits(c) /\ Waits(d) => c = d
    /\ ~((\E z \in Zones : InitDue(z)) /\ (\E c \in Children : Waits(c)))
    /\ nextZone => (\A z \in Zones : ~InitDue(z)) /\ (\A c \in Children : ~Waits(c))

Inv == TypesOK /\ ChainsOK /\ RepairOK /\ ForksOK /\ OneCaller

(***************************************************************************)
(* Counting.                                                               *)
(***************************************************************************)
LEMMA AtMostOne ==
    ASSUME NEW S, \A x, y \in S : x = y
    PROVE  IsFiniteSet(S) /\ Cardinality(S) = IF S = {} THEN 0 ELSE 1
<1>1. CASE S = {}
  BY <1>1, FS_EmptySet
<1>2. CASE S # {}
  <2>1. PICK x : S = {x}
    BY <1>2
  <2> QED BY <2>1, FS_Singleton
<1> QED BY <1>1, <1>2

LEMMA CountType == \A z, state : Count(z, state) \in Nat
<1> SUFFICES ASSUME NEW z, NEW state PROVE Count(z, state) \in Nat
  OBVIOUS
<1>1. Of(z, {state}) \in SUBSET Children
  BY DEF Of
<1> QED BY <1>1, FS_Subset, FS_CardinalityType, ProcessesAssumption DEF Count

LEMMA CountTypeNext == \A z, state : Count(z, state)' \in Nat
<1>1. (\A z, state : Count(z, state) \in Nat)'
  BY CountType, PTL
<1> QED BY <1>1

\* Only one child changes.
OnlyMoves(c) ==
    \A d \in Children : d # c => child'[d] = child[d] /\ origin'[d] = origin[d]

One(b) == IF b THEN 1 ELSE 0

\* What the change of one child does to the numbers of a zone.
LEMMA CountMoves ==
    ASSUME NEW c \in Children, OnlyMoves(c), NEW z, NEW state
    PROVE  Count(z, state)' = Count(z, state)
               - One(origin[c].zone = z /\ child[c] = state)
               + One(origin'[c].zone = z /\ child'[c] = state)
<1> DEFINE before == Of(z, {state})
           after == {d \in Children : origin'[d].zone = z /\ child'[d] \in {state}}
<1>1. Of(z, {state})' = after
  BY DEF Of
<1>2. IsFiniteSet(before) /\ IsFiniteSet(after)
  <2>1. before \in SUBSET Children /\ after \in SUBSET Children
    BY DEF Of
  <2> HIDE DEF before, after
  <2> QED BY <2>1, FS_Subset, ProcessesAssumption
<1>3. before \ {c} = after \ {c}
  BY DEF OnlyMoves, Of
<1>4. /\ c \in before <=> origin[c].zone = z /\ child[c] = state
      /\ c \in after <=> origin'[c].zone = z /\ child'[c] = state
  BY DEF Of
<1> HIDE DEF before, after
<1>5. /\ Cardinality(before \ {c}) = Cardinality(before) - One(c \in before)
      /\ Cardinality(after \ {c}) = Cardinality(after) - One(c \in after)
      /\ Cardinality(before) \in Nat /\ Cardinality(after) \in Nat
  BY <1>2, FS_RemoveElement, FS_CardinalityType DEF One
<1>6. Cardinality(after) = Cardinality(before) - One(c \in before) + One(c \in after)
  BY <1>3, <1>5 DEF One
<1>7. Count(z, state)' = Cardinality(after) /\ Count(z, state) = Cardinality(before)
  BY <1>1 DEF Count, before
<1> QED BY <1>4, <1>6, <1>7 DEF One

LEMMA CountStays ==
    ASSUME UNCHANGED <<child, origin>>
    PROVE  \A z, state : Count(z, state)' = Count(z, state)
BY DEF Count, Of

Numbers ==
    \A z \in Zones :
        /\ Due(z) \in Nat /\ respawns[z] \in Nat /\ Chains(z) \in Nat
        /\ \A k \in Chain : spawnNext[z][k] \in Nat

LEMMA NumbersType == TypesOK => Numbers
BY CountType DEF TypesOK, Due, Chain, Chains, Numbers

LEMMA DueType ==
    ASSUME TypesOK
    PROVE  \A z \in Zones :
              /\ Due(z) \in Nat /\ respawns[z] \in Nat /\ Chains(z) \in Nat
              /\ \A k \in Chain : spawnNext[z][k] \in Nat
BY NumbersType DEF Numbers

LEMMA NumbersNext ==
    TypesOK' => \A z \in Zones : Chains(z)' \in Nat /\ Due(z)' \in Nat
<1>1. TypesOK' => Numbers'
  BY NumbersType, PTL
<1> QED BY <1>1 DEF Numbers

\* A chain goes on, and is due.
LEMMA ContinueStep ==
    ASSUME TypesOK, NEW z \in Zones, NEW k \in Chain, Continue(z, k)
    PROVE  /\ spawnNext' \in [Zones -> [Chain -> Nat]]
           /\ \A y \in Zones : Due(y)' = Due(y) + One(y = z)
           /\ \A y \in Zones : spawnNext'[y]["init"] = spawnNext[y]["init"]
                                                    + One(y = z /\ k = "init")
<1>1. /\ spawnNext' = [spawnNext EXCEPT ![z] = [spawnNext[z] EXCEPT ![k] = @ + 1]]
      /\ spawnNext \in [Zones -> [Chain -> Nat]] /\ spawnNext[z] \in [Chain -> Nat]
  BY DEF Continue, TypesOK
<1>2. /\ spawnNext' \in [Zones -> [Chain -> Nat]]
      /\ spawnNext'[z] = [spawnNext[z] EXCEPT ![k] = @ + 1]
      /\ \A y \in Zones : y # z => spawnNext'[y] = spawnNext[y]
  BY <1>1 DEF Chain
<1>3. \A j \in Chain : spawnNext'[z][j] = spawnNext[z][j] + One(j = k)
  BY <1>1, <1>2 DEF One
<1>4. Due(z)' = Due(z) + 1
  BY <1>1, <1>3 DEF Due, Chain, One
<1> QED BY <1>2, <1>3, <1>4, DueType DEF Due, One, Chain

\* A chain that was due is not any more.
TakenOff(z, k) == spawnNext[z][k] > 0 /\ spawnNext' = [spawnNext EXCEPT ![z][k] = @ - 1]

LEMMA TakenOffStep ==
    ASSUME TypesOK, NEW z \in Zones, NEW k \in Chain, TakenOff(z, k)
    PROVE  /\ spawnNext' \in [Zones -> [Chain -> Nat]]
           /\ \A y \in Zones : Due(y)' = Due(y) - One(y = z)
           /\ \A y \in Zones : spawnNext'[y]["init"] = spawnNext[y]["init"]
                                                    - One(y = z /\ k = "init")
<1>1. /\ spawnNext' = [spawnNext EXCEPT ![z] = [spawnNext[z] EXCEPT ![k] = @ - 1]]
      /\ spawnNext \in [Zones -> [Chain -> Nat]] /\ spawnNext[z] \in [Chain -> Nat]
      /\ spawnNext[z][k] > 0
  BY DEF TakenOff, TypesOK
<1>2. /\ spawnNext' \in [Zones -> [Chain -> Nat]]
      /\ spawnNext'[z] = [spawnNext[z] EXCEPT ![k] = @ - 1]
      /\ \A y \in Zones : y # z => spawnNext'[y] = spawnNext[y]
  BY <1>1 DEF Chain
<1>3. \A j \in Chain : spawnNext'[z][j] = spawnNext[z][j] - One(j = k)
  BY <1>1, <1>2 DEF One
<1>4. Due(z)' = Due(z) - 1
  BY <1>1, <1>3 DEF Due, Chain, One
<1> QED BY <1>2, <1>3, <1>4, DueType DEF Due, One, Chain

(***************************************************************************)
(* The steps.                                                              *)
(***************************************************************************)
LEMMA InitInv == Init => Inv
<1> SUFFICES ASSUME Init PROVE Inv
  OBVIOUS
<1>1. TypesOK
  <2>1. zonePos \in Nat /\ zonePos <= NumZones /\ failures \in Nat /\ failures <= MaxFailures
    BY ProcessesAssumption DEF Init
  <2>2. nextZone \in BOOLEAN /\ closing \in BOOLEAN /\ timedOut \in BOOLEAN
    BY DEF Init
  <2>3. spawnNext \in [Zones -> [Chain -> Nat]] /\ respawns \in [Zones -> Nat]
    BY DEF Init
  <2>4. /\ child \in [Children -> {"none", "starting", "killed", "up"}]
        /\ origin \in [Children -> Origin \cup {NoOrigin}]
        /\ \A c \in Children : child[c] = "none" <=> origin[c] = NoOrigin
    BY DEF Init
  <2> QED BY <2>1, <2>2, <2>3, <2>4 DEF TypesOK
<1>2. \A z, state : state # "none" => Count(z, state) = 0
  BY FS_EmptySet DEF Init, Count, Of
<1>3. \A z \in Zones : Chains(z) = 0
  BY <1>2 DEF Init, Chains, Due, Chain
<1>4. ChainsOK /\ RepairOK /\ ForksOK
  BY <1>2, <1>3, ProcessesAssumption DEF Init, ChainsOK, RepairOK, ForksOK, Zones
<1>5. OneCaller
  BY DEF Init, OneCaller, InitDue, Waits, Chain
<1> QED BY <1>1, <1>4, <1>5 DEF Inv

\* What a step that starts no zone may do to the numbers of a zone.
LEMMA NumbersKept ==
    ASSUME Inv, zonePos' = zonePos, failures' \in Nat, failures <= failures',
           closing => closing',
           \A y \in Zones :
              /\ Chains(y)' \in Nat
              /\ Chains(y)' <= Chains(y) + (failures' - failures)
              /\ Count(y, "up")' + Count(y, "starting")' <= Processes + failures'
              /\ ~closing' /\ Count(y, "up")' < Processes =>
                    \/ Chains(y)' > 0
                    \/ Chains(y)' = Chains(y) /\ Count(y, "up")' = Count(y, "up")
    PROVE  (ChainsOK /\ RepairOK /\ ForksOK)'
<1>1. failures \in Nat /\ \A y \in Zones : Chains(y) \in Nat
  BY DueType DEF Inv, TypesOK
<1>2. ASSUME NEW y \in Zones
      PROVE  Chains(y)' <= failures' + (IF y <= zonePos' THEN 1 ELSE 0)
  <2>1. Chains(y) <= failures + (IF y <= zonePos THEN 1 ELSE 0)
    BY DEF Inv, ChainsOK
  <2> QED BY <1>1, <2>1
<1>3. ASSUME NEW y \in Zones, y <= zonePos', ~closing', Count(y, "up")' < Processes
      PROVE  Chains(y)' > 0
  BY <1>1, <1>3 DEF Inv, RepairOK
<1> QED BY <1>2, <1>3 DEF ChainsOK, RepairOK, ForksOK

LEMMA StepStartNextZone ==
    ASSUME Inv, StartNextZone
    PROVE  Inv'
<1> DEFINE z == zonePos + 1
<1>1. z \in Zones /\ zonePos' = z /\ zonePos \in 0..NumZones /\ zonePos \in Nat
  BY ProcessesAssumption DEF Inv, TypesOK, StartNextZone, ZoneLeft, Zones
<1>2. Continue(z, "init") /\ "init" \in Chain
  BY DEF StartNextZone, Chain
<1> HIDE DEF z
<1>3. /\ spawnNext' \in [Zones -> [Chain -> Nat]]
      /\ \A y \in Zones : Due(y)' = Due(y) + One(y = z)
      /\ \A y \in Zones : spawnNext'[y]["init"] = spawnNext[y]["init"] + One(y = z)
  BY <1>1, <1>2, ContinueStep DEF Inv, One
<1>4. nextZone /\ ~nextZone'
      /\ UNCHANGED <<child, origin, respawns, closing, failures, timedOut>>
  BY DEF StartNextZone
<1>5. TypesOK'
  <2>1. nextZone' \in BOOLEAN /\ closing' \in BOOLEAN /\ timedOut' \in BOOLEAN
    BY <1>4 DEF Inv, TypesOK, StartNextZone
  <2>2. zonePos' \in Nat /\ zonePos' <= NumZones
    BY <1>1, ProcessesAssumption DEF Zones
  <2> QED BY <1>3, <1>4, <2>1, <2>2 DEF Inv, TypesOK
<1>6. \A y \in Zones : /\ Count(y, "up")' = Count(y, "up")
                       /\ Count(y, "starting")' = Count(y, "starting")
                       /\ Chains(y)' = Chains(y) + One(y = z)
  BY <1>3, <1>4, CountStays, CountType, DueType DEF Inv, Chains, One
<1>7. \A y \in Zones : y = z <=> y <= zonePos' /\ ~(y <= zonePos)
  BY <1>1, ProcessesAssumption DEF z, Zones
<1>8. ChainsOK' /\ RepairOK'
  <2>1. ASSUME NEW y \in Zones
        PROVE  /\ Chains(y)' <= failures' + (IF y <= zonePos' THEN 1 ELSE 0)
               /\ y <= zonePos' /\ ~closing' /\ Count(y, "up")' < Processes
                      => Chains(y)' > 0
    <3>1. Chains(y) \in Nat /\ failures \in Nat
      BY DueType DEF Inv, TypesOK
    <3>2. /\ Chains(y) <= failures + (IF y <= zonePos THEN 1 ELSE 0)
          /\ y <= zonePos /\ ~closing /\ Count(y, "up") < Processes => Chains(y) > 0
      BY DEF Inv, ChainsOK, RepairOK
    <3>3. CASE y = z
      <4>1. Chains(y)' = Chains(y) + 1 /\ failures' = failures
        BY <1>4, <1>6, <3>3 DEF One
      <4> QED BY <1>7, <3>1, <3>2, <3>3, <4>1
    <3>4. CASE y # z
      <4>1. /\ Chains(y)' = Chains(y) /\ failures' = failures /\ closing' = closing
            /\ Count(y, "up")' = Count(y, "up")
        BY <1>4, <1>6, <3>1, <3>4 DEF One
      <4>2. y <= zonePos' <=> y <= zonePos
        BY <1>1, <1>7, <3>4, ProcessesAssumption DEF Zones, z
      <4> QED BY <3>1, <3>2, <4>1, <4>2
    <3> QED BY <3>3, <3>4
  <2> QED BY <2>1 DEF ChainsOK, RepairOK
<1>9. ForksOK'
  BY <1>4, <1>6 DEF Inv, ForksOK
<1>10. OneCaller'
  BY <1>1, <1>3, <1>4, DueType DEF Inv, OneCaller, InitDue, Waits, One, Chain
<1> QED BY <1>5, <1>8, <1>9, <1>10 DEF Inv

LEMMA StepStartNextZoneClosing ==
    ASSUME Inv, StartNextZoneClosing
    PROVE  Inv'
<1>1. /\ zonePos' = zonePos + 1 /\ zonePos < NumZones /\ closing
      /\ UNCHANGED <<nextZone, spawnNext, child, origin, respawns, closing, failures,
                     timedOut>>
  BY DEF StartNextZoneClosing
<1>2. TypesOK'
  BY <1>1, ProcessesAssumption DEF Inv, TypesOK
<1>3. \A y \in Zones : /\ Count(y, "up")' = Count(y, "up")
                       /\ Count(y, "starting")' = Count(y, "starting")
                       /\ Chains(y)' = Chains(y)
  BY <1>1, CountStays DEF Chains, Due
<1>4. ChainsOK' /\ RepairOK'
  <2>1. ASSUME NEW y \in Zones
        PROVE  Chains(y)' <= failures' + (IF y <= zonePos' THEN 1 ELSE 0)
    <3>1. Chains(y) <= failures + (IF y <= zonePos THEN 1 ELSE 0)
      BY DEF Inv, ChainsOK
    <3>2. Chains(y) \in Nat /\ failures \in Nat /\ y \in Nat /\ zonePos \in Nat
      BY DueType, ProcessesAssumption DEF Inv, TypesOK, Zones
    <3> QED BY <1>1, <1>3, <3>1, <3>2
  <2> QED BY <1>1, <2>1 DEF ChainsOK, RepairOK
<1>5. ForksOK'
  BY <1>1, <1>3 DEF Inv, ForksOK
<1>6. OneCaller'
  BY <1>1 DEF Inv, OneCaller, InitDue, Waits
<1> QED BY <1>2, <1>4, <1>5, <1>6 DEF Inv

\* One call of spawnNext ends or forks.
LEMMA StepChainEnds ==
    ASSUME Inv, NEW z \in Zones, NEW k \in Chain, ChainEnds(z, k)
    PROVE  Inv'
<1>1. /\ TakenOff(z, k) /\ nextZone' = (nextZone \/ k = "init")
      /\ UNCHANGED <<zonePos, child, origin, respawns, closing, failures, timedOut>>
      /\ Up(z) >= Processes \/ closing
  BY DEF ChainEnds, TakenOff, HasChildren
<1>2. /\ spawnNext' \in [Zones -> [Chain -> Nat]]
      /\ \A y \in Zones : Due(y)' = Due(y) - One(y = z)
      /\ \A y \in Zones : spawnNext'[y]["init"] = spawnNext[y]["init"]
                                               - One(y = z /\ k = "init")
  BY <1>1, TakenOffStep DEF Inv
<1>3. TypesOK'
  <2>1. nextZone' \in BOOLEAN /\ closing' \in BOOLEAN /\ timedOut' \in BOOLEAN
    BY <1>1 DEF Inv, TypesOK
  <2> QED BY <1>1, <1>2, <2>1 DEF Inv, TypesOK
<1>4. \A y \in Zones : /\ Count(y, "up")' = Count(y, "up")
                       /\ Count(y, "starting")' = Count(y, "starting")
                       /\ Chains(y)' = Chains(y) - One(y = z)
  BY <1>1, <1>2, CountStays, CountType, DueType DEF Inv, Chains, One
<1>5. \A y \in Zones : Chains(y)' \in Nat
  BY <1>3, NumbersNext
<1>6. (ChainsOK /\ RepairOK /\ ForksOK)'
  <2>1. failures \in Nat /\ (closing => closing') /\ zonePos' = zonePos
    BY <1>1 DEF Inv, TypesOK
  <2>2. Count(z, "up") >= Processes \/ closing
    BY <1>1 DEF Up, Count
  <2>3. ASSUME NEW y \in Zones
        PROVE  /\ Chains(y)' <= Chains(y) + (failures' - failures)
               /\ Count(y, "up")' + Count(y, "starting")' <= Processes + failures'
               /\ ~closing' /\ Count(y, "up")' < Processes =>
                      Chains(y)' = Chains(y) /\ Count(y, "up")' = Count(y, "up")
    <3>1. /\ Chains(y) \in Nat /\ Count(y, "up") \in Nat /\ Processes \in Nat
          /\ failures' = failures /\ closing' = closing
      BY <1>1, CountType, DueType, ProcessesAssumption DEF Inv
    <3>2. Count(y, "up") + Count(y, "starting") <= Processes + failures
      BY DEF Inv, ForksOK
    <3> QED BY <1>4, <2>1, <2>2, <3>1, <3>2 DEF One
  <2> QED BY <1>1, <1>5, <2>1, <2>3, NumbersKept
<1>7. OneCaller'
  <2>1. /\ \A c \in Children : Waits(c)' <=> Waits(c)
        /\ \A y \in Zones : spawnNext[y]["init"] \in Nat
    BY <1>1, DueType DEF Inv, Waits, Chain
  <2>2. CASE k = "init"
    <3>1. InitDue(z) /\ nextZone' = TRUE
      BY <1>1, <2>2 DEF TakenOff, InitDue
    <3>2. \A y \in Zones : ~InitDue(y)'
      BY <1>2, <2>1, <2>2, <3>1 DEF Inv, OneCaller, InitDue, One
    <3>3. \A y \in Zones : spawnNext'[y]["init"] <= 1
      BY <1>2, <2>1 DEF Inv, OneCaller, One
    <3> QED BY <2>1, <3>1, <3>2, <3>3 DEF Inv, OneCaller
  <2>3. CASE k # "init"
    <3>1. nextZone' = nextZone /\ \A y \in Zones : spawnNext'[y]["init"] = spawnNext[y]["init"]
      BY <1>1, <1>2, <2>1, <2>3 DEF One, Inv, TypesOK
    <3> QED BY <2>1, <3>1 DEF Inv, OneCaller, InitDue
  <2> QED BY <2>2, <2>3
<1> QED BY <1>3, <1>6, <1>7 DEF Inv

\* No chain of init comes to a new place.
LEMMA CallerKept ==
    ASSUME Inv, nextZone' = nextZone,
           \A y \in Zones : spawnNext'[y]["init"] = spawnNext[y]["init"],
           \A d \in Children : Waits(d)' => Waits(d)
    PROVE  OneCaller'
BY DEF Inv, OneCaller, InitDue

\* The chain of init that waited for a child goes on.
LEMMA CallerGoesOn ==
    ASSUME Inv, nextZone' = nextZone, NEW z \in Zones, NEW c \in Children,
           Waits(c), ~Waits(c)',
           \A d \in Children : d # c => (Waits(d)' <=> Waits(d)),
           \A y \in Zones : spawnNext'[y]["init"] = spawnNext[y]["init"] + One(y = z)
    PROVE  OneCaller'
<1>1. ~nextZone /\ \A y \in Zones : ~InitDue(y) /\ spawnNext[y]["init"] = 0
  BY DueType DEF Inv, OneCaller, InitDue, Chain
<1>2. \A d \in Children : ~Waits(d)'
  BY DEF Inv, OneCaller
<1>3. \A y \in Zones : spawnNext'[y]["init"] = One(y = z)
  BY <1>1 DEF One
<1> QED BY <1>1, <1>2, <1>3 DEF OneCaller, InitDue, One

\* A chain that is due forks a child and waits for it.
LEMMA StepSpawnSender ==
    ASSUME Inv, NEW z \in Zones, NEW k \in Chain, SpawnSender(z, k)
    PROVE  Inv'
<1>1. /\ TakenOff(z, k) /\ Up(z) < Processes /\ ~closing
      /\ UNCHANGED <<zonePos, nextZone, respawns, closing, failures, timedOut>>
  <2>1. Up(z) \in Nat /\ ~HasChildren(z)
    BY CountType DEF SpawnSender, Up, Count
  <2>2. Up(z) < Processes
    BY <2>1, ProcessesAssumption DEF HasChildren
  <2> QED BY <2>2 DEF SpawnSender, TakenOff
<1>2. PICK c \in Children :
          /\ child[c] = "none"
          /\ child' = [child EXCEPT ![c] = "starting"]
          /\ origin' = [origin EXCEPT ![c] = [zone |-> z, chain |-> k]]
  <2> DEFINE c == CHOOSE x \in Free : TRUE
  <2>1. c \in Free
    BY DEF SpawnSender
  <2> QED BY <2>1 DEF SpawnSender, Free
<1>3. /\ spawnNext' \in [Zones -> [Chain -> Nat]]
      /\ \A y \in Zones : Due(y)' = Due(y) - One(y = z)
      /\ \A y \in Zones : spawnNext'[y]["init"] = spawnNext[y]["init"]
                                               - One(y = z /\ k = "init")
  BY <1>1, TakenOffStep DEF Inv
<1>4. /\ OnlyMoves(c) /\ origin[c] = NoOrigin /\ child'[c] = "starting"
      /\ origin'[c] = [zone |-> z, chain |-> k] /\ origin'[c] # NoOrigin
      /\ origin'[c] \in Origin
  BY <1>2, ProcessesAssumption DEF Inv, TypesOK, OnlyMoves, NoOrigin, Origin, Zones
<1>5. TypesOK'
  <2>1. nextZone' \in BOOLEAN /\ closing' \in BOOLEAN /\ timedOut' \in BOOLEAN
    BY <1>1 DEF Inv, TypesOK
  <2>2. /\ child' \in [Children -> {"none", "starting", "killed", "up"}]
        /\ origin' \in [Children -> Origin \cup {NoOrigin}]
        /\ \A d \in Children : child'[d] = "none" <=> origin'[d] = NoOrigin
    BY <1>2, <1>4 DEF Inv, TypesOK
  <2> QED BY <1>1, <1>3, <2>1, <2>2 DEF Inv, TypesOK
<1>6. \A y \in Zones : /\ Count(y, "up")' = Count(y, "up")
                       /\ Count(y, "killed")' = Count(y, "killed")
                       /\ Count(y, "starting")' = Count(y, "starting") + One(y = z)
  <2> TAKE y \in Zones
  <2>1. child[c] = "none" /\ child'[c] = "starting" /\ origin'[c].zone = z
    BY <1>2, <1>4
  <2>2. /\ Count(y, "up")' = Count(y, "up") - One(FALSE) + One(FALSE)
        /\ Count(y, "killed")' = Count(y, "killed") - One(FALSE) + One(FALSE)
        /\ Count(y, "starting")' = Count(y, "starting") - One(FALSE) + One(y = z)
    BY <1>4, <2>1, CountMoves DEF One
  <2> QED BY <2>2, CountType DEF One
<1>7. \A y \in Zones : Chains(y)' \in Nat
  BY <1>5, NumbersNext
<1>8. \A y \in Zones : Chains(y)' = Chains(y)
  BY <1>1, <1>3, <1>6, CountType, DueType DEF Inv, Chains, One
<1>9. (ChainsOK /\ RepairOK /\ ForksOK)'
  <2>1. failures \in Nat /\ Processes \in Nat
    BY ProcessesAssumption DEF Inv, TypesOK
  <2>2. Count(z, "up") + Count(z, "starting") + 1 <= Processes + failures
    <3>1. Chains(z) <= failures + 1
      BY <2>1, DueType DEF Inv, ChainsOK
    <3>2. /\ Due(z) >= 1 /\ Due(z) \in Nat /\ respawns[z] \in Nat
          /\ Count(z, "starting") \in Nat /\ Count(z, "killed") \in Nat
          /\ Count(z, "up") \in Nat
      BY <1>1, DueType, CountType DEF Inv, TakenOff, Due, Chain
    <3>3. Count(z, "up") < Processes
      BY <1>1 DEF Up, Count
    <3> QED BY <2>1, <3>1, <3>2, <3>3 DEF Chains
  <2>3. ASSUME NEW y \in Zones
        PROVE  /\ Chains(y)' <= Chains(y) + (failures' - failures)
               /\ Count(y, "up")' + Count(y, "starting")' <= Processes + failures'
               /\ Chains(y)' = Chains(y) /\ Count(y, "up")' = Count(y, "up")
    <3>1. Count(y, "up") + Count(y, "starting") <= Processes + failures
      BY DEF Inv, ForksOK
    <3>2. /\ Chains(y) \in Nat /\ Count(y, "up") \in Nat /\ Count(y, "starting") \in Nat
          /\ failures' = failures
      BY <1>1, CountType, DueType DEF Inv
    <3> QED BY <1>6, <1>8, <2>1, <2>2, <3>1, <3>2 DEF One
  <2> QED BY <1>1, <1>7, <2>1, <2>3, NumbersKept
<1>10. OneCaller'
  <2>1. /\ \A d \in Children : d # c => (Waits(d)' <=> Waits(d))
        /\ ~Waits(c) /\ (Waits(c)' <=> k = "init")
    BY <1>2, <1>4 DEF OnlyMoves, Waits
  <2>2. \A y \in Zones : spawnNext[y]["init"] \in Nat
    BY DueType DEF Inv, Chain
  <2>3. CASE k = "init"
    <3>1. InitDue(z)
      BY <1>1, <2>3 DEF TakenOff, InitDue
    <3>2. ~nextZone' /\ \A d \in Children : ~Waits(d)
      BY <1>1, <3>1 DEF Inv, OneCaller
    <3>3. \A y \in Zones : ~InitDue(y)'
      BY <1>3, <2>2, <2>3, <3>1 DEF Inv, OneCaller, InitDue, One
    <3>4. \A y \in Zones : spawnNext'[y]["init"] <= 1
      BY <1>3, <2>2 DEF Inv, OneCaller, One
    <3> QED BY <2>1, <3>2, <3>3, <3>4 DEF OneCaller
  <2>4. CASE k # "init"
    BY <1>1, <1>3, <2>1, <2>2, <2>4, CallerKept DEF One
  <2> QED BY <2>3, <2>4
<1> QED BY <1>5, <1>9, <1>10 DEF Inv

\* The children that have a zone and a chain.
LEMMA OriginType ==
    ASSUME TypesOK, NEW c \in Children, child[c] # "none"
    PROVE  origin[c] \in Origin /\ origin[c].zone \in Zones /\ origin[c].chain \in Chain
BY DEF TypesOK, Origin

LEMMA StepStartup ==
    ASSUME Inv, NEW c \in Children, Startup(c)
    PROVE  Inv'
<1>0. PICK z \in Zones, k \in Chain : z = origin[c].zone /\ k = origin[c].chain
  BY OriginType DEF Inv, Startup
<1>1. /\ child[c] = "starting" /\ child' = [child EXCEPT ![c] = "up"]
      /\ UNCHANGED <<zonePos, nextZone, origin, respawns, closing, failures, timedOut>>
      /\ Continue(z, k)
  BY <1>0 DEF Startup
<1>3. Waits(c) <=> k = "init"
  BY <1>0, <1>1 DEF Waits
<1>4. /\ OnlyMoves(c) /\ child'[c] = "up" /\ origin'[c] = origin[c]
      /\ \A d \in Children : d # c => (Waits(d)' <=> Waits(d))
      /\ ~Waits(c)'
  BY <1>1 DEF Inv, TypesOK, OnlyMoves, Waits
<1>6. /\ spawnNext' \in [Zones -> [Chain -> Nat]]
      /\ \A y \in Zones : Due(y)' = Due(y) + One(y = z)
      /\ \A y \in Zones : spawnNext'[y]["init"] = spawnNext[y]["init"]
                                               + One(y = z /\ k = "init")
  BY <1>1, ContinueStep DEF Inv
<1>7. TypesOK'
  <2>1. nextZone' \in BOOLEAN /\ closing' \in BOOLEAN /\ timedOut' \in BOOLEAN
    BY <1>1 DEF Inv, TypesOK
  <2>2. /\ child' \in [Children -> {"none", "starting", "killed", "up"}]
        /\ \A d \in Children : child'[d] = "none" <=> origin'[d] = NoOrigin
    BY <1>1 DEF Inv, TypesOK
  <2> QED BY <1>1, <1>6, <2>1, <2>2 DEF Inv, TypesOK
<1>8. \A y \in Zones : /\ Count(y, "up")' = Count(y, "up") + One(y = z)
                       /\ Count(y, "killed")' = Count(y, "killed")
                       /\ Count(y, "starting")' = Count(y, "starting") - One(y = z)
  <2> TAKE y \in Zones
  <2>1. /\ Count(y, "up")' = Count(y, "up") - One(FALSE) + One(y = z)
        /\ Count(y, "killed")' = Count(y, "killed") - One(FALSE) + One(FALSE)
        /\ Count(y, "starting")' = Count(y, "starting") - One(y = z) + One(FALSE)
    BY <1>0, <1>1, <1>4, CountMoves DEF One
  <2> QED BY <2>1, CountType DEF One
<1>9. \A y \in Zones : Chains(y)' \in Nat
  BY <1>7, NumbersNext
<1>10. \A y \in Zones : Chains(y)' = Chains(y)
  BY <1>1, <1>6, <1>8, CountType, DueType DEF Inv, Chains, One
<1>11. \A y \in Zones : Count(y, "up") + Count(y, "starting") <= Processes + failures
  BY DEF Inv, ForksOK
<1>12. Chains(z)' > 0
  <2>1. Due(z)' = Due(z) + 1 /\ Due(z) \in Nat /\ respawns[z] \in Nat
    BY <1>6, DueType DEF Inv, One
  <2> QED BY <1>1, <2>1, CountTypeNext DEF Chains
<1>13. (ChainsOK /\ RepairOK /\ ForksOK)'
  <2>1. failures \in Nat /\ failures' = failures /\ (closing => closing')
    BY <1>1 DEF Inv, TypesOK
  <2>2. ASSUME NEW y \in Zones
        PROVE  /\ Chains(y)' <= Chains(y) + (failures' - failures)
               /\ Count(y, "up")' + Count(y, "starting")' <= Processes + failures'
               /\ ~closing' /\ Count(y, "up")' < Processes =>
                     \/ Chains(y)' > 0
                     \/ Chains(y)' = Chains(y) /\ Count(y, "up")' = Count(y, "up")
    <3>1. /\ Chains(y) \in Nat /\ Count(y, "up") \in Nat /\ Count(y, "starting") \in Nat
      BY CountType, DueType DEF Inv
    <3> QED BY <1>8, <1>10, <1>11, <1>12, <2>1, <3>1 DEF One
  <2> QED BY <1>1, <1>9, <2>1, <2>2, NumbersKept
<1>14. OneCaller'
  <2>1. \A y \in Zones : spawnNext[y]["init"] \in Nat
    BY DueType DEF Inv, Chain
  <2>2. CASE k = "init"
    BY <1>1, <1>3, <1>4, <1>6, <2>1, <2>2, CallerGoesOn DEF One
  <2>3. CASE k # "init"
    BY <1>1, <1>4, <1>6, <2>1, <2>3, CallerKept DEF One
  <2> QED BY <2>2, <2>3
<1> QED BY <1>7, <1>13, <1>14 DEF Inv

LEMMA StepStartupTimeout ==
    ASSUME Inv, NEW c \in Children, StartupTimeout(c)
    PROVE  Inv'
<1>1. /\ child[c] = "starting" /\ child' = [child EXCEPT ![c] = "killed"]
      /\ failures < MaxFailures /\ failures' = failures + 1
      /\ timedOut' = (timedOut \/ origin[c].chain = "init")
      /\ UNCHANGED <<zonePos, nextZone, spawnNext, origin, respawns, closing>>
  BY DEF StartupTimeout
<1>2. /\ OnlyMoves(c) /\ child'[c] = "killed" /\ origin'[c] = origin[c]
      /\ \A d \in Children : Waits(d)' => Waits(d)
  BY <1>1 DEF Inv, TypesOK, OnlyMoves, Waits
<1>3. TypesOK'
  <2>1. nextZone' \in BOOLEAN /\ closing' \in BOOLEAN /\ timedOut' \in BOOLEAN
    BY <1>1 DEF Inv, TypesOK
  <2>2. failures' \in Nat /\ failures' <= MaxFailures
    BY <1>1, ProcessesAssumption DEF Inv, TypesOK
  <2>3. /\ child' \in [Children -> {"none", "starting", "killed", "up"}]
        /\ \A d \in Children : child'[d] = "none" <=> origin'[d] = NoOrigin
    BY <1>1 DEF Inv, TypesOK
  <2> QED BY <1>1, <2>1, <2>2, <2>3 DEF Inv, TypesOK
<1>4. \A y \in Zones :
          /\ Count(y, "up")' = Count(y, "up")
          /\ Count(y, "killed")' = Count(y, "killed") + One(origin[c].zone = y)
          /\ Count(y, "starting")' = Count(y, "starting") - One(origin[c].zone = y)
  <2> TAKE y \in Zones
  <2>1. /\ Count(y, "up")' = Count(y, "up") - One(FALSE) + One(FALSE)
        /\ Count(y, "killed")' = Count(y, "killed") - One(FALSE)
                                                    + One(origin[c].zone = y)
        /\ Count(y, "starting")' = Count(y, "starting") - One(origin[c].zone = y)
                                                        + One(FALSE)
    BY <1>1, <1>2, CountMoves DEF One
  <2> QED BY <2>1, CountType DEF One
<1>5. \A y \in Zones : Chains(y)' \in Nat
  BY <1>3, NumbersNext
<1>6. \A y \in Zones : Chains(y)' = Chains(y)
  BY <1>1, <1>4, CountType, DueType DEF Inv, Chains, One, Due
<1>7. (ChainsOK /\ RepairOK /\ ForksOK)'
  <2>1. /\ failures \in Nat /\ failures' \in Nat /\ failures' = failures + 1
        /\ Processes \in Nat /\ (closing => closing')
    BY <1>1, ProcessesAssumption DEF Inv, TypesOK
  <2>2. ASSUME NEW y \in Zones
        PROVE  /\ Chains(y)' <= Chains(y) + (failures' - failures)
               /\ Count(y, "up")' + Count(y, "starting")' <= Processes + failures'
               /\ Chains(y)' = Chains(y) /\ Count(y, "up")' = Count(y, "up")
    <3>1. /\ Chains(y) \in Nat /\ Count(y, "up") \in Nat /\ Count(y, "starting") \in Nat
      BY CountType, DueType DEF Inv
    <3>2. Count(y, "up") + Count(y, "starting") <= Processes + failures
      BY DEF Inv, ForksOK
    <3> QED BY <1>4, <1>6, <2>1, <3>1, <3>2 DEF One
  <2> QED BY <1>1, <1>5, <2>1, <2>2, NumbersKept
<1>8. OneCaller'
  BY <1>1, <1>2, CallerKept
<1> QED BY <1>3, <1>7, <1>8 DEF Inv

\* A child ends: the chain that still waits for it goes on, a timer starts one.
LEMMA StepClosed ==
    ASSUME Inv, NEW c \in Children, Closed(c)
    PROVE  Inv'
<1>1. child[c] \in {"starting", "up", "killed"}
  BY DEF Closed
<1>2. PICK z \in Zones, k \in Chain : z = origin[c].zone /\ k = origin[c].chain
  BY <1>1, OriginType DEF Inv
<1>3. /\ child' = [child EXCEPT ![c] = "none"]
      /\ origin' = [origin EXCEPT ![c] = NoOrigin]
      /\ UNCHANGED <<zonePos, nextZone, closing, timedOut>>
      /\ respawns' = IF closing THEN respawns ELSE [respawns EXCEPT ![z] = @ + 1]
  BY <1>2 DEF Closed, RespawnsAfter
<1>4. /\ child[c] # "killed" => failures < MaxFailures
      /\ failures' = failures + One(child[c] # "killed")
      /\ failures \in Nat /\ failures' \in Nat /\ failures' <= MaxFailures
  BY <1>1, ProcessesAssumption DEF Closed, One, Inv, TypesOK
<1>5. /\ OnlyMoves(c) /\ child'[c] = "none" /\ origin'[c] = NoOrigin
      /\ \A d \in Children : d # c => (Waits(d)' <=> Waits(d))
      /\ ~Waits(c)' /\ (Waits(c) <=> child[c] = "starting" /\ k = "init")
  BY <1>2, <1>3 DEF Inv, TypesOK, OnlyMoves, Waits
<1>6. /\ spawnNext' \in [Zones -> [Chain -> Nat]]
      /\ \A y \in Zones : Due(y)' = Due(y) + One(y = z /\ child[c] = "starting")
      /\ \A y \in Zones : spawnNext'[y]["init"] = spawnNext[y]["init"]
                  + One(y = z /\ k = "init" /\ child[c] = "starting")
  <2>1. CASE child[c] = "starting"
    <3>1. Continue(z, k)
      BY <1>2, <2>1 DEF Closed, ContinueUnlessReturned
    <3> QED BY <2>1, <3>1, ContinueStep DEF Inv, One
  <2>2. CASE child[c] # "starting"
    <3>1. spawnNext' = spawnNext
      BY <2>2 DEF Closed, ContinueUnlessReturned
    <3> QED BY <2>2, <3>1, DueType DEF Inv, TypesOK, One, Due, Chain
  <2> QED BY <2>1, <2>2
<1>7. /\ respawns' \in [Zones -> Nat]
      /\ \A y \in Zones : respawns'[y] = respawns[y] + One(y = z /\ ~closing)
  BY <1>3 DEF Inv, TypesOK, One
<1>8. TypesOK'
  <2>1. nextZone' \in BOOLEAN /\ closing' \in BOOLEAN /\ timedOut' \in BOOLEAN
    BY <1>3 DEF Inv, TypesOK
  <2>2. /\ child' \in [Children -> {"none", "starting", "killed", "up"}]
        /\ origin' \in [Children -> Origin \cup {NoOrigin}]
        /\ \A d \in Children : child'[d] = "none" <=> origin'[d] = NoOrigin
    BY <1>3 DEF Inv, TypesOK
  <2> QED BY <1>3, <1>4, <1>6, <1>7, <2>1, <2>2 DEF Inv, TypesOK
<1>9. \A y \in Zones, state \in {"starting", "up", "killed"} :
          Count(y, state)' = Count(y, state) - One(y = z /\ child[c] = state)
  <2> TAKE y \in Zones, state \in {"starting", "up", "killed"}
  <2>1. Count(y, state)' = Count(y, state) - One(y = z /\ child[c] = state) + One(FALSE)
    BY <1>2, <1>5, CountMoves DEF One
  <2> QED BY <2>1, CountType DEF One
<1>10. \A y \in Zones : Chains(y)' \in Nat
  BY <1>8, NumbersNext
<1>11. \A y \in Zones :
           /\ Chains(y)' <= Chains(y) + (failures' - failures)
           /\ y # z => Chains(y)' = Chains(y) /\ Count(y, "up")' = Count(y, "up")
           /\ Count(y, "up")' + Count(y, "starting")'
                  <= Count(y, "up") + Count(y, "starting")
  <2> TAKE y \in Zones
  <2>1. /\ Due(y) \in Nat /\ respawns[y] \in Nat /\ Count(y, "starting") \in Nat
        /\ Count(y, "up") \in Nat /\ Count(y, "killed") \in Nat
    BY DueType, CountType DEF Inv
  <2>2. /\ Due(y)' = Due(y) + One(y = z /\ child[c] = "starting")
        /\ respawns'[y] = respawns[y] + One(y = z /\ ~closing)
        /\ Count(y, "starting")' = Count(y, "starting")
                                       - One(y = z /\ child[c] = "starting")
        /\ Count(y, "up")' = Count(y, "up") - One(y = z /\ child[c] = "up")
        /\ Count(y, "killed")' = Count(y, "killed") - One(y = z /\ child[c] = "killed")
    BY <1>6, <1>7, <1>9
  <2>3. failures' - failures = One(child[c] # "killed")
    BY <1>4 DEF One
  <2> QED BY <1>1, <2>1, <2>2, <2>3 DEF Chains, One
<1>12. ~closing => Chains(z)' > 0
  <2>1. \A y \in Zones : Due(y)' \in Nat
    BY <1>8, NumbersNext
  <2>2. ~closing => respawns'[z] > 0
    BY <1>7, DueType DEF Inv, One
  <2> QED BY <1>7, <2>1, <2>2, CountTypeNext DEF Chains
<1>13. (ChainsOK /\ RepairOK /\ ForksOK)'
  <2>1. (closing => closing') /\ (~closing' => ~closing) /\ failures <= failures'
    BY <1>3, <1>4 DEF One
  <2>2. ASSUME NEW y \in Zones
        PROVE  /\ Count(y, "up")' + Count(y, "starting")' <= Processes + failures'
               /\ ~closing' /\ Count(y, "up")' < Processes =>
                     \/ Chains(y)' > 0
                     \/ Chains(y)' = Chains(y) /\ Count(y, "up")' = Count(y, "up")
    <3>1. /\ Count(y, "up")' \in Nat /\ Count(y, "starting")' \in Nat
          /\ Count(y, "up") \in Nat /\ Count(y, "starting") \in Nat
          /\ Processes \in Nat
      BY CountType, CountTypeNext, ProcessesAssumption
    <3>2. Count(y, "up") + Count(y, "starting") <= Processes + failures
      BY DEF Inv, ForksOK
    <3>3. Count(y, "up")' + Count(y, "starting")' <= Processes + failures'
      BY <1>4, <1>11, <2>1, <3>1, <3>2
    <3> QED BY <1>11, <1>12, <2>1, <3>3
  <2> QED BY <1>3, <1>4, <1>10, <1>11, <2>1, <2>2, NumbersKept
<1>14. OneCaller'
  <2>1. \A y \in Zones : spawnNext[y]["init"] \in Nat
    BY DueType DEF Inv, Chain
  <2>2. CASE child[c] = "starting" /\ k = "init"
    BY <1>3, <1>5, <1>6, <2>1, <2>2, CallerGoesOn DEF One
  <2>3. CASE ~(child[c] = "starting" /\ k = "init")
    BY <1>3, <1>5, <1>6, <2>1, <2>3, CallerKept DEF One
  <2> QED BY <2>2, <2>3
<1> QED BY <1>8, <1>13, <1>14 DEF Inv

\* The timer of a child that has ended starts a chain, unless the queue closes.
LEMMA StepRespawn ==
    ASSUME Inv, NEW z \in Zones, Respawn(z)
    PROVE  Inv'
<1>1. /\ respawns[z] > 0 /\ respawns' = [respawns EXCEPT ![z] = @ - 1]
      /\ closing => spawnNext' = spawnNext
      /\ ~closing => Continue(z, "respawn")
      /\ UNCHANGED <<zonePos, nextZone, child, origin, closing, failures, timedOut>>
  BY DEF Respawn
<1>2. /\ spawnNext' \in [Zones -> [Chain -> Nat]]
      /\ \A y \in Zones : Due(y)' = Due(y) + One(y = z /\ ~closing)
      /\ \A y \in Zones : spawnNext'[y]["init"] = spawnNext[y]["init"]
  <2>1. \A y \in Zones : spawnNext[y]["init"] \in Nat
    BY DueType DEF Inv, Chain
  <2>2. CASE closing
    BY <1>1, <2>2, DueType DEF Inv, TypesOK, One, Due
  <2>3. CASE ~closing
    <3>1. Continue(z, "respawn") /\ "respawn" \in Chain
      BY <1>1, <2>3 DEF Chain
    <3>2. /\ spawnNext' \in [Zones -> [Chain -> Nat]]
          /\ \A y \in Zones : Due(y)' = Due(y) + One(y = z)
          /\ \A y \in Zones : spawnNext'[y]["init"] = spawnNext[y]["init"] + One(FALSE)
      BY <3>1, ContinueStep DEF Inv, One
    <3> QED BY <2>1, <2>3, <3>2 DEF One
  <2> QED BY <2>2, <2>3
<1>3. /\ respawns' \in [Zones -> Nat]
      /\ \A y \in Zones : respawns'[y] = respawns[y] - One(y = z)
  BY <1>1 DEF Inv, TypesOK, One
<1>4. TypesOK'
  <2>1. nextZone' \in BOOLEAN /\ closing' \in BOOLEAN /\ timedOut' \in BOOLEAN
    BY <1>1 DEF Inv, TypesOK
  <2> QED BY <1>1, <1>2, <1>3, <2>1 DEF Inv, TypesOK
<1>5. \A y \in Zones : /\ Count(y, "up")' = Count(y, "up")
                       /\ Count(y, "starting")' = Count(y, "starting")
                       /\ Chains(y)' = Chains(y) - One(y = z /\ closing)
  <2> TAKE y \in Zones
  <2>1. \A state : Count(y, state)' = Count(y, state)
    BY <1>1, CountStays
  <2>2. /\ Due(y) \in Nat /\ respawns[y] \in Nat
        /\ Count(y, "starting") \in Nat /\ Count(y, "killed") \in Nat
    BY DueType, CountType DEF Inv
  <2>3. /\ Due(y)' = Due(y) + One(y = z /\ ~closing)
        /\ respawns'[y] = respawns[y] - One(y = z)
    BY <1>2, <1>3
  <2> QED BY <2>1, <2>2, <2>3 DEF Chains, One
<1>6. \A y \in Zones : Chains(y)' \in Nat
  BY <1>4, NumbersNext
<1>7. (ChainsOK /\ RepairOK /\ ForksOK)'
  <2>1. failures \in Nat /\ failures' = failures /\ closing' = closing
    BY <1>1 DEF Inv, TypesOK
  <2>2. ASSUME NEW y \in Zones
        PROVE  /\ Chains(y)' <= Chains(y) + (failures' - failures)
               /\ Count(y, "up")' + Count(y, "starting")' <= Processes + failures'
               /\ ~closing' /\ Count(y, "up")' < Processes =>
                      Chains(y)' = Chains(y) /\ Count(y, "up")' = Count(y, "up")
    <3>1. Chains(y) \in Nat
      BY DueType DEF Inv
    <3>2. Count(y, "up") + Count(y, "starting") <= Processes + failures
      BY DEF Inv, ForksOK
    <3> QED BY <1>5, <2>1, <3>1, <3>2 DEF One
  <2> QED BY <1>1, <1>6, <2>1, <2>2, NumbersKept
<1>8. OneCaller'
  BY <1>1, <1>2, CallerKept DEF Waits
<1> QED BY <1>4, <1>7, <1>8 DEF Inv

LEMMA StepClose ==
    ASSUME Inv, Close
    PROVE  Inv'
<1>1. /\ closing' = TRUE
      /\ UNCHANGED <<zonePos, nextZone, spawnNext, child, origin, respawns, failures,
                     timedOut>>
  BY DEF Close
<1>2. TypesOK'
  <2>1. nextZone' \in BOOLEAN /\ closing' \in BOOLEAN /\ timedOut' \in BOOLEAN
    BY <1>1 DEF Inv, TypesOK
  <2> QED BY <1>1, <2>1 DEF Inv, TypesOK
<1>3. \A y \in Zones : /\ Count(y, "up")' = Count(y, "up")
                       /\ Count(y, "starting")' = Count(y, "starting")
                       /\ Chains(y)' = Chains(y)
  BY <1>1, CountStays DEF Chains, Due
<1>4. (ChainsOK /\ RepairOK /\ ForksOK)'
  BY <1>1, <1>3 DEF Inv, ChainsOK, RepairOK, ForksOK
<1>5. OneCaller'
  BY <1>1, CallerKept DEF Waits
<1> QED BY <1>2, <1>4, <1>5 DEF Inv

LEMMA StepStutters ==
    ASSUME Inv, UNCHANGED vars
    PROVE  Inv'
<1>1. \A z \in Zones : /\ Chains(z)' = Chains(z)
                       /\ Count(z, "up")' = Count(z, "up")
                       /\ Count(z, "starting")' = Count(z, "starting")
  BY CountStays DEF vars, Chains, Due
<1>2. TypesOK'
  <2>1. nextZone' \in BOOLEAN /\ closing' \in BOOLEAN /\ timedOut' \in BOOLEAN
    BY DEF Inv, TypesOK, vars
  <2> QED BY <2>1 DEF Inv, TypesOK, vars
<1>3. (ChainsOK /\ RepairOK /\ ForksOK)'
  BY <1>1 DEF Inv, ChainsOK, RepairOK, ForksOK, vars
<1>4. OneCaller'
  BY CallerKept DEF Waits, vars
<1> QED BY <1>2, <1>3, <1>4 DEF Inv

LEMMA NextInv == Inv /\ [Next]_vars => Inv'
<1> SUFFICES ASSUME Inv, [Next]_vars PROVE Inv'
  OBVIOUS
<1>1. CASE StartNextZone
  BY <1>1, StepStartNextZone
<1>2. CASE StartNextZoneClosing
  BY <1>2, StepStartNextZoneClosing
<1>3. CASE \E z \in Zones, k \in Chain : SpawnNext(z, k)
  BY <1>3, StepChainEnds, StepSpawnSender DEF SpawnNext
<1>4. CASE \E c \in Children : Startup(c) \/ StartupTimeout(c) \/ Closed(c)
  BY <1>4, StepStartup, StepStartupTimeout, StepClosed
<1>5. CASE \E z \in Zones : Respawn(z)
  BY <1>5, StepRespawn
<1>6. CASE Close
  BY <1>6, StepClose
<1>7. CASE UNCHANGED vars
  BY <1>7, StepStutters
<1> QED BY <1>1, <1>2, <1>3, <1>4, <1>5, <1>6, <1>7 DEF Next

LEMMA Invariant == Spec => []Inv
<1> QED BY InitInv, NextInv, PTL DEF Spec

(***************************************************************************)
(* The results.                                                            *)
(***************************************************************************)
LEMMA InvStaffed == Inv => Staffed
<1> SUFFICES ASSUME Inv PROVE Staffed
  OBVIOUS
<1>1. TypeOK
  <2>1. zonePos \in 0..NumZones /\ failures \in 0..MaxFailures
    BY ProcessesAssumption DEF Inv, TypesOK
  <2>2. {closing, timedOut} \subseteq BOOLEAN /\ nextZone \in BOOLEAN
    BY DEF Inv, TypesOK
  <2>3. \A c \in Children :
            IF child[c] = "none" THEN origin[c] = NoOrigin ELSE origin[c] \in Origin
    BY OriginType DEF Inv, TypesOK
  <2> QED BY <2>1, <2>2, <2>3 DEF Inv, TypesOK, TypeOK
<1>2. UnderstaffedIsRepaired
  <2> SUFFICES ASSUME NEW z \in 1..zonePos, ~closing, Up(z) < Processes,
                      \A k \in Chain : ~(spawnNext[z][k] > 0), ~(respawns[z] > 0),
                      Of(z, {"starting", "killed"}) = {}
               PROVE  FALSE
    BY DEF UnderstaffedIsRepaired
  <2>1. z \in Zones /\ z <= zonePos
    BY ProcessesAssumption DEF Inv, TypesOK, Zones
  <2>2. Chains(z) > 0
    BY <2>1 DEF Inv, RepairOK, Up, Count
  <2>3. Of(z, {"starting"}) = {} /\ Of(z, {"killed"}) = {}
    BY DEF Of
  <2>4. Count(z, "starting") = 0 /\ Count(z, "killed") = 0
    BY <2>3, FS_EmptySet DEF Count
  <2>5. Due(z) = 0 /\ respawns[z] = 0
    BY <2>1, DueType DEF Inv, Due, Chain
  <2> QED BY <2>2, <2>4, <2>5 DEF Chains
<1>3. ProcessBound
  <2> SUFFICES ASSUME NEW z \in Zones PROVE Up(z) <= Processes + failures
    BY DEF ProcessBound
  <2>1. Count(z, "up") \in Nat /\ Count(z, "starting") \in Nat
    BY CountType
  <2>2. Processes \in Nat /\ failures \in Nat
    BY ProcessesAssumption DEF Inv, TypesOK
  <2> QED BY <2>1, <2>2 DEF Inv, ForksOK, Up, Count
<1> QED BY <1>1, <1>2, <1>3 DEF Staffed

\* Whichever of the start, the end and the two minutes of each child comes first
\* (spawnSender calls back once), a zone of the master that has fewer children
\* than it is configured with has a call of spawnSenders that is due, a timer
\* for one, or a child that leads to one; and it has at most one child more than
\* that for each one that has failed, though the calls do not see each other.
THEOREM StaffedHolds == Spec => []Staffed
<1> QED BY Invariant, InvStaffed, PTL

LEMMA InvOneStart == Inv => OneStartAtATime
<1> SUFFICES ASSUME Inv PROVE OneStartAtATime
  OBVIOUS
<1> DEFINE due == {p \in Zones \X (1..(MaxFailures + NumZones)) :
                     p[2] <= spawnNext[p[1]]["init"]}
           waiting == {c \in Children : child[c] = "starting"
                                          /\ origin[c].chain = "init"}
<1>1. \A p \in due : InitDue(p[1]) /\ p[2] = 1
  <2> SUFFICES ASSUME NEW p \in due PROVE InitDue(p[1]) /\ p[2] = 1
    OBVIOUS
  <2>1. /\ p[1] \in Zones /\ p[2] \in Nat /\ p[2] >= 1
        /\ p[2] <= spawnNext[p[1]]["init"]
    BY ProcessesAssumption
  <2>2. spawnNext[p[1]]["init"] \in Nat /\ spawnNext[p[1]]["init"] <= 1
    BY <2>1, DueType DEF Inv, OneCaller, Chain
  <2> QED BY <2>1, <2>2 DEF InitDue
<1>2. \A p, q \in due : p = q
  BY <1>1 DEF Inv, OneCaller
<1>3. \A c \in waiting : Waits(c)
  BY DEF Waits
<1>4. \A c, d \in waiting : c = d
  BY <1>3 DEF Inv, OneCaller
<1>5. /\ due = {} \/ waiting = {}
      /\ nextZone => due = {} /\ waiting = {}
  BY <1>1, <1>3 DEF Inv, OneCaller
<1> HIDE DEF due, waiting
<1>6. /\ Cardinality(due) = IF due = {} THEN 0 ELSE 1
      /\ Cardinality(waiting) = IF waiting = {} THEN 0 ELSE 1
  BY <1>2, <1>4, AtMostOne
<1>7. Cardinality(due) + Cardinality(waiting) + (IF nextZone THEN 1 ELSE 0) <= 1
  BY <1>5, <1>6
<1> QED BY <1>7 DEF OneStartAtATime, due, waiting

\* Each zone is started once: startNextZone is called by one chain of callbacks
\* of spawnSender at a time, however many children of it end, time out or are
\* replaced while it waits.
THEOREM OneStartHolds == Spec => []OneStartAtATime
<1> QED BY Invariant, InvOneStart, PTL
=============================================================================
