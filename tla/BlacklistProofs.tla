-------------------------- MODULE BlacklistProofs ---------------------------
(***************************************************************************)
(* Proofs about Blacklist.                                                 *)
(***************************************************************************)
EXTENDS Blacklist, SequenceTheorems, FiniteSetTheorems, TLAPS

\* The elements of two sequences in a row.
LEMMA Joined ==
    ASSUME NEW S, NEW a \in Seq(S), NEW b \in Seq(S)
    PROVE  /\ a \o b \in Seq(S)
           /\ Len(a \o b) = Len(a) + Len(b)
           /\ \A j \in 1..Len(a) : (a \o b)[j] = a[j]
           /\ \A j \in (Len(a) + 1)..(Len(a) + Len(b)) : (a \o b)[j] = b[j - Len(a)]
<1>1. Len(a) \in Nat /\ Len(b) \in Nat
  BY LenProperties
<1> QED BY <1>1, ConcatProperties

LEMMA Removed ==
    ASSUME NEW S, NEW list \in Seq(S), NEW i \in 1..Len(list)
    PROVE  /\ Cache!RemoveAt(list, i) \in Seq(S)
           /\ Len(Cache!RemoveAt(list, i)) = Len(list) - 1
           /\ \A j \in 1..(Len(list) - 1) :
                 Cache!RemoveAt(list, i)[j] = IF j < i THEN list[j] ELSE list[j + 1]
<1> DEFINE a == SubSeq(list, 1, i - 1)
           b == SubSeq(list, i + 1, Len(list))
<1>1. Len(list) \in Nat /\ \A j \in 1..Len(list) : list[j] \in S
  BY LenProperties, ElementOfSeq
<1>2. /\ a \in Seq(S) /\ Len(a) = i - 1
      /\ \A j \in 1..(i - 1) : a[j] = list[j]
  BY <1>1, SubSeqProperties
<1>3. /\ b \in Seq(S) /\ Len(b) = Len(list) - i
      /\ \A j \in 1..(Len(list) - i) : b[j] = list[i + j]
  BY <1>1, SubSeqProperties
<1>4. Cache!RemoveAt(list, i) = a \o b
  BY DEF Cache!RemoveAt
<1> HIDE DEF a, b
<1>5. ASSUME NEW j \in 1..(Len(list) - 1)
      PROVE  (a \o b)[j] = IF j < i THEN list[j] ELSE list[j + 1]
  <2>1. CASE j < i
    BY <1>1, <1>2, <1>3, <2>1, Joined
  <2>2. CASE ~(j < i)
    <3>1. j \in (Len(a) + 1)..(Len(a) + Len(b))
      BY <1>1, <1>2, <1>3, <2>2
    <3>2. (a \o b)[j] = b[j - Len(a)]
      BY <1>2, <1>3, <3>1, Joined
    <3>3. j - Len(a) \in 1..(Len(list) - i) /\ i + (j - Len(a)) = j + 1
      BY <1>1, <1>2, <2>2
    <3> QED BY <1>3, <2>2, <3>2, <3>3
  <2> QED BY <2>1, <2>2
<1> QED BY <1>1, <1>2, <1>3, <1>4, <1>5, Joined

LEMMA Inserted ==
    ASSUME NEW S, NEW list \in Seq(S), NEW p \in 1..(Len(list) + 1), NEW e \in S
    PROVE  /\ Cache!InsertAt(list, p, e) \in Seq(S)
           /\ Len(Cache!InsertAt(list, p, e)) = Len(list) + 1
           /\ \A j \in 1..(p - 1) : Cache!InsertAt(list, p, e)[j] = list[j]
           /\ Cache!InsertAt(list, p, e)[p] = e
           /\ \A j \in (p + 1)..(Len(list) + 1) :
                 Cache!InsertAt(list, p, e)[j] = list[j - 1]
<1> DEFINE a == SubSeq(list, 1, p - 1)
           b == SubSeq(list, p, Len(list))
           c == a \o <<e>>
<1>1. Len(list) \in Nat /\ \A j \in 1..Len(list) : list[j] \in S
  BY LenProperties, ElementOfSeq
<1>2. /\ a \in Seq(S) /\ Len(a) = p - 1
      /\ \A j \in 1..(p - 1) : a[j] = list[j]
  BY <1>1, SubSeqProperties
<1>3. /\ b \in Seq(S) /\ Len(b) = Len(list) + 1 - p
      /\ \A j \in 1..(Len(list) + 1 - p) : b[j] = list[p + j - 1]
  BY <1>1, SubSeqProperties
<1>4. Cache!InsertAt(list, p, e) = c \o b
  BY DEF Cache!InsertAt
<1>5. <<e>> \in Seq(S) /\ Len(<<e>>) = 1 /\ <<e>>[1] = e
  OBVIOUS
<1> HIDE DEF a, b
<1>6. /\ c \in Seq(S) /\ Len(c) = p
      /\ \A j \in 1..(p - 1) : c[j] = list[j]
  BY <1>1, <1>2, <1>5, Joined
<1>7. c[p] = e
  <2>1. p \in (Len(a) + 1)..(Len(a) + Len(<<e>>)) /\ p - Len(a) = 1
    BY <1>1, <1>2, <1>5
  <2> QED BY <1>2, <1>5, <2>1, Joined
<1> HIDE DEF c
<1>8. /\ c \o b \in Seq(S)
      /\ Len(c \o b) = Len(list) + 1
      /\ \A j \in 1..p : (c \o b)[j] = c[j]
  <2>1. Len(c) + Len(b) = Len(list) + 1
    BY <1>1, <1>3, <1>6
  <2>2. /\ c \o b \in Seq(S) /\ Len(c \o b) = Len(c) + Len(b)
        /\ \A j \in 1..Len(c) : (c \o b)[j] = c[j]
    BY <1>3, <1>6, Joined, Zenon
  <2> QED BY <1>6, <2>1, <2>2
<1>9. ASSUME NEW j \in (p + 1)..(Len(list) + 1)
      PROVE  (c \o b)[j] = list[j - 1]
  <2>1. j \in (Len(c) + 1)..(Len(c) + Len(b))
    BY <1>1, <1>3, <1>6
  <2>2. (c \o b)[j] = b[j - Len(c)]
    BY <1>3, <1>6, <2>1, Joined
  <2>3. j - Len(c) \in 1..(Len(list) + 1 - p) /\ p + (j - Len(c)) - 1 = j - 1
    BY <1>1, <1>6
  <2> QED BY <1>3, <2>2, <2>3
<1>10. (\A j \in 1..(p - 1) : (c \o b)[j] = list[j]) /\ (c \o b)[p] = e
  BY <1>1, <1>6, <1>7, <1>8
<1> QED BY <1>4, <1>8, <1>9, <1>10

(***************************************************************************)
(* The array of the cache.                                                 *)
(***************************************************************************)
Keys == Pairs \cup OtherKeys

\* The array has one record for each key of the map, in order.
Matches(list, map) ==
    /\ list \in Seq(Cache!Record)
    /\ \A i \in 1..Len(list) :
          list[i].key \in DOMAIN map /\ list[i].expires = map[list[i].key]
    /\ \A k \in DOMAIN map : \E i \in 1..Len(list) : list[i].key = k
    /\ \A i, j \in 1..Len(list) : list[i].key = list[j].key => i = j
    /\ \A i, j \in 1..Len(list) : i <= j => list[i].expires <= list[j].expires

\* The map without the keys K.
Less(map, K) == [k \in DOMAIN map \ K |-> map[k]]

LEMMA MatchesNone ==
    ASSUME NEW map, DOMAIN map = {}
    PROVE  Matches(<< >>, map)
BY EmptySeq DEF Matches

\* The records whose keys are not in K, in their order: pos tells where they
\* were.
PartWithout(list, K, part, pos) ==
    /\ part \in Seq(Cache!Record)
    /\ pos \in [1..Len(part) -> 1..Len(list)]
    /\ \A j \in 1..Len(part) : part[j] = list[pos[j]]
    /\ \A j \in 1..Len(part) : list[pos[j]].key \notin K
    /\ \A i \in 1..Len(list) :
          list[i].key \notin K => \E j \in 1..Len(part) : pos[j] = i
    /\ \A j, m \in 1..Len(part) : j <= m => pos[j] <= pos[m]
    /\ \A j, m \in 1..Len(part) : pos[j] = pos[m] => j = m

LEMMA MatchesPart ==
    ASSUME NEW list, NEW map, Matches(list, map),
           NEW K, NEW part, NEW pos, PartWithout(list, K, part, pos)
    PROVE  Matches(part, Less(map, K))
<1> USE DEF PartWithout
<1>1. /\ DOMAIN Less(map, K) = DOMAIN map \ K
      /\ \A x \in DOMAIN map \ K : Less(map, K)[x] = map[x]
  BY DEF Less
<1>2. \A j \in 1..Len(part) : pos[j] \in 1..Len(list)
  OBVIOUS
<1>3. \A j \in 1..Len(part) :
         part[j].key \in DOMAIN map \ K /\ part[j].expires = map[part[j].key]
  BY <1>2 DEF Matches
<1>4. ASSUME NEW x \in DOMAIN map \ K
      PROVE  \E j \in 1..Len(part) : part[j].key = x
  <2>1. PICK i \in 1..Len(list) : list[i].key = x
    BY DEF Matches
  <2> QED BY <2>1
<1>5. ASSUME NEW j \in 1..Len(part), NEW m \in 1..Len(part), part[j].key = part[m].key
      PROVE  j = m
  <2>1. list[pos[j]].key = list[pos[m]].key
    BY <1>5
  <2>2. pos[j] = pos[m]
    BY <1>2, <2>1 DEF Matches
  <2> QED BY <2>2
<1>6. ASSUME NEW j \in 1..Len(part), NEW m \in 1..Len(part), j <= m
      PROVE  part[j].expires <= part[m].expires
  <2>1. pos[j] <= pos[m]
    BY <1>6
  <2>2. list[pos[j]].expires <= list[pos[m]].expires
    BY <1>2, <2>1 DEF Matches
  <2> QED BY <2>2
<1> QED BY <1>1, <1>3, <1>4, <1>5, <1>6 DEF Matches

LEMMA MatchesWithout ==
    ASSUME Matches(sorted, data), NEW k
    PROVE  Matches(Cache!WithoutKey(k), Less(data, {k}))
<1> DEFINE list == Cache!WithoutKey(k)
<1>1. sorted \in Seq(Cache!Record) /\ Len(sorted) \in Nat
  BY LenProperties DEF Matches
<1>2. CASE \E i \in 1..Len(sorted) : sorted[i].key = k
  <2>1. PICK i \in 1..Len(sorted) :
            sorted[i].key = k /\ list = Cache!RemoveAt(sorted, i)
    BY <1>2 DEF Cache!WithoutKey
  <2> HIDE DEF list
  <2>2. /\ list \in Seq(Cache!Record)
        /\ Len(list) = Len(sorted) - 1
        /\ \A j \in 1..Len(list) : list[j] = IF j < i THEN sorted[j] ELSE sorted[j + 1]
    BY <1>1, <2>1, Removed
  <2>3. \A j \in 1..Len(sorted) : j # i => sorted[j].key # k
    BY <2>1 DEF Matches
  <2> DEFINE pos == [j \in 1..Len(list) |-> IF j < i THEN j ELSE j + 1]
  <2>4. pos \in [1..Len(list) -> 1..Len(sorted)]
    BY <1>1, <2>2
  <2>5. \A j \in 1..Len(list) : pos[j] # i /\ list[j] = sorted[pos[j]]
    BY <1>1, <2>2
  <2>6. ASSUME NEW m \in 1..Len(sorted), sorted[m].key \notin {k}
        PROVE  \E j \in 1..Len(list) : pos[j] = m
    <3>1. m < i \/ m > i
      BY <1>1, <2>1, <2>6
    <3>2. CASE m < i
      BY <1>1, <2>2, <3>2
    <3>3. CASE m > i
      <4>1. m - 1 \in 1..Len(list) /\ ~(m - 1 < i) /\ (m - 1) + 1 = m
        BY <1>1, <2>2, <3>3
      <4>2. pos[m - 1] = m
        BY <4>1
      <4> QED BY <4>1, <4>2
    <3> QED BY <3>1, <3>2, <3>3
  <2>7. \A j, m \in 1..Len(list) :
           /\ j <= m => pos[j] <= pos[m]
           /\ pos[j] = pos[m] => j = m
    BY <1>1, <2>2
  <2> HIDE DEF pos
  <2>8. \A j \in 1..Len(list) : sorted[pos[j]].key \notin {k}
    BY <2>3, <2>4, <2>5
  <2>9. Matches(list, Less(data, {k}))
    <3>1. \A j \in 1..Len(list) : list[j] = sorted[pos[j]]
      BY <2>5
    <3>2. /\ \A j, m \in 1..Len(list) : j <= m => pos[j] <= pos[m]
          /\ \A j, m \in 1..Len(list) : pos[j] = pos[m] => j = m
      BY <2>7
    <3>3. \A m \in 1..Len(sorted) :
             sorted[m].key \notin {k} => \E j \in 1..Len(list) : pos[j] = m
      BY <2>6
    <3>4. list \in Seq(Cache!Record)
      BY <2>2
    <3>5. PartWithout(sorted, {k}, list, pos)
      BY <2>4, <2>8, <3>1, <3>2, <3>3, <3>4 DEF PartWithout
    <3> QED BY <3>5, MatchesPart
  <2> QED BY <2>9 DEF list
<1>3. CASE ~\E i \in 1..Len(sorted) : sorted[i].key = k
  <2>1. list = sorted
    BY <1>3 DEF Cache!WithoutKey
  <2>2. k \notin DOMAIN data
    BY <1>3 DEF Matches
  <2>3. /\ DOMAIN Less(data, {k}) = DOMAIN data
        /\ \A x \in DOMAIN data : Less(data, {k})[x] = data[x]
    BY <2>2 DEF Less
  <2>4. Matches(sorted, Less(data, {k}))
    BY <2>3 DEF Matches
  <2> HIDE DEF list
  <2>5. Matches(list, Less(data, {k}))
    BY <2>1, <2>4
  <2> QED BY <2>5 DEF list
<1> QED BY <1>2, <1>3

LEMMA MatchesRest ==
    ASSUME Matches(sorted, data), NEW n \in 0..Len(sorted)
    PROVE  Matches(SubSeq(sorted, n + 1, Len(sorted)),
                   Less(data, {sorted[i].key : i \in 1..n}))
<1> DEFINE list == SubSeq(sorted, n + 1, Len(sorted))
           gone == {sorted[i].key : i \in 1..n}
           pos == [j \in 1..Len(list) |-> n + j]
<1>1. /\ sorted \in Seq(Cache!Record) /\ Len(sorted) \in Nat
      /\ \A i \in 1..Len(sorted) : sorted[i] \in Cache!Record
  BY LenProperties, ElementOfSeq DEF Matches
<1>2. /\ list \in Seq(Cache!Record)
      /\ Len(list) = Len(sorted) - n
      /\ \A j \in 1..Len(list) : list[j] = sorted[n + j]
  <2>1. \A j \in (n + 1)..Len(sorted) : sorted[j] \in Cache!Record
    BY <1>1
  <2>2. /\ list \in Seq(Cache!Record)
        /\ Len(list) = IF n + 1 <= Len(sorted) THEN Len(sorted) - (n + 1) + 1 ELSE 0
        /\ \A j \in 1..(Len(sorted) - (n + 1) + 1) : list[j] = sorted[n + 1 + j - 1]
    BY <1>1, <2>1, SubSeqProperties
  <2> HIDE DEF list
  <2>3. Len(list) = Len(sorted) - n
    BY <1>1, <2>2
  <2>4. ASSUME NEW j \in 1..Len(list)
        PROVE  list[j] = sorted[n + j]
    <3>1. j \in 1..(Len(sorted) - (n + 1) + 1) /\ n + 1 + j - 1 = n + j
      BY <1>1, <2>3
    <3> QED BY <2>2, <3>1
  <2> QED BY <2>2, <2>3, <2>4
<1> HIDE DEF list
<1>3. pos \in [1..Len(list) -> 1..Len(sorted)]
  BY <1>1, <1>2
<1>4. \A j \in 1..Len(list) : list[j] = sorted[pos[j]] /\ pos[j] > n
  BY <1>1, <1>2
<1>5. ASSUME NEW m \in 1..Len(sorted), sorted[m].key \notin gone
      PROVE  \E j \in 1..Len(list) : pos[j] = m
  <2>1. ~(m <= n)
    BY <1>1, <1>5
  <2>2. m - n \in 1..Len(list) /\ n + (m - n) = m
    BY <1>1, <1>2, <2>1
  <2>3. pos[m - n] = m
    BY <2>2
  <2> QED BY <2>2, <2>3
<1>6. \A j, m \in 1..Len(list) :
         /\ j <= m => pos[j] <= pos[m]
         /\ pos[j] = pos[m] => j = m
  BY <1>1, <1>2
<1> HIDE DEF pos
<1>7. ASSUME NEW j \in 1..Len(list), sorted[pos[j]].key \in gone
      PROVE  FALSE
  <2>1. PICK i \in 1..n : sorted[i].key = sorted[pos[j]].key
    BY <1>7
  <2>2. i \in 1..Len(sorted) /\ pos[j] \in 1..Len(sorted) /\ i # pos[j]
    BY <1>1, <1>3, <1>4
  <2> QED BY <2>1, <2>2 DEF Matches
<1> HIDE DEF gone
<1>8. Matches(list, Less(data, gone))
  <2>1. /\ \A j \in 1..Len(list) : list[j] = sorted[pos[j]]
        /\ \A j \in 1..Len(list) : sorted[pos[j]].key \notin gone
    BY <1>4, <1>7
  <2>2. /\ \A j, m \in 1..Len(list) : j <= m => pos[j] <= pos[m]
        /\ \A j, m \in 1..Len(list) : pos[j] = pos[m] => j = m
    BY <1>6
  <2>3. \A m \in 1..Len(sorted) :
           sorted[m].key \notin gone => \E j \in 1..Len(list) : pos[j] = m
    BY <1>5
  <2>4. list \in Seq(Cache!Record)
    BY <1>2
  <2>5. PartWithout(sorted, gone, list, pos)
    BY <1>3, <2>1, <2>2, <2>3, <2>4 DEF PartWithout
  <2> QED BY <2>5, MatchesPart
<1> QED BY <1>8 DEF list, gone

\* The place of a record that follows the last of those that do not expire
\* later, and a map with one key more.
PlaceFor(list, expires, p) ==
    /\ p \in 1..(Len(list) + 1)
    /\ p > 1 => list[p - 1].expires <= expires
    /\ \A i \in p..Len(list) : list[i].expires > expires

With(map, k, expires, map2) ==
    /\ k \notin DOMAIN map
    /\ DOMAIN map2 = DOMAIN map \cup {k}
    /\ map2[k] = expires
    /\ \A x \in DOMAIN map : map2[x] = map[x]

LEMMA MatchesInserted ==
    ASSUME NEW list, NEW map, Matches(list, map),
           NEW k \in Keys, NEW expires \in Nat,
           NEW p, PlaceFor(list, expires, p),
           NEW map2, With(map, k, expires, map2)
    PROVE  Matches(Cache!InsertAt(list, p, [key |-> k, expires |-> expires]), map2)
<1> DEFINE e == [key |-> k, expires |-> expires]
           new == Cache!InsertAt(list, p, e)
           pos == [j \in 1..Len(new) |-> IF j < p THEN j ELSE j - 1]
<1> USE DEF PlaceFor, With
<1>1. /\ list \in Seq(Cache!Record) /\ Len(list) \in Nat
      /\ \A i \in 1..Len(list) :
            /\ list[i] \in Cache!Record /\ list[i].expires \in Nat
            /\ list[i].key \in DOMAIN map /\ list[i].expires = map[list[i].key]
  <2>1. /\ list \in Seq(Cache!Record) /\ Len(list) \in Nat
        /\ \A i \in 1..Len(list) : list[i] \in Cache!Record
    BY LenProperties, ElementOfSeq DEF Matches
  <2> QED BY <2>1 DEF Matches, Cache!Record
<1>2. e \in Cache!Record /\ e.key = k /\ e.expires = expires
  BY DEF Cache!Record, Keys
<1> HIDE DEF e
<1>3. /\ new \in Seq(Cache!Record)
      /\ Len(new) = Len(list) + 1
      /\ \A j \in 1..(p - 1) : new[j] = list[j]
      /\ new[p] = e
      /\ \A j \in (p + 1)..(Len(list) + 1) : new[j] = list[j - 1]
  BY <1>1, <1>2, Inserted
<1> HIDE DEF new
<1>4. p \in 1..Len(new)
  BY <1>1, <1>3
<1>5. ASSUME NEW j \in 1..Len(new), j # p
      PROVE  pos[j] \in 1..Len(list) /\ new[j] = list[pos[j]]
  <2>1. CASE j < p
    BY <1>1, <1>3, <2>1
  <2>2. CASE j > p
    <3>1. j \in (p + 1)..(Len(list) + 1) /\ pos[j] = j - 1
      BY <1>1, <1>3, <2>2
    <3> QED BY <1>1, <1>3, <3>1
  <2> QED BY <1>1, <1>3, <1>5, <2>1, <2>2
<1>6. \A j, m \in 1..Len(new) :
         /\ j <= m => pos[j] <= pos[m]
         /\ j # p /\ m # p /\ pos[j] = pos[m] => j = m
  BY <1>1, <1>3
<1>7. ASSUME NEW i \in 1..Len(list)
      PROVE  \E j \in 1..Len(new) : j # p /\ pos[j] = i
  <2>1. CASE i < p
    <3>1. i \in 1..Len(new) /\ i # p /\ pos[i] = i
      BY <1>1, <1>3, <2>1
    <3> QED BY <3>1
  <2>2. CASE i >= p
    <3>1. i + 1 \in 1..Len(new) /\ i + 1 # p /\ pos[i + 1] = i
      BY <1>1, <1>3, <2>2
    <3> QED BY <3>1
  <2> QED BY <1>1, <2>1, <2>2
<1>8. ASSUME NEW j \in 1..Len(new)
      PROVE  /\ j < p => pos[j] <= p - 1
             /\ j > p => pos[j] \in p..Len(list)
  BY <1>1, <1>3
<1> HIDE DEF pos
<1>9. ASSUME NEW j \in 1..Len(new)
      PROVE  new[j].key \in DOMAIN map2 /\ new[j].expires = map2[new[j].key]
  <2>1. CASE j = p
    BY <1>2, <1>3, <2>1
  <2>2. CASE j # p
    BY <1>1, <1>5, <2>2
  <2> QED BY <2>1, <2>2
<1>10. ASSUME NEW x \in DOMAIN map2
       PROVE  \E j \in 1..Len(new) : new[j].key = x
  <2>1. CASE x = k
    BY <1>2, <1>3, <1>4, <2>1
  <2>2. CASE x \in DOMAIN map
    <3>1. PICK i \in 1..Len(list) : list[i].key = x
      BY <2>2 DEF Matches
    <3>2. PICK j \in 1..Len(new) : j # p /\ pos[j] = i
      BY <1>7
    <3> QED BY <1>5, <3>1, <3>2
  <2> QED BY <2>1, <2>2
<1>11. ASSUME NEW j \in 1..Len(new), NEW m \in 1..Len(new), new[j].key = new[m].key
       PROVE  j = m
  <2>1. \A i \in 1..Len(new) : i # p => new[i].key # k
    BY <1>1, <1>5
  <2>2. CASE j = p \/ m = p
    BY <1>2, <1>3, <1>11, <2>1, <2>2
  <2>3. CASE j # p /\ m # p
    <3>1. /\ pos[j] \in 1..Len(list) /\ pos[m] \in 1..Len(list)
          /\ list[pos[j]].key = list[pos[m]].key
      BY <1>5, <1>11, <2>3
    <3>2. pos[j] = pos[m]
      BY <3>1 DEF Matches
    <3> QED BY <1>6, <2>3, <3>2
  <2> QED BY <2>2, <2>3
<1>12. ASSUME NEW i \in 1..Len(list), i <= p - 1
       PROVE  list[i].expires <= expires
  <2>1. p - 1 \in 1..Len(list) /\ p > 1
    BY <1>1, <1>12
  <2>2. list[i].expires <= list[p - 1].expires
    BY <1>12, <2>1 DEF Matches
  <2> QED BY <1>1, <2>1, <2>2
<1>13. ASSUME NEW j \in 1..Len(new), NEW m \in 1..Len(new), j <= m
       PROVE  new[j].expires <= new[m].expires
  <2>1. CASE j = p /\ m = p
    BY <1>2, <1>3, <2>1
  <2>2. CASE j = p /\ m # p
    <3>1. m > p
      BY <1>13, <2>2
    <3>2. /\ pos[m] \in p..Len(list) /\ pos[m] \in 1..Len(list)
          /\ new[m] = list[pos[m]]
      BY <1>5, <1>8, <2>2, <3>1
    <3>3. list[pos[m]].expires > expires
      BY <3>2
    <3>4. new[j].expires = expires
      BY <1>2, <1>3, <2>2
    <3> QED BY <1>1, <3>2, <3>3, <3>4
  <2>3. CASE j # p /\ m = p
    <3>1. j < p
      BY <1>13, <2>3
    <3>2. /\ pos[j] \in 1..Len(list) /\ pos[j] <= p - 1
          /\ new[j] = list[pos[j]]
      BY <1>5, <1>8, <2>3, <3>1
    <3>3. new[m].expires = expires
      BY <1>2, <1>3, <2>3
    <3> QED BY <1>12, <3>2, <3>3
  <2>4. CASE j # p /\ m # p
    <3>1. /\ pos[j] \in 1..Len(list) /\ pos[m] \in 1..Len(list)
          /\ new[j] = list[pos[j]] /\ new[m] = list[pos[m]]
      BY <1>5, <2>4
    <3>2. pos[j] <= pos[m]
      BY <1>6, <1>13
    <3>3. list[pos[j]].expires <= list[pos[m]].expires
      BY <3>1, <3>2 DEF Matches
    <3> QED BY <3>1, <3>3
  <2> QED BY <2>1, <2>2, <2>3, <2>4
<1>14. Matches(new, map2)
  BY <1>3, <1>9, <1>10, <1>11, <1>13 DEF Matches
<1> QED BY <1>14 DEF new, e

(***************************************************************************)
(* What holds of the cache, whoever uses it.                               *)
(***************************************************************************)
CacheTypeOK ==
    /\ now \in Nat
    /\ DOMAIN data \subseteq Keys
    /\ data \in [DOMAIN data -> Nat]
    /\ checkTimer \in Nat \cup {-1}
    /\ due \subseteq {"update", "check"}
    /\ calls \subseteq Pairs

CacheOK ==
    /\ CacheTypeOK
    /\ Matches(sorted, data)
    /\ TimerCoversFirst

LEMMA CacheInit ==
    Cache!Init => CacheOK
<1> SUFFICES ASSUME Cache!Init PROVE CacheOK
  OBVIOUS
<1>1. DOMAIN data = {} /\ sorted = << >>
  BY DEF Cache!Init
<1>2. Matches(sorted, data)
  BY <1>1, MatchesNone
<1>3. CacheTypeOK
  BY <1>1 DEF Cache!Init, Cache!Never, CacheTypeOK
<1>4. TimerCoversFirst
  BY <1>1 DEF TimerCoversFirst, Cache!TimerCoversFirst
<1> QED BY <1>2, <1>3, <1>4 DEF CacheOK

\* An update of the timer that is due is enough for now.
LEMMA UpdateIsDue ==
    ASSUME "update" \in due' PROVE TimerCoversFirst'
BY DEF TimerCoversFirst, Cache!TimerCoversFirst

LEMMA CacheSet ==
    ASSUME CacheOK, NEW k \in Keys, NEW ttl \in Nat, Cache!Set(k, ttl)
    PROVE  CacheOK' /\ DOMAIN data' = DOMAIN data \cup {k} /\ calls' = calls
<1> DEFINE list == Cache!WithoutKey(k)
           map  == Less(data, {k})
<1> USE DEF CacheOK, CacheTypeOK
<1>1. /\ data' = [x \in DOMAIN data \cup {k} |-> IF x = k THEN now + ttl ELSE data[x]]
      /\ Cache!InsertSorted(list, k, now + ttl)
      /\ due' = due \cup {"update"}
      /\ UNCHANGED <<now, checkTimer, calls>>
  BY DEF Cache!Set, Cache!SortedAfterSet, Cache!Present
<1>2. Matches(list, map)
  BY MatchesWithout
<1>3. /\ DOMAIN map = DOMAIN data \ {k}
      /\ \A x \in DOMAIN map : map[x] = data[x]
  BY DEF Less
<1>4. PICK p \in 1..(Len(list) + 1) :
          /\ p > 1 => list[p - 1].expires <= now + ttl
          /\ \A i \in p..Len(list) : list[i].expires > now + ttl
          /\ sorted' = Cache!InsertAt(list, p, [key |-> k, expires |-> now + ttl])
  BY <1>1 DEF Cache!InsertSorted
<1> HIDE DEF list, map
<1>5. /\ DOMAIN data' = DOMAIN map \cup {k}
      /\ data'[k] = now + ttl
      /\ \A x \in DOMAIN map : data'[x] = map[x]
  BY <1>1, <1>3
<1>6. k \notin DOMAIN map /\ now + ttl \in Nat
  BY <1>3
<1>7. Matches(sorted', data')
  <2>1. PlaceFor(list, now + ttl, p)
    BY <1>4 DEF PlaceFor
  <2>2. With(map, k, now + ttl, data')
    BY <1>5, <1>6 DEF With
  <2>3. Matches(Cache!InsertAt(list, p, [key |-> k, expires |-> now + ttl]), data')
    BY <1>2, <1>6, <2>1, <2>2, MatchesInserted
  <2> QED BY <1>4, <2>3
<1>8. CacheTypeOK'
  BY <1>1
<1>9. TimerCoversFirst'
  BY <1>1, UpdateIsDue
<1>10. Matches(sorted, data)' <=> Matches(sorted', data')
  BY DEF Matches
<1> QED BY <1>1, <1>7, <1>8, <1>9, <1>10

LEMMA CacheRemove ==
    ASSUME CacheOK, NEW k, Cache!RemoveKey(k)
    PROVE  /\ CacheOK'
           /\ DOMAIN data' = DOMAIN data \ {k}
           /\ calls' = calls \cup ({k} \cap Pairs)
<1> USE DEF CacheOK, CacheTypeOK
<1>1. /\ data' = Less(data, {k})
      /\ sorted' = Cache!WithoutKey(k)
      /\ due' = due \cup {"update"}
      /\ calls' = calls \cup ({k} \cap Pairs)
      /\ UNCHANGED <<now, checkTimer>>
  BY DEF Cache!RemoveKey, Cache!Callbacks, Cache!Present, Less
<1>2. DOMAIN data' = DOMAIN data \ {k} /\ \A x \in DOMAIN data' : data'[x] = data[x]
  BY <1>1 DEF Less
<1>3. Matches(sorted', data')
  BY <1>1, MatchesWithout
<1>4. CacheTypeOK'
  <2>1. data' \in [DOMAIN data' -> Nat]
    BY <1>1, <1>2 DEF Less
  <2> QED BY <1>1, <1>2, <2>1
<1>5. TimerCoversFirst'
  BY <1>1, UpdateIsDue
<1>6. Matches(sorted, data)' <=> Matches(sorted', data')
  BY DEF Matches
<1> QED BY <1>1, <1>2, <1>3, <1>4, <1>5, <1>6

LEMMA CacheUpdateTimer ==
    ASSUME CacheOK, Cache!UpdateTimer
    PROVE  CacheOK' /\ data' = data /\ calls' = calls
<1> USE DEF CacheOK, CacheTypeOK
<1>1. /\ due' = (due \ {"update"}) \cup Cache!FirstOver
      /\ checkTimer' = IF sorted = << >> \/ Head(sorted).expires <= now
                       THEN -1 ELSE Head(sorted).expires + 1
      /\ UNCHANGED <<now, data, sorted, calls>>
  BY DEF Cache!UpdateTimer, Cache!Never, Cache!TimerForFirst
<1>2. sorted # << >> => Head(sorted).expires \in Nat
  BY HeadTailProperties DEF Matches, Cache!Record
<1>3. CacheTypeOK'
  BY <1>1, <1>2 DEF Cache!FirstOver
<1>4. TimerCoversFirst'
  <2> SUFFICES ASSUME sorted' # << >>, due' = {}
               PROVE  checkTimer' # -1 /\ checkTimer' <= Head(sorted').expires + 1
    BY DEF TimerCoversFirst, Cache!TimerCoversFirst, Cache!Never
  <2>1. ~(Head(sorted).expires <= now)
    BY <1>1 DEF Cache!FirstOver
  <2> QED BY <1>1, <1>2, <2>1
<1>5. Matches(sorted, data)'
  BY <1>1 DEF Matches
<1> QED BY <1>1, <1>3, <1>4, <1>5

LEMMA CacheCheckExpired ==
    ASSUME CacheOK, Cache!CheckExpired
    PROVE  \E gone : /\ CacheOK'
                     /\ gone \subseteq DOMAIN data
                     /\ DOMAIN data' = DOMAIN data \ gone
                     /\ calls' = calls \cup (gone \cap Pairs)
<1> USE DEF CacheOK, CacheTypeOK
<1> DEFINE Gone(n) == {sorted[i].key : i \in 1..n}
<1>1. PICK n \in 0..Len(sorted) :
          /\ \/ checkTimer' = checkTimer
             \/ checkTimer' = -1
          /\ due' \in SUBSET {"update", "check"} /\ "update" \in due'
          /\ calls' = calls \cup (Gone(n) \cap Pairs)
          /\ data' = Less(data, Gone(n))
          /\ sorted' = IF n = Len(sorted) \/ DOMAIN data \subseteq Gone(n) THEN << >>
                       ELSE SubSeq(sorted, n + 1, Len(sorted))
          /\ UNCHANGED now
  BY DEF Cache!CheckExpired, Cache!Callbacks, Cache!Present, Cache!Never, Less
<1>2. Len(sorted) \in Nat
  BY LenProperties DEF Matches
<1>3. Gone(n) \subseteq DOMAIN data
  BY <1>2 DEF Matches
<1>4. n = Len(sorted) => DOMAIN data \subseteq Gone(n)
  BY <1>2 DEF Matches
<1>5. Matches(SubSeq(sorted, n + 1, Len(sorted)), Less(data, Gone(n)))
  BY MatchesRest
<1> DEFINE gone == Gone(n)
<1> HIDE DEF gone, Gone
<1>6. DOMAIN data' = DOMAIN data \ Gone(n) /\ \A x \in DOMAIN data' : data'[x] = data[x]
  BY <1>1 DEF Less
<1>7. Matches(sorted', data')
  <2>1. CASE DOMAIN data \subseteq Gone(n)
    <3>1. DOMAIN data' = {} /\ sorted' = << >>
      BY <1>1, <1>6, <2>1
    <3> QED BY <3>1, MatchesNone
  <2>2. CASE ~(DOMAIN data \subseteq Gone(n))
    BY <1>1, <1>4, <1>5, <2>2
  <2> QED BY <2>1, <2>2
<1>8. CacheTypeOK'
  <2>1. data' \in [DOMAIN data' -> Nat]
    BY <1>1, <1>6 DEF Less
  <2> QED BY <1>1, <1>6, <2>1
<1>9. TimerCoversFirst'
  BY <1>1, UpdateIsDue
<1>10. Matches(sorted, data)' <=> Matches(sorted', data')
  BY DEF Matches
<1> QED BY <1>1, <1>3, <1>6, <1>7, <1>8, <1>9, <1>10

LEMMA CacheFlush ==
    ASSUME CacheOK, Cache!Flush
    PROVE  CacheOK' /\ DOMAIN data' = {} /\ calls' = calls
<1> USE DEF CacheOK, CacheTypeOK
<1>1. /\ DOMAIN data' = {} /\ sorted' = << >>
      /\ data' \in [DOMAIN data' -> Nat]
      /\ checkTimer' = -1
      /\ UNCHANGED <<now, due, calls>>
  BY DEF Cache!Flush, Cache!Never
<1>2. Matches(sorted', data')
  BY <1>1, MatchesNone
<1>3. TimerCoversFirst'
  BY <1>1 DEF TimerCoversFirst, Cache!TimerCoversFirst
<1>4. Matches(sorted, data)' <=> Matches(sorted', data')
  BY DEF Matches
<1> QED BY <1>1, <1>2, <1>3, <1>4

LEMMA CacheOtherSteps ==
    ASSUME CacheOK,
           \/ Cache!Tick
           \/ \E k : Cache!Called(k)
           \/ UNCHANGED vars
    PROVE  CacheOK' /\ data' = data
<1> USE DEF CacheOK, CacheTypeOK
<1>1. /\ UNCHANGED <<data, sorted, checkTimer, due>>
      /\ calls' \subseteq calls
      /\ now' = now \/ now' = now + 1
  BY DEF Cache!Tick, Cache!Called, Cache!cacheVars, vars
<1>2. Matches(sorted, data)'
  BY <1>1 DEF Matches
<1>3. TimerCoversFirst'
  BY <1>1 DEF TimerCoversFirst, Cache!TimerCoversFirst
<1> QED BY <1>1, <1>2, <1>3

\* The array that matches the map has as many records as the map has keys.
LEMMA MatchesSorted ==
    ASSUME CacheOK
    PROVE  Cache!TypeOK /\ SortedMatchesData
<1> USE DEF CacheOK, CacheTypeOK
<1> DEFINE f == [i \in 1..Len(sorted) |-> sorted[i].key]
<1>1. sorted \in Seq(Cache!Record) /\ Len(sorted) \in Nat
  BY LenProperties DEF Matches
<1>2. Cache!TypeOK
  BY <1>1 DEF Cache!TypeOK, Cache!Present, Cache!Never, Keys
<1>3. f \in Bijection(1..Len(sorted), DOMAIN data)
  <2>1. f \in [1..Len(sorted) -> DOMAIN data]
    BY DEF Matches
  <2>2. \A i, j \in 1..Len(sorted) : f[i] = f[j] => i = j
    BY DEF Matches
  <2>3. \A k \in DOMAIN data : \E i \in 1..Len(sorted) : f[i] = k
    BY DEF Matches
  <2> HIDE DEF f
  <2>4. DOMAIN f = 1..Len(sorted)
    BY <2>1
  <2> QED BY <2>1, <2>2, <2>3, <2>4
          DEF Bijection, Injection, Surjection, IsInjective
<1> HIDE DEF f
<1>4. Len(sorted) = Cardinality(DOMAIN data)
  <2>1. IsFiniteSet(1..Len(sorted)) /\ Cardinality(1..Len(sorted)) = Len(sorted)
    <3> DEFINE n == Len(sorted)
    <3> HIDE DEF n
    <3>1. 1 \in Int /\ n \in Nat /\ n \in Int
      BY <1>1 DEF n
    <3>2. /\ IsFiniteSet(1..n)
          /\ Cardinality(1..n) = IF 1 > n THEN 0 ELSE n - 1 + 1
      BY <3>1, FS_Interval
    <3> QED BY <3>1, <3>2 DEF n
  <2>2. ExistsBijection(1..Len(sorted), DOMAIN data)
    BY <1>3 DEF ExistsBijection
  <2> QED BY <2>1, <2>2, FS_Bijection
<1>5. {<<sorted[i].key, sorted[i].expires>> : i \in 1..Len(sorted)}
         = {<<k, data[k]>> : k \in DOMAIN data}
  <2>1. \A i \in 1..Len(sorted) :
           \E k \in DOMAIN data : <<sorted[i].key, sorted[i].expires>> = <<k, data[k]>>
    BY DEF Matches
  <2>2. \A k \in DOMAIN data : \E i \in 1..Len(sorted) :
           <<sorted[i].key, sorted[i].expires>> = <<k, data[k]>>
    <3> TAKE k \in DOMAIN data
    <3>1. PICK i \in 1..Len(sorted) : sorted[i].key = k
      BY DEF Matches
    <3>2. sorted[i].expires = data[k]
      BY <3>1 DEF Matches
    <3> QED BY <3>1, <3>2
  <2> DEFINE records == {<<sorted[i].key, sorted[i].expires>> : i \in 1..Len(sorted)}
             entries == {<<k, data[k]>> : k \in DOMAIN data}
  <2>3. records \subseteq entries
    BY <2>1
  <2>4. entries \subseteq records
    BY <2>2
  <2> QED BY <2>3, <2>4
<1>6. ASSUME NEW i \in 1..(Len(sorted) - 1)
      PROVE  sorted[i].expires <= sorted[i + 1].expires
  <2>1. i \in 1..Len(sorted) /\ i + 1 \in 1..Len(sorted) /\ i <= i + 1
    BY <1>1
  <2> QED BY <2>1 DEF Matches
<1> QED BY <1>2, <1>4, <1>5, <1>6
        DEF SortedMatchesData, Cache!SortedMatchesData, Cache!Present,
            Cardinality, Cache!Cardinality

(***************************************************************************)
(* The addresses that the back-off of the master has disabled.             *)
(***************************************************************************)

\* A pair that is waiting for its time, or for its callback, is disabled by
\* that alone, and waits for one of the two.
BackOffOK ==
    /\ disabled \in [Domains -> SUBSET Addresses]
    /\ lost \subseteq Pairs
    /\ \A p \in Pairs :
          p \in DOMAIN data \cup calls => p[2] \in disabled[p[1]] \ Configured[p[1]]
    /\ calls \cap DOMAIN data = {}
    /\ \A d \in Domains : Configured[d] \subseteq disabled[d]
    /\ \A p \in Pairs :
          p[2] \in disabled[p[1]] \ Configured[p[1]] =>
              p \in DOMAIN data \cup calls \cup lost

Inv == CacheOK /\ BackOffOK

LEMMA PairParts ==
    /\ \A p \in Pairs : p = <<p[1], p[2]>> /\ p[1] \in Domains /\ p[2] \in Addresses
    /\ \A d \in Domains, a \in Addresses :
          <<d, a>> \in Pairs /\ <<d, a>>[1] = d /\ <<d, a>>[2] = a
BY DEF Pairs

LEMMA InitInv ==
    ASSUME Init
    PROVE  Inv
<1>1. CacheOK
  BY CacheInit DEF Init
<1>2. DOMAIN data = {} /\ calls = {} /\ disabled = Configured /\ lost = {}
  BY DEF Init, Cache!Init
<1>3. BackOffOK
  BY <1>2, BlacklistAssumption, PairParts DEF BackOffOK
<1> QED BY <1>1, <1>3 DEF Inv

\* The entries of pairs that go have their callback due, and no list changes.
LEMMA BackOffKept ==
    ASSUME BackOffOK, UNCHANGED <<disabled, lost>>,
           NEW gone, DOMAIN data' \cap Pairs = (DOMAIN data \cap Pairs) \ gone,
           calls' = calls \cup (DOMAIN data \cap gone \cap Pairs), calls \subseteq Pairs
    PROVE  BackOffOK'
<1>1. calls' \cap DOMAIN data' = {}
  BY DEF BackOffOK
<1>2. \A p \in Pairs : p \in DOMAIN data' \cup calls' <=> p \in DOMAIN data \cup calls
  OBVIOUS
<1> QED BY <1>1, <1>2 DEF BackOffOK

LEMMA StepDisable ==
    ASSUME Inv, NEW d \in Domains, NEW a \in Addresses, Disable(d, a)
    PROVE  Inv'
<1> DEFINE p == <<d, a>>
<1>1. /\ a \notin disabled[d]
      /\ disabled' = [disabled EXCEPT ![d] = @ \cup {a}]
      /\ Cache!Set(p, BlacklistTtl)
      /\ lost' = lost
  BY DEF Disable
<1>2. p \in Pairs /\ p[1] = d /\ p[2] = a
  BY PairParts
<1> HIDE DEF p
<1>3. p \in Keys /\ BlacklistTtl \in Nat
  BY <1>2, BlacklistAssumption DEF Keys
<1>4. CacheOK' /\ DOMAIN data' = DOMAIN data \cup {p} /\ calls' = calls
  BY <1>1, <1>3, CacheSet DEF Inv
<1>5. a \notin Configured[d] /\ p \notin calls
  BY <1>1, <1>2 DEF Inv, BackOffOK
<1>6. /\ disabled' \in [Domains -> SUBSET Addresses]
      /\ disabled'[d] = disabled[d] \cup {a}
      /\ \A e \in Domains : e # d => disabled'[e] = disabled[e]
  BY <1>1 DEF Inv, BackOffOK
<1>7. ASSUME NEW q \in Pairs, q # p
      PROVE  q[2] \in disabled'[q[1]] <=> q[2] \in disabled[q[1]]
  <2>1. q = <<q[1], q[2]>> /\ q[1] \in Domains
    BY PairParts
  <2>2. q[1] # d \/ q[2] # a
    BY <1>7, <2>1 DEF p
  <2> QED BY <1>6, <2>1, <2>2
<1>8. BackOffOK'
  <2>1. \A q \in Pairs :
           q \in DOMAIN data' \cup calls' => q[2] \in disabled'[q[1]] \ Configured[q[1]]
    BY <1>2, <1>4, <1>5, <1>6, <1>7 DEF Inv, BackOffOK
  <2>2. \A q \in Pairs :
           q[2] \in disabled'[q[1]] \ Configured[q[1]] =>
               q \in DOMAIN data' \cup calls' \cup lost'
    BY <1>1, <1>4, <1>7 DEF Inv, BackOffOK
  <2>3. calls' \cap DOMAIN data' = {}
    BY <1>4, <1>5 DEF Inv, BackOffOK
  <2>4. \A e \in Domains : Configured[e] \subseteq disabled'[e]
    BY <1>6 DEF Inv, BackOffOK
  <2> QED BY <1>1, <1>6, <2>1, <2>2, <2>3, <2>4 DEF Inv, BackOffOK
<1> QED BY <1>4, <1>8 DEF Inv

LEMMA StepRemoveFromBlacklist ==
    ASSUME Inv, NEW d \in Domains, NEW a \in Addresses, RemoveFromBlacklist(d, a)
    PROVE  Inv'
<1> DEFINE p == <<d, a>>
<1>1. /\ Cache!Called(p)
      /\ disabled' = [disabled EXCEPT ![d] = @ \ {a}]
      /\ lost' = lost
  BY DEF RemoveFromBlacklist, WithoutAddress
<1>2. p \in Pairs /\ p[1] = d /\ p[2] = a
  BY PairParts
<1> HIDE DEF p
<1>3. CacheOK' /\ data' = data
  BY <1>1, CacheOtherSteps DEF Inv
<1>4. p \in calls /\ calls' = calls \ {p}
  BY <1>1 DEF Cache!Called
<1>5. a \notin Configured[d] /\ p \notin DOMAIN data
  BY <1>2, <1>4 DEF Inv, BackOffOK
<1>6. /\ disabled' \in [Domains -> SUBSET Addresses]
      /\ disabled'[d] = disabled[d] \ {a}
      /\ \A e \in Domains : e # d => disabled'[e] = disabled[e]
  BY <1>1 DEF Inv, BackOffOK
<1>7. ASSUME NEW q \in Pairs, q # p
      PROVE  q[2] \in disabled'[q[1]] <=> q[2] \in disabled[q[1]]
  <2>1. q = <<q[1], q[2]>> /\ q[1] \in Domains
    BY PairParts
  <2>2. q[1] # d \/ q[2] # a
    BY <1>7, <2>1 DEF p
  <2> QED BY <1>6, <2>1, <2>2
<1>8. BackOffOK'
  <2>1. \A q \in Pairs :
           q \in DOMAIN data' \cup calls' => q[2] \in disabled'[q[1]] \ Configured[q[1]]
    BY <1>3, <1>4, <1>5, <1>7 DEF Inv, BackOffOK
  <2>2. \A q \in Pairs :
           q[2] \in disabled'[q[1]] \ Configured[q[1]] =>
               q \in DOMAIN data' \cup calls' \cup lost'
    <3> TAKE q \in Pairs
    <3>1. CASE q = p
      BY <1>2, <1>6, <3>1
    <3>2. CASE q # p
      BY <1>1, <1>3, <1>4, <1>7, <3>2 DEF Inv, BackOffOK
    <3> QED BY <3>1, <3>2
  <2>3. calls' \cap DOMAIN data' = {}
    BY <1>3, <1>4 DEF Inv, BackOffOK
  <2>4. \A e \in Domains : Configured[e] \subseteq disabled'[e]
    BY <1>5, <1>6 DEF Inv, BackOffOK
  <2> QED BY <1>1, <1>6, <2>1, <2>2, <2>3, <2>4 DEF Inv, BackOffOK
<1> QED BY <1>3, <1>8 DEF Inv

LEMMA StepUseCache ==
    ASSUME Inv, NEW k \in OtherKeys, UseCache(k)
    PROVE  Inv'
<1>1. k \in Keys /\ k \notin Pairs /\ OtherTtls \subseteq Nat
  BY BlacklistAssumption DEF Keys
<1>2. CASE Cache!RemoveKey(k)
  <2>1. /\ CacheOK'
        /\ DOMAIN data' = DOMAIN data \ {k}
        /\ calls' = calls \cup ({k} \cap Pairs)
    BY <1>2, CacheRemove DEF Inv
  <2>2. DOMAIN data' \cap Pairs = (DOMAIN data \cap Pairs) \ {k}
    BY <2>1
  <2>3. calls' = calls \cup (DOMAIN data \cap {k} \cap Pairs)
    BY <1>1, <2>1
  <2>4. BackOffOK'
    BY <2>2, <2>3, BackOffKept DEF Inv, UseCache, CacheOK, CacheTypeOK
  <2> QED BY <2>1, <2>4 DEF Inv
<1>3. CASE \E ttl \in OtherTtls : Cache!Set(k, ttl)
  <2>1. CacheOK' /\ DOMAIN data' = DOMAIN data \cup {k} /\ calls' = calls
    BY <1>1, <1>3, CacheSet DEF Inv
  <2>2. DOMAIN data' \cap Pairs = (DOMAIN data \cap Pairs) \ {k}
    BY <1>1, <2>1
  <2>3. BackOffOK'
    BY <1>1, <2>1, <2>2, BackOffKept DEF Inv, UseCache, CacheOK, CacheTypeOK
  <2> QED BY <2>1, <2>3 DEF Inv
<1> QED BY <1>2, <1>3 DEF UseCache, Cache!Get, Cache!SetNothing

LEMMA StepCheckExpired ==
    ASSUME Inv, CheckExpired
    PROVE  Inv'
<1>1. PICK gone : /\ CacheOK'
                  /\ gone \subseteq DOMAIN data
                  /\ DOMAIN data' = DOMAIN data \ gone
                  /\ calls' = calls \cup (gone \cap Pairs)
  BY CacheCheckExpired DEF Inv, CheckExpired
<1>2. UNCHANGED <<disabled, lost>> /\ calls \subseteq Pairs
  BY DEF CheckExpired, Inv, CacheOK, CacheTypeOK
<1>3. BackOffOK'
  BY <1>1, <1>2, BackOffKept DEF Inv
<1> QED BY <1>1, <1>3 DEF Inv

LEMMA StepReload ==
    ASSUME Inv, Reload
    PROVE  Inv'
<1>1. CacheOK' /\ DOMAIN data' = {} /\ calls' = calls
  BY CacheFlush DEF Inv, Reload
<1>2. disabled' = disabled /\ lost' = lost \cup (Pairs \cap DOMAIN data)
  BY DEF Reload
<1>3. BackOffOK'
  BY <1>1, <1>2 DEF Inv, BackOffOK
<1> QED BY <1>1, <1>3 DEF Inv

LEMMA StepOther ==
    ASSUME Inv, UpdateTimer \/ Tick \/ UNCHANGED vars
    PROVE  Inv'
<1>1. CacheOK' /\ data' = data /\ calls' = calls
  <2>1. CASE UpdateTimer
    BY <2>1, CacheUpdateTimer DEF Inv, UpdateTimer
  <2>2. CASE Tick
    BY <2>2, CacheOtherSteps DEF Inv, Tick, Cache!Tick, Cache!cacheVars
  <2>3. CASE UNCHANGED vars
    BY <2>3, CacheOtherSteps DEF Inv, vars
  <2> QED BY <2>1, <2>2, <2>3
<1>2. UNCHANGED <<disabled, lost>>
  BY DEF UpdateTimer, Tick, vars
<1>3. BackOffOK'
  BY <1>1, <1>2 DEF Inv, BackOffOK
<1> QED BY <1>1, <1>3 DEF Inv

LEMMA NextInv ==
    ASSUME Inv, [Next]_vars
    PROVE  Inv'
<1>1. CASE \E d \in Domains, a \in Addresses : Disable(d, a)
  BY <1>1, StepDisable
<1>2. CASE Called
  BY <1>2, StepRemoveFromBlacklist DEF Called
<1>3. CASE \E k \in OtherKeys : UseCache(k)
  BY <1>3, StepUseCache
<1>4. CASE CheckExpired
  BY <1>4, StepCheckExpired
<1>5. CASE Reload
  BY <1>5, StepReload
<1>6. CASE UpdateTimer \/ Tick \/ UNCHANGED vars
  BY <1>6, StepOther
<1> QED BY <1>1, <1>2, <1>3, <1>4, <1>5, <1>6 DEF Next

LEMMA Invariant == Spec => []Inv
<1>1. Init => Inv
  BY InitInv
<1>2. Inv /\ [Next]_vars => Inv'
  BY NextInv
<1> QED BY <1>1, <1>2, PTL DEF Spec

\* Whatever the keys and their times: the array of the cache lists the entries
\* of its map, once and in the order in which they expire, and its one timer
\* covers the first of them, after every set, get, remove, flush and check of
\* lib/ttl-cache.js.
THEOREM ConsistentHolds == Spec => []Consistent
<1>1. Inv => Consistent
  <2> SUFFICES ASSUME Inv PROVE Consistent
    OBVIOUS
  <2>1. Cache!TypeOK /\ SortedMatchesData
    BY MatchesSorted DEF Inv
  <2>2. TypeOK
    BY <2>1 DEF TypeOK, Inv, BackOffOK
  <2> QED BY <2>1, <2>2 DEF Consistent, Inv, CacheOK
<1> QED BY <1>1, Invariant, PTL

\* deferDelivery, the callbacks of the cache and the reload keep the lists of
\* disabled addresses and the entries of the cache in step: an address stays
\* disabled as long as its entry is there, and one that is disabled without the
\* configuration has an entry, or a callback, that ends it.
THEOREM BackOffMatchesCacheHolds == Spec => []BackOffMatchesCache
<1>1. Inv => BackOffMatchesCache
  <2> SUFFICES ASSUME Inv PROVE BackOffMatchesCache
    OBVIOUS
  <2>1. BackOffEnds
    BY DEF BackOffEnds, BackedOff, Inv, BackOffOK
  <2>2. BackOffHolds
    BY DEF BackOffHolds, Inv, BackOffOK
  <2> QED BY <2>1, <2>2 DEF BackOffMatchesCache
<1> QED BY <1>1, Invariant, PTL
=============================================================================
