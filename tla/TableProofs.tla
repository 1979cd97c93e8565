------------------------------ MODULE TableProofs ------------------------------
(***************************************************************************)
(* Proofs about the tables in memory: RouteCache, for any handlers, trips, *)
(* capacity and number of changes, TTLCache, for any names, getters and    *)
(* instants, TrafficAnalytics, for any limit, times and records, and       *)
(* TenantQuota, for any callers, registrations, policies and window.       *)
(***************************************************************************)
EXTENDS Integers, RouteCache, TTLCache, TrafficAnalytics, TenantQuota, CollectionLemmas,
        FiniteSetTheorems

-------------------------------------------------------------------------------
(* The list of the LRU cache                                               *)

(* "new" is a sequence over S, s with x in front in the place of its       *)
(* element at q, or with x put in front when q is behind its last.         *)
IsInFront(S, new, s, x, q) ==
    /\ new \in Seq(S)
    /\ Len(new) = IF q <= Len(s) THEN Len(s) ELSE Len(s) + 1
    /\ new[1] = x
    /\ \A i \in 2 .. q : new[i] = s[i - 1]
    /\ \A i \in (q + 1) .. Len(s) : new[i] = s[i]

LEMMA Prepended ==
    ASSUME NEW S, NEW s \in Seq(S), NEW x \in S
    PROVE  /\ <<x>> \o s \in Seq(S)
           /\ Len(<<x>> \o s) = Len(s) + 1
           /\ (<<x>> \o s)[1] = x
           /\ \A i \in 2 .. (Len(s) + 1) : (<<x>> \o s)[i] = s[i - 1]
  OBVIOUS

LEMMA MovedToFront ==
    ASSUME NEW S, NEW s \in Seq(S), NEW x \in S, NEW q \in 1 .. Len(s)
    PROVE  IsInFront(S, <<x>> \o RemoveAt(s, q), s, x, q)
<1> DEFINE n == Len(s)
           rest == RemoveAt(s, q)
           new == <<x>> \o rest
<1>1. IsRemoval(S, rest, s, q)
  BY Removed, Zenon
<1>2. /\ n \in Nat /\ q \in 1 .. n
      /\ rest \in Seq(S) /\ Len(rest) = n - 1
      /\ \A i \in 1 .. (q - 1) : rest[i] = s[i]
      /\ \A i \in q .. (n - 1) : rest[i] = s[i + 1]
  BY <1>1 DEF IsRemoval
<1> HIDE DEF n, rest
<1>3. /\ new \in Seq(S) /\ Len(new) = Len(rest) + 1 /\ new[1] = x
      /\ \A i \in 2 .. (Len(rest) + 1) : new[i] = rest[i - 1]
  BY <1>2
<1> HIDE DEF new
<1>4. Len(new) = n
  BY <1>2, <1>3
<1>5. ASSUME NEW i \in 2 .. q PROVE new[i] = s[i - 1]
  <2>1. i \in 2 .. (Len(rest) + 1) /\ i - 1 \in 1 .. (q - 1)
    BY <1>2
  <2> QED  BY <1>2, <1>3, <2>1
<1>6. ASSUME NEW i \in (q + 1) .. n PROVE new[i] = s[i]
  <2>1. i \in 2 .. (Len(rest) + 1) /\ i - 1 \in q .. (n - 1) /\ (i - 1) + 1 = i
    BY <1>2
  <2>2. new[i] = rest[i - 1] /\ rest[i - 1] = s[(i - 1) + 1]
    BY <1>2, <1>3, <2>1, Zenon
  <2> QED  BY <2>1, <2>2
<1>7. q <= n
  BY <1>2
<1>8. IsInFront(S, new, s, x, q)
  BY <1>3, <1>4, <1>5, <1>6, <1>7 DEF IsInFront, n
<1> QED  BY <1>8 DEF new, rest

LEMMA PutInFront ==
    ASSUME NEW S, NEW s \in Seq(S), NEW x \in S
    PROVE  IsInFront(S, <<x>> \o s, s, x, Len(s) + 1)
<1> DEFINE n == Len(s)
           new == <<x>> \o s
<1>1. /\ n \in Nat /\ new \in Seq(S) /\ Len(new) = n + 1 /\ new[1] = x
      /\ \A i \in 2 .. (n + 1) : new[i] = s[i - 1]
  OBVIOUS
<1> HIDE DEF n, new
<1>2. ~ (n + 1 <= n) /\ \A i \in ((n + 1) + 1) .. n : FALSE
  BY <1>1
<1>3. IsInFront(S, new, s, x, n + 1)
  BY <1>1, <1>2 DEF IsInFront, n
<1> QED  BY <1>3 DEF n, new

(* Where the list of the cache, or the history of the keys, puts a key.    *)
LEMMA ToFrontMoves ==
    ASSUME NEW S, NEW list \in Seq(S), NEW keys, DOMAIN keys = 1 .. Len(list),
           NEW x \in S, NEW key
    PROVE  \E q \in 1 .. (Len(list) + 1) :
              /\ IsInFront(S, ToFront(x, list, keys, key), list, x, q)
              /\ q <= Len(list) => keys[q] = key /\ PlaceIn(keys, key) = q
              /\ key \notin ToSet(keys) <=> q = Len(list) + 1
<1>1. CASE key \in ToSet(keys)
  <2> DEFINE q == PlaceIn(keys, key)
  <2>1. \E i \in DOMAIN keys : keys[i] = key
    BY <1>1 DEF ToSet
  <2>2. q \in DOMAIN keys /\ keys[q] = key
    BY <2>1 DEF PlaceIn
  <2>3. q \in 1 .. Len(list)
    BY <2>2
  <2>4. IsInFront(S, <<x>> \o RemoveAt(list, q), list, x, q)
    BY <2>3, MovedToFront, Zenon
  <2>5. ToFront(x, list, keys, key) = <<x>> \o RemoveAt(list, q)
    BY <1>1 DEF ToFront
  <2> HIDE DEF q
  <2>6. q \in 1 .. (Len(list) + 1) /\ q # Len(list) + 1
    BY <2>3
  <2> QED  BY <1>1, <2>2, <2>4, <2>5, <2>6 DEF q
<1>2. CASE key \notin ToSet(keys)
  <2>1. IsInFront(S, <<x>> \o list, list, x, Len(list) + 1)
    BY PutInFront, Zenon
  <2>2. ToFront(x, list, keys, key) = <<x>> \o list
    BY <1>2 DEF ToFront
  <2>3. Len(list) + 1 \in 1 .. (Len(list) + 1) /\ ~ (Len(list) + 1 <= Len(list))
    OBVIOUS
  <2> QED  BY <1>2, <2>1, <2>2, <2>3
<1> QED  BY <1>1, <1>2

LEMMA Smaller ==
    ASSUME NEW a \in Nat, NEW b \in Nat
    PROVE  Min({a, b}) = IF a <= b THEN a ELSE b
<1> DEFINE both == {a, b}
<1>1. Min(both) \in both /\ \A x \in both : Min(both) <= x
  <2>1. both \subseteq Nat /\ both # {}
    OBVIOUS
  <2> QED  BY <2>1, LeastNumber
<1> QED  BY <1>1

-------------------------------------------------------------------------------
(* The route cache.  The list agrees with the history of the keys, which   *)
(* names each once; what a handler puts was computed from what it has      *)
(* read.                                                                   *)

Entries == [key : Trips, value : Values]

RecentOnce == \A i, j \in 1 .. Len(recent) : recent[i] = recent[j] => i = j

Agrees ==
    /\ Len(order) = Min({Len(recent), Capacity})
    /\ \A i \in 1 .. Len(order) : order[i].key = recent[i]

Computed(entry) ==
    /\ routeCacheKey(entry.value.request) = entry.key
    /\ entry.value.snapshot.graph \in 1 .. graph
    /\ entry.value.snapshot.incidents <= incidents

HandlersHaveRead ==
    \A h \in Handlers :
        /\ pc[h] # "idle" => asked[h] \in Requests
        /\ pc[h] \in {"incidents", "route"} => snapshot[h].graph \in 1 .. graph
        /\ pc[h] = "route" => snapshot[h].incidents <= incidents

RoutingInv ==
    /\ RoutingTypeOK
    /\ RecentOnce
    /\ Agrees
    /\ EntriesAreComputed
    /\ HandlersHaveRead

LEMMA RoutingInvInit == RoutingInit => RoutingInv
<1> SUFFICES ASSUME RoutingInit PROVE RoutingInv
  OBVIOUS
<1>1. order = <<>> /\ recent = <<>> /\ Len(order) = 0 /\ Len(recent) = 0
  BY DEF RoutingInit
<1>2. order \in Seq(Entries) /\ recent \in Seq(Trips)
  BY <1>1
<1>3. /\ graph = 0 /\ incidents = 0
      /\ pc = [h \in Handlers |-> "idle"]
      /\ asked = [h \in Handlers |-> Nothing]
      /\ snapshot = [h \in Handlers |-> Unread]
      /\ answer = [h \in Handlers |-> Nothing]
  BY DEF RoutingInit
<1>4. 0 \in Versions /\ Unread \in Snapshots
  BY MaxVersionAssumption DEF Versions, Unread, Snapshots
<1>5. RoutingTypeOK
  <2>1. /\ pc \in [Handlers -> {"idle", "graph", "incidents", "route", "answered"}]
        /\ asked \in [Handlers -> Requests \union {Nothing}]
        /\ snapshot \in [Handlers -> Snapshots]
        /\ answer \in [Handlers -> Values \union {Nothing}]
    BY <1>3, <1>4
  <2> QED  BY <1>2, <1>3, <1>4, <2>1 DEF RoutingTypeOK, Entries
<1>6. Min({0, Capacity}) = 0
  BY CapacityAssumption, Smaller
<1>7. RecentOnce /\ Agrees /\ EntriesAreComputed
  BY <1>1, <1>6 DEF RecentOnce, Agrees, EntriesAreComputed
<1>8. HandlersHaveRead
  BY <1>3 DEF HandlersHaveRead
<1> QED  BY <1>5, <1>7, <1>8 DEF RoutingInv

LEMMA KeysOfOrder ==
    ASSUME order \in Seq(Entries)
    PROVE  /\ DOMAIN Keys = 1 .. Len(order)
           /\ \A i \in 1 .. Len(order) : Keys[i] = order[i].key
           /\ \A key : key \in Cached <=> \E i \in 1 .. Len(order) : order[i].key = key
  BY DEF Keys, Cached, ToSet

(* What the capacity leaves of a list.                                     *)
KeepsFrontOf(entries) ==
    /\ order' \in Seq(Entries)
    /\ Len(order') = Min({Len(entries), Capacity})
    /\ \A i \in 1 .. Len(order') : order'[i] = entries[i]

(* Get and Put use a key: it comes to the front of both, and what the      *)
(* capacity cuts is what was used longest ago.                             *)
LEMMA UseOfKey ==
    ASSUME RoutingTypeOK, RecentOnce, Agrees,
           NEW key \in Trips, NEW entry \in Entries, entry.key = key,
           NEW entries, entries = ToFront(entry, order, Keys, key),
           KeepsFrontOf(entries),
           Used(key)
    PROVE  /\ order' \in Seq(Entries)
           /\ recent' \in Seq(Trips)
           /\ RecentOnce'
           /\ Agrees'
           /\ \A i \in 1 .. Len(order') :
                 order'[i] = entry \/ \E j \in 1 .. Len(order) : order'[i] = order[j]
<1> USE DEF KeepsFrontOf
<1> DEFINE n == Len(order)
           m == Len(recent)
<1>1. /\ order \in Seq(Entries) /\ n \in Nat
      /\ recent \in Seq(Trips) /\ m \in Nat /\ DOMAIN recent = 1 .. m
  BY DEF RoutingTypeOK, Entries
<1>2. /\ DOMAIN Keys = 1 .. Len(order)
      /\ \A i \in 1 .. n : Keys[i] = recent[i]
  BY <1>1, KeysOfOrder DEF Agrees
<1>3. PICK p \in 1 .. (n + 1) :
         /\ IsInFront(Entries, entries, order, entry, p)
         /\ p <= n => Keys[p] = key
         /\ key \notin ToSet(Keys) <=> p = n + 1
  BY <1>1, <1>2, ToFrontMoves
<1>4. PICK q \in 1 .. (m + 1) :
         /\ IsInFront(Trips, recent', recent, key, q)
         /\ q <= m => recent[q] = key
         /\ key \notin ToSet(recent) <=> q = m + 1
  BY <1>1, ToFrontMoves DEF Used
<1> HIDE DEF n, m
<1>5. /\ n = (IF m <= Capacity THEN m ELSE Capacity)
      /\ n <= m /\ n <= Capacity /\ Capacity \in Nat \ {0}
  <2>1. Capacity \in Nat \ {0}
    BY CapacityAssumption
  <2>2. n = Min({m, Capacity})
    BY DEF Agrees, n, m
  <2>3. Min({m, Capacity}) = IF m <= Capacity THEN m ELSE Capacity
    BY <1>1, <2>1, Smaller
  <2> QED  BY <1>1, <2>1, <2>2, <2>3
<1>6. /\ entries \in Seq(Entries)
      /\ Len(entries) = IF p <= n THEN n ELSE n + 1
      /\ entries[1] = entry
      /\ \A i \in 2 .. p : entries[i] = order[i - 1]
      /\ \A i \in (p + 1) .. n : entries[i] = order[i]
  BY <1>3 DEF IsInFront, n
<1>7. PICK new : new = recent'
  OBVIOUS
<1>8. /\ new \in Seq(Trips)
      /\ Len(new) = IF q <= m THEN m ELSE m + 1
      /\ new[1] = key
      /\ \A i \in 2 .. q : new[i] = recent[i - 1]
      /\ \A i \in (q + 1) .. m : new[i] = recent[i]
  BY <1>4, <1>7 DEF IsInFront, m
<1>9. \A i, j \in 1 .. m : recent[i] = recent[j] => i = j
  BY DEF RecentOnce, m
<1>10. \/ p <= n /\ q = p
       \/ p = n + 1 /\ q >= n + 1
  <2>1. CASE p <= n
    <3>1. p \in 1 .. n /\ p \in 1 .. m /\ recent[p] = key
      BY <1>1, <1>2, <1>3, <1>5, <2>1
    <3>2. key \in ToSet(recent)
      BY <1>1, <3>1 DEF ToSet
    <3>3. q \in 1 .. m /\ recent[q] = key
      BY <1>1, <1>4, <3>2
    <3> QED  BY <1>9, <2>1, <3>1, <3>3
  <2>2. CASE ~ (p <= n)
    <3>1. p = n + 1 /\ key \notin ToSet(Keys)
      BY <1>1, <1>3, <2>2
    <3>2. ASSUME q <= n PROVE FALSE
      <4>1. q \in 1 .. n /\ q <= m
        BY <1>1, <1>5, <3>2
      <4>2. Keys[q] = key /\ q \in DOMAIN Keys
        BY <1>2, <1>4, <4>1 DEF n
      <4> QED  BY <3>1, <4>2 DEF ToSet
    <3> QED  BY <1>1, <3>1, <3>2
  <2> QED  BY <2>1, <2>2
<1>11. PICK kept, len, full :
         /\ kept = order' /\ len = Len(order') /\ full = Len(entries)
  OBVIOUS
<1>12. /\ full = (IF p <= n THEN n ELSE n + 1)
       /\ len = IF full <= Capacity THEN full ELSE Capacity
  <2>1. full \in Nat
    BY <1>6, <1>11
  <2>2. len = Min({full, Capacity})
    BY <1>11
  <2>3. Min({full, Capacity}) = IF full <= Capacity THEN full ELSE Capacity
    BY <1>5, <2>1, Smaller
  <2> QED  BY <1>6, <1>11, <2>2, <2>3
<1>13. /\ len <= full /\ len \in Nat /\ full \in Nat
       /\ \A i \in 1 .. len : kept[i] = entries[i]
  <2>1. full \in Nat
    BY <1>6, <1>11
  <2>2. len <= full /\ len \in Nat
    BY <1>5, <1>12, <2>1
  <2> QED  BY <1>11, <2>1, <2>2
<1>14. \A i \in 1 .. n : order[i].key = recent[i]
  BY DEF Agrees, n
<1>15. len = Min({Len(new), Capacity})
  <2>1. PICK l : l = Len(new)
    OBVIOUS
  <2>2. l \in Nat /\ l = IF q <= m THEN m ELSE m + 1
    BY <1>8, <2>1
  <2>3. Min({l, Capacity}) = IF l <= Capacity THEN l ELSE Capacity
    BY <1>5, <2>2, Smaller
  <2>4. CASE p <= n /\ q = p
    <3>1. full = n /\ len = n /\ l = m
      BY <1>1, <1>5, <1>12, <2>2, <2>4
    <3> QED  BY <1>5, <2>1, <2>3, <3>1
  <2>5. CASE p = n + 1 /\ q >= n + 1
    <3>1. full = n + 1
      BY <1>1, <1>12, <2>5
    <3>2. CASE n < Capacity
      <4>1. n = m /\ len = n + 1 /\ l = n + 1
        BY <1>1, <1>5, <1>12, <2>2, <2>5, <3>1, <3>2
      <4> QED  BY <1>1, <1>5, <2>1, <2>3, <3>2, <4>1
    <3>3. CASE n = Capacity
      <4>1. len = Capacity /\ l >= Capacity
        BY <1>1, <1>5, <1>12, <2>2, <3>1, <3>3
      <4> QED  BY <1>1, <1>5, <2>1, <2>2, <2>3, <4>1
    <3> QED  BY <1>1, <1>5, <3>2, <3>3
  <2> QED  BY <1>10, <2>4, <2>5
<1>16. ASSUME NEW i \in 1 .. len PROVE kept[i].key = new[i]
  <2>1. kept[i] = entries[i] /\ i <= full /\ i \in Nat
    BY <1>13, <1>16
  <2>2. CASE i = 1
    BY <1>6, <1>8, <2>1, <2>2
  <2>3. CASE i # 1 /\ i <= p
    <3>1. i \in 2 .. p /\ i \in 2 .. q /\ i - 1 \in 1 .. n
      BY <1>1, <1>10, <1>13, <2>1, <2>3
    <3> QED  BY <1>6, <1>8, <1>14, <2>1, <3>1
  <2>4. CASE i > p
    <3>1. p <= n /\ q = p /\ i \in (p + 1) .. n /\ i \in (q + 1) .. m /\ i \in 1 .. n
      BY <1>1, <1>5, <1>10, <1>12, <1>13, <2>1, <2>4
    <3> QED  BY <1>6, <1>8, <1>14, <2>1, <3>1
  <2> QED  BY <1>1, <2>1, <2>2, <2>3, <2>4
<1>17. ASSUME NEW i \in 1 .. len
       PROVE  kept[i] = entry \/ \E j \in 1 .. n : kept[i] = order[j]
  <2>1. kept[i] = entries[i] /\ i <= full /\ i \in Nat
    BY <1>13, <1>17
  <2>2. CASE i = 1
    BY <1>6, <2>1, <2>2
  <2>3. CASE i # 1 /\ i <= p
    <3>1. i \in 2 .. p /\ i - 1 \in 1 .. n
      BY <1>1, <1>10, <1>13, <2>1, <2>3
    <3> QED  BY <1>6, <2>1, <3>1
  <2>4. CASE i > p
    <3>1. i \in (p + 1) .. n /\ i \in 1 .. n
      BY <1>1, <1>5, <1>10, <1>12, <1>13, <2>1, <2>4
    <3> QED  BY <1>6, <2>1, <3>1
  <2> QED  BY <1>1, <2>1, <2>2, <2>3, <2>4
<1>18. \A i \in 1 .. m : recent[i] = key => i = q
  <2> SUFFICES ASSUME NEW i \in 1 .. m, recent[i] = key PROVE i = q
    OBVIOUS
  <2>1. key \in ToSet(recent)
    BY <1>1 DEF ToSet
  <2>2. q \in 1 .. m /\ recent[q] = key
    BY <1>1, <1>4, <2>1
  <2> QED  BY <1>9, <2>2
(* The place in the old history of what is behind the first in the new.    *)
<1>19. ASSUME NEW i \in 1 .. Len(new), i # 1
       PROVE  \E k \in 1 .. m : /\ new[i] = recent[k] /\ k # q
                                /\ k = IF i <= q THEN i - 1 ELSE i
  <2>1. CASE i <= q
    <3>1. i \in 2 .. q /\ i - 1 \in 1 .. m /\ i - 1 # q
      BY <1>1, <1>8, <1>19, <2>1
    <3> QED  BY <1>8, <2>1, <3>1
  <2>2. CASE ~ (i <= q)
    <3>1. i \in (q + 1) .. m /\ i \in 1 .. m /\ i # q
      BY <1>1, <1>8, <2>2
    <3> QED  BY <1>8, <2>2, <3>1
  <2> QED  BY <2>1, <2>2
<1>20. RecentOnce'
  <2> SUFFICES ASSUME NEW i \in 1 .. Len(new), NEW j \in 1 .. Len(new), new[i] = new[j]
               PROVE  i = j
    BY <1>7 DEF RecentOnce
  <2>1. ASSUME NEW k \in 1 .. Len(new), k # 1 PROVE new[k] # key
    BY <1>18, <1>19, <2>1
  <2>2. CASE i # 1 /\ j # 1
    <3>1. PICK k \in 1 .. m : new[i] = recent[k] /\ k = IF i <= q THEN i - 1 ELSE i
      BY <1>19, <2>2
    <3>2. PICK l \in 1 .. m : new[j] = recent[l] /\ l = IF j <= q THEN j - 1 ELSE j
      BY <1>19, <2>2
    <3>3. k = l
      BY <1>9, <3>1, <3>2
    <3>4. k # q /\ l # q
      BY <1>19, <2>2, <3>1, <3>2
    <3>5. Len(new) \in Nat /\ i \in Nat /\ j \in Nat /\ q \in Nat
      BY <1>1, <1>8
    <3> QED  BY <3>1, <3>2, <3>3, <3>4, <3>5
  <2> QED  BY <1>8, <2>1, <2>2
<1>21. Agrees'
  BY <1>7, <1>11, <1>16, <1>15 DEF Agrees
<1> QED  BY <1>7, <1>8, <1>11, <1>17, <1>20, <1>21 DEF n

LEMMA RoutingInvStep == RoutingInv /\ [RoutingNext]_routingVars => RoutingInv'
<1> SUFFICES ASSUME RoutingInv, [RoutingNext]_routingVars PROVE RoutingInv'
  OBVIOUS
<1> USE DEF RoutingInv
<1>1. /\ graph \in Versions /\ incidents \in Versions /\ Versions \subseteq Nat
      /\ order \in Seq(Entries) /\ recent \in Seq(Trips)
      /\ pc \in [Handlers -> {"idle", "graph", "incidents", "route", "answered"}]
      /\ asked \in [Handlers -> Requests \union {Nothing}]
      /\ snapshot \in [Handlers -> Snapshots]
      /\ answer \in [Handlers -> Values \union {Nothing}]
  BY MaxVersionAssumption DEF RoutingTypeOK, Entries, Versions
<1>2. \A i \in 1 .. Len(order) : Computed(order[i])
  BY DEF EntriesAreComputed, Computed
<1>3. ASSUME graph' \in Versions, incidents' \in Versions, graph <= graph', incidents <= incidents',
             NEW entry \in Entries, Computed(entry)
      PROVE  Computed(entry)'
  <2>1. /\ entry.value.snapshot.graph \in Nat /\ entry.value.snapshot.incidents \in Nat
    BY <1>1 DEF Entries, Values, Snapshots
  <2> QED  BY <1>1, <1>3, <2>1 DEF Computed
(* The steps that leave the cache alone.                                   *)
<1>4. ASSUME UNCHANGED cache, graph' \in Versions, incidents' \in Versions,
             graph <= graph', incidents <= incidents'
      PROVE  order' \in Seq(Entries) /\ recent' \in Seq(Trips)
             /\ RecentOnce' /\ Agrees' /\ EntriesAreComputed'
  <2>1. order' = order /\ recent' = recent
    BY <1>4 DEF cache
  <2>2. \A i \in 1 .. Len(order) : order[i] \in Entries
    BY <1>1
  <2>3. \A i \in 1 .. Len(order) : Computed(order[i])'
    BY <1>1, <1>2, <1>3, <1>4, <2>1, <2>2
  <2> QED
    BY <1>1, <2>1, <2>3 DEF RecentOnce, Agrees, EntriesAreComputed, Computed
<1>5. CASE ImportGraph \/ ChangeIncident
  <2>1. /\ graph' \in Versions /\ incidents' \in Versions
        /\ graph <= graph' /\ incidents <= incidents'
        /\ UNCHANGED <<cache, pc, asked, snapshot, answer>>
    BY <1>1, <1>5, MaxVersionAssumption DEF ImportGraph, ChangeIncident, Versions
  <2>2. HandlersHaveRead'
    <3> SUFFICES ASSUME NEW h \in Handlers PROVE HandlersHaveRead!(h)'
      BY DEF HandlersHaveRead
    <3>1. snapshot[h].graph \in Nat /\ snapshot[h].incidents \in Nat
      BY <1>1 DEF Snapshots
    <3> QED  BY <1>1, <2>1, <3>1 DEF HandlersHaveRead
  <2> QED  BY <1>1, <1>4, <2>1, <2>2 DEF RoutingTypeOK, Entries
<1>6. ASSUME NEW h \in Handlers, NEW request \in Requests, Hit(h, request) PROVE RoutingInv'
  <2> DEFINE key == routeCacheKey(request)
             entry == EntryOf(key)
  <2>1. /\ key \in Cached /\ key \in Trips
        /\ order' = ToFront(entry, order, Keys, key) /\ Used(key)
        /\ answer' = [answer EXCEPT ![h] = entry.value]
        /\ asked' = [asked EXCEPT ![h] = request]
        /\ pc' = [pc EXCEPT ![h] = "answered"]
        /\ UNCHANGED <<graph, incidents, snapshot>>
    BY <1>6 DEF Hit, Get, Promoted, data, routeCacheKey, Requests
  <2>2. PICK i \in 1 .. Len(order) : entry = order[i] /\ order[i].key = key
    <3>1. \E i \in DOMAIN Keys : Keys[i] = key
      BY <1>1, <2>1, KeysOfOrder
    <3>2. PlaceIn(Keys, key) \in DOMAIN Keys /\ Keys[PlaceIn(Keys, key)] = key
      BY <3>1 DEF PlaceIn
    <3> QED  BY <1>1, <3>2, KeysOfOrder DEF EntryOf
  <2>3. entry \in Entries /\ entry.key = key /\ Computed(entry)
    BY <1>1, <1>2, <2>2
  <2> HIDE DEF key, entry
  <2>4. /\ order' \in Seq(Entries) /\ Len(order') = Len(order)
    <3>1. PICK q \in 1 .. (Len(order) + 1) :
             /\ IsInFront(Entries, order', order, entry, q)
             /\ key \notin ToSet(Keys) <=> q = Len(order) + 1
      BY <1>1, <2>1, <2>3, KeysOfOrder, ToFrontMoves
    <3>2. q # Len(order) + 1
      BY <2>1, <3>1 DEF Cached
    <3>3. Len(order) \in Nat
      BY <1>1
    <3>4. q <= Len(order)
      BY <3>2, <3>3
    <3> QED  BY <3>1, <3>4 DEF IsInFront
  <2>5. Len(order') = Min({Len(order'), Capacity})
    <3>1. Len(order) \in Nat /\ Len(recent) \in Nat
      BY <1>1
    <3>2. Len(order) <= Capacity
      BY <3>1, CapacityAssumption, Smaller DEF Agrees
    <3> QED  BY <2>4, <3>1, <3>2, CapacityAssumption, Smaller
  <2>6. /\ recent' \in Seq(Trips) /\ RecentOnce' /\ Agrees'
        /\ \A j \in 1 .. Len(order') :
              order'[j] = entry \/ \E k \in 1 .. Len(order) : order'[j] = order[k]
    <3>1. KeepsFrontOf(order')
      BY <2>4, <2>5 DEF KeepsFrontOf
    <3> QED  BY <2>1, <2>3, <3>1, UseOfKey
  <2>7. EntriesAreComputed'
    <3>1. \A j \in 1 .. Len(order') : Computed(order'[j])
      BY <1>2, <2>3, <2>6
    <3> QED  BY <2>1, <3>1 DEF EntriesAreComputed, Computed
  <2>8. entry.value \in Values
    BY <2>3 DEF Entries
  <2>9. HandlersHaveRead'
    BY <1>1, <2>1 DEF HandlersHaveRead
  <2>10. RoutingTypeOK'
    BY <1>1, <2>1, <2>4, <2>6, <2>8 DEF RoutingTypeOK, Entries
  <2> QED  BY <2>6, <2>7, <2>9, <2>10
<1>7. ASSUME NEW h \in Handlers, Fill(h) PROVE RoutingInv'
  <2> DEFINE key == routeCacheKey(asked[h])
             value == Value(asked[h], snapshot[h])
             entry == [key |-> key, value |-> value]
             entries == ToFront(entry, order, Keys, key)
  <2>1. /\ pc[h] = "route"
        /\ order' = SubSeq(entries, 1, Min({Len(entries), Capacity})) /\ Used(key)
        /\ answer' = [answer EXCEPT ![h] = value]
        /\ pc' = [pc EXCEPT ![h] = "answered"]
        /\ UNCHANGED <<graph, incidents, asked, snapshot>>
    BY <1>7 DEF Fill, Put, data
  <2>2. /\ asked[h] \in Requests /\ snapshot[h] \in Snapshots
        /\ snapshot[h].graph \in 1 .. graph /\ snapshot[h].incidents <= incidents
    BY <1>1, <2>1 DEF HandlersHaveRead
  <2>3. /\ value \in Values /\ key \in Trips /\ entry \in Entries /\ entry.key = key
        /\ Computed(entry)
    BY <2>2 DEF Value, Values, routeCacheKey, Requests, Entries, Computed
  <2>4. entries \in Seq(Entries)
    <3> HIDE DEF key, entry
    <3>1. PICK q \in 1 .. (Len(order) + 1) : IsInFront(Entries, entries, order, entry, q)
      BY <1>1, <2>3, KeysOfOrder, ToFrontMoves
    <3> QED  BY <3>1 DEF IsInFront
  <2>5. entries = ToFront(entry, order, Keys, key)
    OBVIOUS
  <2> HIDE DEF key, value, entry, entries
  <2>6. /\ order' \in Seq(Entries)
        /\ Len(order') = Min({Len(entries), Capacity})
        /\ \A i \in 1 .. Len(order') : order'[i] = entries[i]
    <3>1. Len(entries) \in Nat
      BY <2>4
    <3>2. PICK len \in 0 .. Len(entries) : len = Min({Len(entries), Capacity})
      BY <3>1, CapacityAssumption, Smaller
    <3>3. Len(entries) \in len .. Len(entries)
      BY <3>1
    <3>4. /\ SubSeq(entries, 1, len) \in Seq(Entries) /\ Len(SubSeq(entries, 1, len)) = len
          /\ \A i \in 1 .. len : SubSeq(entries, 1, len)[i] = entries[i]
      BY <2>4, <3>3, Parts, Zenon
    <3> QED  BY <2>1, <3>2, <3>4
  <2>7. /\ recent' \in Seq(Trips) /\ RecentOnce' /\ Agrees'
        /\ \A j \in 1 .. Len(order') :
              order'[j] = entry \/ \E k \in 1 .. Len(order) : order'[j] = order[k]
    <3>1. KeepsFrontOf(entries)
      BY <2>6 DEF KeepsFrontOf
    <3> QED  BY <2>1, <2>3, <2>5, <3>1, UseOfKey
  <2>8. EntriesAreComputed'
    <3>1. \A j \in 1 .. Len(order') : Computed(order'[j])
      BY <1>2, <2>3, <2>7
    <3> QED  BY <2>1, <3>1 DEF EntriesAreComputed, Computed
  <2>9. HandlersHaveRead'
    BY <1>1, <2>1 DEF HandlersHaveRead
  <2>10. RoutingTypeOK'
    BY <1>1, <2>1, <2>3, <2>6, <2>7 DEF RoutingTypeOK, Entries
  <2> QED  BY <2>7, <2>8, <2>9, <2>10
<1>8. ASSUME NEW h \in Handlers,
             (\E request \in Requests : Miss(h, request)) \/ ReadGraph(h) \/ ReadIncidents(h) \/ Leave(h)
      PROVE  RoutingInv'
  <2>1. UNCHANGED <<graph, incidents, cache>>
    BY <1>8 DEF Miss, ReadGraph, ReadIncidents, Leave, data
  <2>2. /\ pc' \in [Handlers -> {"idle", "graph", "incidents", "route", "answered"}]
        /\ asked' \in [Handlers -> Requests \union {Nothing}]
        /\ snapshot' \in [Handlers -> Snapshots]
        /\ answer' \in [Handlers -> Values \union {Nothing}]
    <3>1. Unread \in Snapshots
      BY MaxVersionAssumption DEF Unread, Snapshots, Versions
    <3>2. CASE \E request \in Requests : Miss(h, request)
      BY <1>1, <3>2 DEF Miss
    <3>3. CASE ReadGraph(h)
      BY <1>1, <3>3 DEF ReadGraph, Snapshots
    <3>4. CASE ReadIncidents(h)
      BY <1>1, <3>4 DEF ReadIncidents, Snapshots
    <3>5. CASE Leave(h)
      BY <1>1, <3>1, <3>5 DEF Leave
    <3> QED  BY <1>8, <3>2, <3>3, <3>4, <3>5
  <2>3. HandlersHaveRead'
    <3>1. CASE \E request \in Requests : Miss(h, request)
      BY <1>1, <2>1, <3>1 DEF Miss, HandlersHaveRead
    <3>2. CASE ReadGraph(h)
      <4>1. graph \in 1 .. graph
        BY <1>1, <3>2 DEF ReadGraph, HasGraph
      <4> QED  BY <1>1, <2>1, <3>2, <4>1 DEF ReadGraph, HandlersHaveRead, Snapshots
    <3>3. CASE ReadIncidents(h)
      BY <1>1, <2>1, <3>3 DEF ReadIncidents, HandlersHaveRead, Snapshots
    <3>4. CASE Leave(h)
      BY <1>1, <2>1, <3>4 DEF Leave, HandlersHaveRead
    <3> QED  BY <1>8, <3>1, <3>2, <3>3, <3>4
  <2> QED  BY <1>1, <1>4, <2>1, <2>2, <2>3 DEF RoutingTypeOK, Entries
<1>9. CASE UNCHANGED routingVars
  <2>1. UNCHANGED <<graph, incidents, cache, pc, asked, snapshot, answer>>
    BY <1>9 DEF routingVars, data
  <2> QED  BY <1>1, <1>4, <2>1 DEF RoutingTypeOK, Entries, HandlersHaveRead
<1> QED
  BY <1>5, <1>6, <1>7, <1>8, <1>9 DEF RoutingNext, CachedRoute

LEMMA RoutingInvariant == RoutingSpec => []RoutingInv
<1> QED  BY RoutingInvInit, RoutingInvStep, PTL DEF RoutingSpec

(* LRU: at any capacity, the cache holds the keys used most recently, in   *)
(* that order and each once, although handlers that missed the same key    *)
(* all put it.                                                             *)
THEOREM TheMostRecentAreHeld == RoutingSpec => []HoldsTheMostRecent
<1>1. RoutingInv => HoldsTheMostRecent
  BY DEF RoutingInv, Agrees, HoldsTheMostRecent
<1> QED  BY <1>1, RoutingInvariant, PTL

(* CachedRoute: what is cached under a key was computed for it, from a     *)
(* graph that was installed and incidents there were.                      *)
THEOREM CachedIsComputed == RoutingSpec => []EntriesAreComputed
<1>1. RoutingInv => EntriesAreComputed
  BY DEF RoutingInv
<1> QED  BY <1>1, RoutingInvariant, PTL

-------------------------------------------------------------------------------
(* The TTL cache.  An entry, in the map or copied by a Get, expires when   *)
(* its value was put to; what Prune has dropped has expired.               *)

TTLEntries == [value : Nat, expires : Instants]

Stands(entry, puts) ==
    entry.value # 0 => /\ entry.value \in 1 .. Len(puts)
                       /\ entry.expires = puts[entry.value]

GoneHaveExpired ==
    \A value \in gone : value # 0 => /\ value \in 1 .. Len(expiry)
                                     /\ now > expiry[value]

TTLInv ==
    /\ now \in Nat
    /\ expiry \in Seq(Instants)
    /\ held \in [Names -> TTLEntries]
    /\ copied \in [Getters -> TTLEntries]
    /\ got \in [Getters -> Nat]
    /\ \A n \in Names : Stands(held[n], expiry)
    /\ \A g \in Getters : Stands(copied[g], expiry)
    /\ GoneHaveExpired

LEMMA TTLInvInit == TTLInit => TTLInv
<1> SUFFICES ASSUME TTLInit PROVE TTLInv
  OBVIOUS
<1>1. NoEntry \in TTLEntries /\ NoEntry.value = 0
  BY LastInstantAssumption DEF NoEntry, TTLEntries, Instants
<1>2. /\ now = 0 /\ expiry = <<>> /\ gone = {}
      /\ held = [n \in Names |-> NoEntry]
      /\ copied = [g \in Getters |-> NoEntry]
      /\ got = [g \in Getters |-> 0]
  BY DEF TTLInit, Absent
<1> QED  BY <1>1, <1>2 DEF TTLInv, Stands, GoneHaveExpired

LEMMA TTLInvStep == TTLInv /\ [TTLNext]_ttlVars => TTLInv'
<1> SUFFICES ASSUME TTLInv, [TTLNext]_ttlVars PROVE TTLInv'
  OBVIOUS
<1> USE DEF TTLInv
<1>1. /\ Instants \subseteq Nat /\ NoEntry \in TTLEntries /\ NoEntry.value = 0
  BY LastInstantAssumption DEF Instants, NoEntry, TTLEntries
<1>2. \A value \in 1 .. Len(expiry) : expiry[value] \in Nat
  <2>1. Len(expiry) \in Nat /\ \A value \in 1 .. Len(expiry) : expiry[value] \in Instants
    OBVIOUS
  <2> QED  BY <1>1, <2>1
<1>3. CASE UNCHANGED ttlVars
  BY <1>3 DEF ttlVars, Stands, GoneHaveExpired
<1>4. ASSUME NEW n \in Names, NEW expires \in Instants, PutUntil(n, expires) PROVE TTLInv'
  <2> DEFINE value == Len(expiry) + 1
             entry == [value |-> value, expires |-> expires]
  <2>1. /\ expiry' = Append(expiry, expires)
        /\ held' = [held EXCEPT ![n] = entry]
        /\ UNCHANGED <<now, copied, got, gone>>
    BY <1>4 DEF PutUntil
  <2>2. PICK puts : puts = expiry'
    OBVIOUS
  <2>3. /\ puts \in Seq(Instants) /\ Len(puts) = value /\ value \in Nat
        /\ puts[value] = expires /\ \A i \in 1 .. Len(expiry) : puts[i] = expiry[i]
        /\ 1 .. Len(expiry) \subseteq 1 .. value /\ value \in 1 .. value
    BY <2>1, <2>2
  <2>4. entry \in TTLEntries /\ Stands(entry, puts)
    BY <2>3 DEF TTLEntries, Stands
  <2> HIDE DEF value, entry
  <2>5. ASSUME NEW e, Stands(e, expiry) PROVE Stands(e, puts)
    BY <2>3, <2>5 DEF Stands
  <2>6. \A m \in Names : Stands(held'[m], puts)
    BY <2>1, <2>4, <2>5
  <2>7. \A g \in Getters : Stands(copied[g], puts)
    BY <2>5
  <2>8. GoneHaveExpired'
    BY <2>1, <2>3, <2>2 DEF GoneHaveExpired
  <2> QED  BY <2>1, <2>3, <2>4, <2>6, <2>7, <2>8, <2>2
<1>5. ASSUME NEW g \in Getters, Judge(g) \/ \E n \in Names : Copy(g, n) PROVE TTLInv'
  <2>1. UNCHANGED <<now, held, expiry, gone>>
    BY <1>5 DEF Judge, Copy
  <2>2. PICK entry \in TTLEntries, value \in Nat :
           /\ Stands(entry, expiry)
           /\ copied' = [copied EXCEPT ![g] = entry]
           /\ got' = [got EXCEPT ![g] = value]
    <3>1. CASE Judge(g)
      BY <1>1, <3>1 DEF Judge, Stands, Absent, TTLEntries
    <3>2. CASE \E n \in Names : Copy(g, n)
      BY <3>2 DEF Copy, Absent
    <3> QED  BY <1>5, <3>1, <3>2
  <2>3. /\ copied' \in [Getters -> TTLEntries] /\ got' \in [Getters -> Nat]
        /\ \A h \in Getters : Stands(copied'[h], expiry)
    BY <2>2
  <2> QED  BY <2>1, <2>3 DEF Stands, GoneHaveExpired
<1>6. ASSUME NEW n \in Names, PruneEntry(n) PROVE TTLInv'
  <2>1. UNCHANGED <<now, expiry, copied, got>>
    BY <1>6 DEF PruneEntry
  <2>2. CASE Over(held[n])
    <3>1. /\ held' = [held EXCEPT ![n] = NoEntry]
          /\ gone' = gone \union {held[n].value}
          /\ now > held[n].expires
      BY <1>6, <2>2 DEF PruneEntry, Over, Expired
    <3>2. held' \in [Names -> TTLEntries] /\ \A m \in Names : Stands(held'[m], expiry)
      BY <1>1, <3>1 DEF Stands
    <3>3. GoneHaveExpired'
      BY <2>1, <3>1 DEF GoneHaveExpired, Stands
    <3> QED  BY <2>1, <3>2, <3>3 DEF Stands
  <2>3. CASE ~ Over(held[n])
    <3>1. UNCHANGED <<held, gone>>
      BY <1>6, <2>3 DEF PruneEntry
    <3> QED  BY <2>1, <3>1 DEF Stands, GoneHaveExpired
  <2> QED  BY <2>2, <2>3
<1>7. CASE BeginPrune \/ EndPrune
  BY <1>7 DEF BeginPrune, EndPrune, Stands, GoneHaveExpired
<1>8. CASE Pass
  <2>1. now' = now + 1 /\ UNCHANGED <<held, copied, got, expiry, gone>>
    BY <1>8 DEF Pass
  <2>2. GoneHaveExpired'
    BY <1>2, <2>1 DEF GoneHaveExpired
  <2> QED  BY <2>1, <2>2 DEF Stands
<1> QED  BY <1>3, <1>4, <1>5, <1>6, <1>7, <1>8 DEF TTLNext

(* What a Get returns is live at the instant it returns it, however long   *)
(* ago it copied the entry and whatever a Prune has dropped since.         *)
THEOREM AnswersAreLive == TTLSpec => HitIsLive
<1> DEFINE Live == \A g \in Getters :
               got'[g] # got[g] /\ got'[g] # Absent => now <= expiry[got'[g]] /\ got'[g] \notin gone
<1>1. TTLInv /\ [TTLNext]_ttlVars => [Live]_ttlVars
  <2> SUFFICES ASSUME TTLInv, TTLNext, NEW g \in Getters, got'[g] # got[g], got'[g] # Absent
               PROVE  now <= expiry[got'[g]] /\ got'[g] \notin gone
    OBVIOUS
  <2>1. Judge(g) /\ ~ Expired(copied[g]) /\ got'[g] = copied[g].value
    <3>1. ASSUME NEW h \in Getters, Judge(h) PROVE h = g /\ ~ Expired(copied[h]) /\ got'[g] = copied[h].value
      BY <3>1 DEF Judge, TTLInv
    <3>2. ASSUME NEW h \in Getters, NEW n \in Names, Copy(h, n) PROVE FALSE
      BY <3>2 DEF Copy, TTLInv
    <3>3. ~ UNCHANGED got
      OBVIOUS
    <3> QED
      BY <3>1, <3>2, <3>3 DEF TTLNext, PutUntil, BeginPrune, PruneEntry, EndPrune, Pass
  <2>2. /\ copied[g] \in TTLEntries /\ Stands(copied[g], expiry)
        /\ copied[g].value # 0
    BY <2>1 DEF TTLInv, Absent
  <2>3. now \in Nat /\ copied[g].expires \in Nat
    BY <2>2, LastInstantAssumption DEF TTLInv, TTLEntries, Instants
  <2>4. now <= expiry[copied[g].value]
    BY <2>1, <2>2, <2>3 DEF Stands, Expired
  <2>5. copied[g].value \notin gone
    BY <2>2, <2>3, <2>4 DEF TTLInv, GoneHaveExpired, Stands
  <2> QED  BY <2>1, <2>4, <2>5
<1>2. TTLSpec => [][Live]_ttlVars
  BY <1>1, TTLInvInit, TTLInvStep, PTL DEF TTLSpec
<1> QED  BY <1>2 DEF HitIsLive

-------------------------------------------------------------------------------
(* The traffic index.  What it keeps of an edge are the last observations  *)
(* reported; in a list in the order of their times, the newest known are   *)
(* the last of the known.                                                  *)

Observations == [at : Moments, moving : BOOLEAN]

IsTailOf(list, whole) ==
    /\ Len(list) <= Len(whole)
    /\ \A i \in 1 .. Len(list) : list[i] = whole[i + (Len(whole) - Len(list))]

IndexInv ==
    /\ observations \in Seq(Observations)
    /\ reported \in Seq(Observations)
    /\ IsTailOf(observations, reported)

LEMMA LastOfIsATail ==
    ASSUME NEW S, NEW list \in Seq(S)
    PROVE  LastOf(list) \in Seq(S) /\ IsTailOf(LastOf(list), list)
<1>1. PICK n \in Nat : n = Len(list)
  OBVIOUS
<1>2. PICK start \in Int : start = n - KeepLast + 1
  <2>1. n - KeepLast + 1 \in Int
    BY <1>1, KeepLastAssumption
  <2> QED  BY <2>1
<1>3. PICK q \in 0 .. Len(list) : q + 1 = Max({1, start})
  <2> DEFINE both == {1, start}
  <2>1. CASE start >= 1
    <3>1. both \subseteq 0 .. (n + 1) /\ both # {} /\ n + 1 \in Nat
      BY <1>1, <1>2, <2>1, KeepLastAssumption
    <3>2. Max(both) \in both /\ \A x \in both : x <= Max(both)
      BY <3>1, GreatestNumber
    <3>3. Max(both) = start
      BY <1>2, <2>1, <3>2
    <3>4. start - 1 \in 0 .. n /\ (start - 1) + 1 = start
      BY <1>1, <1>2, <2>1, KeepLastAssumption
    <3> QED  BY <1>1, <3>3, <3>4
  <2>2. CASE start < 1
    <3>1. Max(both) = 1
      BY <1>2, <2>2 DEF Max
    <3> QED  BY <1>1, <3>1
  <2>3. start >= 1 \/ start < 1
    BY <1>2
  <2> HIDE DEF both
  <2> QED  BY <2>1, <2>2, <2>3
<1>4. LastOf(list) = SubSeq(list, q + 1, Len(list))
  BY <1>1, <1>2, <1>3 DEF LastOf
<1>5. 0 \in 0 .. Len(list) /\ q \in 0 .. Len(list)
  BY <1>1
<1>6. /\ SubSeq(list, q + 1, Len(list)) \in Seq(S)
      /\ Len(SubSeq(list, q + 1, Len(list))) = Len(list) - q
      /\ \A i \in 1 .. (Len(list) - q) : SubSeq(list, q + 1, Len(list))[i] = list[q + i]
  BY <1>5, Parts, Zenon
<1>7. PICK last : last = LastOf(list)
  OBVIOUS
<1>8. /\ last \in Seq(S) /\ Len(last) = n - q /\ q \in 0 .. n
      /\ \A i \in 1 .. (n - q) : last[i] = list[q + i]
  BY <1>1, <1>4, <1>6, <1>7
<1>9. Len(last) <= n /\ n - Len(last) = q /\ \A i \in 1 .. Len(last) : i + (n - Len(last)) = q + i
  BY <1>1, <1>8
<1>10. IsTailOf(last, list)
  BY <1>1, <1>8, <1>9 DEF IsTailOf
<1> QED  BY <1>7, <1>8, <1>10

LEMMA IndexInvStep == IndexInv /\ [TrafficNext]_trafficVars => IndexInv'
<1> SUFFICES ASSUME IndexInv, [TrafficNext]_trafficVars PROVE IndexInv'
  OBVIOUS
<1>1. CASE \E o \in [at : Moments, moving : BOOLEAN] : RecordObservation(o)
  <2>1. PICK o \in Observations : /\ observations' = LastOf(Append(observations, o))
                                  /\ reported' = Append(reported, o)
    BY <1>1 DEF RecordObservation, Observations
  <2>2. PICK kept, all, list, longer :
           /\ kept = observations' /\ all = reported'
           /\ list = observations /\ longer = Append(observations, o)
    OBVIOUS
  <2>3. PICK m \in Nat, n \in Nat : m = Len(list) /\ n = Len(reported)
    BY <2>2 DEF IndexInv
  <2>4. /\ longer \in Seq(Observations) /\ Len(longer) = m + 1 /\ longer[m + 1] = o
        /\ \A i \in 1 .. m : longer[i] = list[i]
    BY <2>2, <2>3 DEF IndexInv
  <2>5. /\ all \in Seq(Observations) /\ Len(all) = n + 1 /\ all[n + 1] = o
        /\ \A i \in 1 .. n : all[i] = reported[i]
    BY <2>1, <2>2, <2>3 DEF IndexInv
  <2>6. m <= n /\ \A i \in 1 .. m : list[i] = reported[i + (n - m)]
    BY <2>2, <2>3 DEF IndexInv, IsTailOf
  <2>7. kept \in Seq(Observations) /\ IsTailOf(kept, longer)
    BY <2>1, <2>2, <2>4, LastOfIsATail
  <2>8. PICK k \in Nat : k = Len(kept)
    BY <2>7
  <2>9. k <= m + 1 /\ \A i \in 1 .. k : kept[i] = longer[i + ((m + 1) - k)]
    BY <2>4, <2>7, <2>8 DEF IsTailOf
  <2>10. ASSUME NEW i \in 1 .. k PROVE kept[i] = all[i + ((n + 1) - k)]
    <3>1. PICK j \in 1 .. (m + 1) : j = i + ((m + 1) - k)
      BY <2>9
    <3>2. CASE j = m + 1
      <4>1. i + ((n + 1) - k) = n + 1
        BY <2>9, <3>1, <3>2
      <4> QED  BY <2>4, <2>5, <2>9, <3>1, <3>2, <4>1
    <3>3. CASE j # m + 1
      <4>1. j \in 1 .. m /\ j + (n - m) = i + ((n + 1) - k) /\ j + (n - m) \in 1 .. n
        BY <2>6, <2>9, <3>1, <3>3
      <4> QED  BY <2>4, <2>5, <2>6, <2>9, <3>1, <4>1
    <3> QED  BY <3>2, <3>3
  <2>11. k <= n + 1
    BY <2>6, <2>9
  <2>12. IsTailOf(kept, all)
    BY <2>5, <2>8, <2>10, <2>11 DEF IsTailOf
  <2> QED  BY <2>2, <2>5, <2>7, <2>12 DEF IndexInv
<1>2. CASE UNCHANGED indexVars
  BY <1>2 DEF IndexInv, indexVars
<1>3. ASSUME NEW when, RecordEvent(when) \/ PruneEvents(when) PROVE UNCHANGED indexVars
  BY <1>3 DEF RecordEvent, PruneEvents
<1> QED  BY <1>1, <1>2, <1>3 DEF TrafficNext, trafficVars

LEMMA IndexInvariant == TrafficSpec => []IndexInv
<1>1. TrafficInit => IndexInv
  <2> SUFFICES ASSUME TrafficInit PROVE IndexInv
    OBVIOUS
  <2>1. observations = <<>> /\ reported = <<>> /\ Len(observations) = 0 /\ Len(reported) = 0
    BY DEF TrafficInit
  <2> QED  BY <2>1 DEF IndexInv, IsTailOf
<1> QED  BY <1>1, IndexInvStep, PTL DEF TrafficSpec

LEMMA LatestInOrder ==
    ASSUME NEW list \in Seq(Observations), InOrder(list), NEW when \in Nat
    PROVE  /\ Latest(list, when) = 0 <=> \A i \in 1 .. Len(list) : ~ (list[i].at <= when)
           /\ Latest(list, when) # 0 =>
                /\ Latest(list, when) \in 1 .. Len(list)
                /\ list[Latest(list, when)].at <= when
                /\ \A i \in 1 .. Len(list) :
                      list[i].at <= when => list[i].at <= list[Latest(list, when)].at
                /\ \A i \in 1 .. Len(list) :
                      list[i].at = list[Latest(list, when)].at => Latest(list, when) <= i
<1> DEFINE known == {i \in 1 .. Len(list) : list[i].at <= when}
           newest == {i \in known : \A j \in known : list[j].at <= list[i].at}
<1>1. Latest(list, when) = IF known = {} THEN 0 ELSE Min(newest)
  BY DEF Latest
<1>2. PICK n \in Nat : n = Len(list)
  OBVIOUS
<1>3. \A i \in 1 .. n : list[i].at \in Nat
  <2>1. \A i \in 1 .. n : list[i] \in Observations
    BY <1>2
  <2> QED  BY <2>1, MomentsAssumption DEF Observations
<1>4. known \subseteq 1 .. n /\ known \subseteq 0 .. n
  BY <1>2
<1>5. \A i, j \in 1 .. n : i < j => list[i].at <= list[j].at
  BY <1>2 DEF InOrder
<1>6. CASE known = {}
  BY <1>1, <1>6
<1>7. CASE known # {}
  <2>1. Max(known) \in known /\ \A i \in known : i <= Max(known)
    <3> HIDE DEF known
    <3> QED  BY <1>4, <1>7, GreatestNumber
  <2>2. PICK last \in known : \A i \in known : i <= last
    BY <2>1
  <2>3. \A j \in known : list[j].at <= list[last].at
    BY <1>3, <1>4, <1>5, <2>2
  <2>4. newest # {} /\ newest \subseteq Nat
    BY <1>4, <2>2, <2>3
  <2>5. Min(newest) \in newest /\ \A i \in newest : Min(newest) <= i
    <3> HIDE DEF newest
    <3> QED  BY <2>4, LeastNumber
  <2>6. PICK first \in newest : first = Latest(list, when) /\ \A i \in newest : first <= i
    BY <1>1, <1>7, <2>5
  <2>7. first \in 1 .. n /\ first # 0 /\ list[first].at <= when
    BY <1>4, <2>6
  <2>8. ASSUME NEW i \in 1 .. n, list[i].at = list[first].at PROVE first <= i
    <3>1. i \in known
      BY <1>2, <2>7, <2>8
    <3>2. i \in newest
      BY <2>6, <2>8, <3>1
    <3> QED  BY <2>6, <3>2
  <2>9. \A i \in 1 .. n : list[i].at <= when => list[i].at <= list[first].at
    BY <1>2, <2>6
  <2>10. \E i \in 1 .. n : list[i].at <= when
    BY <2>7
  <2> HIDE DEF known, newest
  <2> QED  BY <1>2, <2>6, <2>7, <2>8, <2>9, <2>10
<1> QED  BY <1>6, <1>7

(* Estimate: whatever was reported in the order of its times, the index    *)
(* answers from the newest there was, at any limit of at least one.        *)
THEOREM EstimatesAreCurrent == TrafficSpec => []LatestIsNewest
<1>1. ASSUME IndexInv PROVE LatestIsNewest
  <2> SUFFICES ASSUME InOrder(reported), NEW when \in Moments, Latest(observations, when) # 0
               PROVE  LET kept == Latest(observations, when)
                          all == Latest(reported, when)
                      IN /\ all # 0
                         /\ observations[kept].at = reported[all].at
                         /\ observations[1].at < observations[kept].at =>
                               Estimate(observations, when) = Estimate(reported, when)
    BY DEF LatestIsNewest
  <2>1. PICK m \in Nat, n \in Nat, d \in Nat :
           /\ m = Len(observations) /\ n = Len(reported) /\ n = m + d
           /\ \A i \in 1 .. m : observations[i] = reported[i + d]
    <3>1. Len(observations) \in Nat /\ Len(reported) \in Nat
      BY <1>1 DEF IndexInv
    <3> QED  BY <1>1, <3>1 DEF IndexInv, IsTailOf
  <2>2. /\ when \in Nat /\ observations \in Seq(Observations) /\ reported \in Seq(Observations)
    BY <1>1, MomentsAssumption DEF IndexInv
  <2>3. \A i \in 1 .. n : reported[i].at \in Nat
    <3>1. \A i \in 1 .. Len(reported) : reported[i] \in Observations
      BY <2>2
    <3> QED  BY <2>1, <3>1, MomentsAssumption DEF Observations
  <2>4. \A i, j \in 1 .. n : i < j => reported[i].at <= reported[j].at
    BY <2>1 DEF InOrder
  <2>5. \A i \in 1 .. m : i + d \in 1 .. n /\ observations[i].at = reported[i + d].at
    BY <2>1
  <2>6. InOrder(observations)
    <3> SUFFICES ASSUME NEW i \in 1 .. m, NEW j \in 1 .. m, i < j
                 PROVE  observations[i].at <= observations[j].at
      BY <2>1 DEF InOrder
    <3>1. i + d < j + d
      OBVIOUS
    <3> QED  BY <2>4, <2>5, <3>1
  <2>7. PICK kept : kept = Latest(observations, when)
    OBVIOUS
  <2>8. /\ kept \in 1 .. m /\ observations[kept].at <= when
        /\ \A i \in 1 .. m : observations[i].at <= when => observations[i].at <= observations[kept].at
        /\ \A i \in 1 .. m : observations[i].at = observations[kept].at => kept <= i
    BY <2>1, <2>2, <2>6, <2>7, LatestInOrder
  <2>9. PICK all : all = Latest(reported, when)
    OBVIOUS
  <2>10. kept + d \in 1 .. n /\ reported[kept + d].at <= when
    BY <2>5, <2>8
  <2>11. all # 0
    BY <2>1, <2>2, <2>9, <2>10, LatestInOrder
  <2>12. /\ all \in 1 .. n /\ reported[all].at <= when
         /\ \A i \in 1 .. n : reported[i].at <= when => reported[i].at <= reported[all].at
         /\ \A i \in 1 .. n : reported[i].at = reported[all].at => all <= i
    BY <2>1, <2>2, <2>9, <2>11, LatestInOrder
  (* The newest of all is kept, or is as old as one that is.               *)
  <2>13. observations[kept].at = reported[all].at
    <3>1. reported[kept + d].at <= reported[all].at
      BY <2>10, <2>12
    <3>2. CASE all <= d
      <4>1. all < kept + d
        BY <2>8, <2>12, <3>2
      <4>2. reported[all].at <= reported[kept + d].at
        BY <2>4, <2>10, <2>12, <4>1
      <4> QED  BY <2>3, <2>5, <2>8, <2>10, <2>12, <3>1, <4>2
    <3>3. CASE ~ (all <= d)
      <4>1. PICK i \in 1 .. m : all = i + d
        <5>1. all - d \in 1 .. m /\ (all - d) + d = all
          BY <2>1, <2>12, <3>3
        <5> QED  BY <5>1
      <4>2. observations[i].at <= observations[kept].at
        BY <2>5, <2>8, <2>12, <4>1
      <4> QED  BY <2>3, <2>5, <2>8, <2>10, <2>12, <3>1, <4>1, <4>2
    <3> QED  BY <3>2, <3>3
  <2>14. ASSUME observations[1].at < observations[kept].at
         PROVE  Estimate(observations, when) = Estimate(reported, when)
    <3>1. all <= kept + d
      BY <2>5, <2>8, <2>10, <2>12, <2>13
    <3>2. all > d
      <4> SUFFICES ASSUME all <= d PROVE FALSE
        BY <2>12
      <4>1. 1 \in 1 .. m /\ 1 + d \in 1 .. n /\ all < 1 + d
        BY <2>5, <2>8, <2>12
      <4>2. reported[all].at <= reported[1 + d].at /\ reported[1 + d].at = observations[1].at
        BY <2>4, <2>5, <2>12, <4>1
      <4> QED  BY <2>3, <2>12, <2>13, <2>14, <4>1, <4>2
    <3>3. PICK i \in 1 .. m : all = i + d
      <4>1. all - d \in 1 .. m /\ (all - d) + d = all
        BY <2>1, <2>12, <3>2
      <4> QED  BY <4>1
    <3>4. kept <= i
      BY <2>5, <2>8, <2>13, <3>3
    <3>5. i = kept
      BY <2>8, <3>1, <3>3, <3>4
    <3>6. observations[kept] = reported[all] /\ kept # 0
      BY <2>1, <2>8, <3>3, <3>5
    <3> QED  BY <2>7, <2>9, <2>11, <3>6 DEF Estimate
  <2> QED  BY <2>7, <2>9, <2>11, <2>13, <2>14
<1> QED  BY <1>1, IndexInvariant, PTL

-------------------------------------------------------------------------------
(* The counter of events.  An event that has been pruned is older than     *)
(* every window that begins after the pruned past.                         *)

EventsAddUp == Len(counted) = Cardinality(events) + removed

PrunedAreOld ==
    \A i \in 1 .. Len(counted) : i \notin events => counted[i] < horizon

CounterInv ==
    /\ counted \in Seq(Nat)
    /\ removed \in Nat
    /\ horizon \in Nat
    /\ events \subseteq 1 .. Len(counted)
    /\ EventsAddUp
    /\ PrunedAreOld

LEMMA CounterInvInit == TrafficInit => CounterInv
<1> SUFFICES ASSUME TrafficInit PROVE CounterInv
  OBVIOUS
<1>1. counted = <<>> /\ events = {} /\ removed = 0 /\ horizon = 0 /\ Len(counted) = 0
  BY DEF TrafficInit
<1>2. Cardinality({}) = 0
  BY FS_EmptySet
<1> QED  BY <1>1, <1>2 DEF CounterInv, EventsAddUp, PrunedAreOld

LEMMA CounterInvStep == CounterInv /\ [TrafficNext]_trafficVars => CounterInv'
<1> SUFFICES ASSUME CounterInv, [TrafficNext]_trafficVars PROVE CounterInv'
  OBVIOUS
<1>1. PICK n \in Nat : n = Len(counted)
  BY DEF CounterInv
<1>2. \A i \in 1 .. n : counted[i] \in Nat
  BY <1>1 DEF CounterInv
<1>3. IsFiniteSet(events)
  <2>1. IsFiniteSet(1 .. n)
    BY <1>1, FS_Interval
  <2> QED  BY <1>1, <2>1, FS_Subset DEF CounterInv
<1>4. PICK c \in Nat : c = Cardinality(events)
  BY <1>3, FS_CardinalityType
<1>5. ASSUME NEW when \in Moments, RecordEvent(when) PROVE CounterInv'
  <2>1. PICK all : all = counted'
    OBVIOUS
  <2>2. /\ all = Append(counted, when) /\ events' = events \union {n + 1}
        /\ UNCHANGED <<removed, horizon>> /\ when \in Nat
    BY <1>1, <1>5, <2>1, MomentsAssumption DEF RecordEvent
  <2>3. /\ all \in Seq(Nat) /\ Len(all) = n + 1
        /\ \A i \in 1 .. n : all[i] = counted[i]
    BY <1>1, <2>2 DEF CounterInv
  <2>4. n + 1 \notin events
    BY <1>1 DEF CounterInv
  <2>5. Cardinality(events') = c + 1
    BY <1>3, <1>4, <2>2, <2>4, FS_AddElement
  <2>6. EventsAddUp'
    BY <1>1, <1>4, <2>1, <2>2, <2>3, <2>5 DEF CounterInv, EventsAddUp
  <2>7. PrunedAreOld'
    <3> SUFFICES ASSUME NEW i \in 1 .. (n + 1), i \notin events' PROVE all[i] < horizon
      BY <2>1, <2>2, <2>3 DEF PrunedAreOld
    <3>1. i \in 1 .. n /\ i \notin events
      BY <2>2
    <3> QED  BY <1>1, <2>3, <3>1 DEF CounterInv, PrunedAreOld
  <2>8. events' \subseteq 1 .. Len(counted')
    <3>1. \A i \in events : i \in 1 .. (n + 1)
      BY <1>1 DEF CounterInv
    <3>2. n + 1 \in 1 .. (n + 1) /\ Len(counted') = n + 1
      BY <2>1, <2>3
    <3> QED  BY <2>2, <3>1, <3>2
  <2>9. counted' \in Seq(Nat) /\ removed' \in Nat /\ horizon' \in Nat
    BY <2>1, <2>2, <2>3 DEF CounterInv
  <2> QED  BY <2>6, <2>7, <2>8, <2>9 DEF CounterInv
<1>6. ASSUME NEW before \in Moments, PruneEvents(before) PROVE CounterInv'
  <2>1. /\ events' = KeptEvents(before) /\ before \in Nat
        /\ removed' = removed + Cardinality(events) - Cardinality(KeptEvents(before))
        /\ horizon' = Max({horizon, before})
        /\ counted' = counted
    BY <1>6, MomentsAssumption DEF PruneEvents
  <2>2. events' \subseteq events /\ \A i \in events \ events' : counted[i] < before
    <3>1. \A i \in events : i \in 1 .. n
      BY <1>1 DEF CounterInv
    <3> QED  BY <1>2, <2>1, <3>1 DEF KeptEvents
  <2>3. horizon' \in Nat /\ horizon <= horizon' /\ before <= horizon'
    <3> DEFINE both == {horizon, before}
               high == horizon + before
    <3>1. high \in Nat /\ both \subseteq 0 .. high /\ both # {}
      BY <2>1 DEF CounterInv
    <3> HIDE DEF high
    <3>2. Max(both) \in both /\ \A x \in both : x <= Max(both)
      BY <3>1, GreatestNumber
    <3> QED  BY <2>1, <3>2 DEF CounterInv
  <2>4. IsFiniteSet(events') /\ Cardinality(events') <= Cardinality(events)
    BY <1>3, <2>2, FS_Subset
  <2>5. PICK d \in Nat : d = Cardinality(events')
    BY <2>4, FS_CardinalityType
  <2>6. removed' = (removed + c) - d /\ d <= c
    <3>1. removed' = removed + Cardinality(events) - Cardinality(events')
      BY <2>1, Zenon
    <3>2. removed \in Nat
      BY DEF CounterInv
    <3> QED  BY <1>4, <2>4, <2>5, <3>1, <3>2
  <2>7. removed' \in Nat /\ EventsAddUp'
    <3>1. Len(counted') = n /\ removed \in Nat /\ n = c + removed
      BY <1>1, <1>4, <2>1 DEF CounterInv, EventsAddUp
    <3> QED  BY <2>5, <2>6, <3>1 DEF EventsAddUp
  <2>8. PrunedAreOld'
    <3> SUFFICES ASSUME NEW i \in 1 .. n, i \notin events' PROVE counted[i] < horizon'
      BY <1>1, <2>1 DEF PrunedAreOld
    <3>1. counted[i] < horizon \/ counted[i] < before
      BY <1>1, <2>2 DEF CounterInv, PrunedAreOld
    <3> QED  BY <1>2, <2>1, <2>3, <3>1 DEF CounterInv
  <2> QED  BY <2>1, <2>2, <2>3, <2>7, <2>8 DEF CounterInv
<1>7. CASE UNCHANGED counterVars
  BY <1>7 DEF CounterInv, EventsAddUp, PrunedAreOld, counterVars
<1>8. ASSUME NEW o, RecordObservation(o) PROVE UNCHANGED counterVars
  BY <1>8 DEF RecordObservation
<1> QED  BY <1>5, <1>6, <1>7, <1>8 DEF TrafficNext, trafficVars

(* Record, Count and Prune: however they mix, no event is lost or counted  *)
(* twice.                                                                  *)
THEOREM EventsAreCounted == TrafficSpec => []CountsAreExact
<1>1. CounterInv => CountsAreExact
  <2> SUFFICES ASSUME CounterInv PROVE CountsAreExact
    OBVIOUS
  <2>1. ASSUME NEW from \in Moments, NEW to \in Moments, from >= horizon
        PROVE  Count(events, from, to) = Count(1 .. Len(counted), from, to)
    <3>1. \A i \in 1 .. Len(counted) : counted[i] \in Nat
      BY DEF CounterInv
    <3>2. \A i \in 1 .. Len(counted) : from <= counted[i] => i \in events
      BY <2>1, <3>1, MomentsAssumption DEF CounterInv, PrunedAreOld
    <3>3. events \subseteq 1 .. Len(counted)
      BY DEF CounterInv
    <3>4. {i \in events : from <= counted[i] /\ counted[i] <= to}
          = {i \in 1 .. Len(counted) : from <= counted[i] /\ counted[i] <= to}
      BY <3>2, <3>3
    <3> QED  BY <3>4 DEF Count
  <2> QED  BY <2>1 DEF CountsAreExact, CounterInv, EventsAddUp
<1> QED  BY <1>1, CounterInvInit, CounterInvStep, PTL DEF TrafficSpec

-------------------------------------------------------------------------------
(* A tenant's quota: what each budget and each limiter let through, late   *)
(* requests apart.                                                         *)

(* The invariant                                                           *)

(* The numbers tell the requests of one time apart.                        *)
Numbered(requests) ==
    /\ IsFiniteSet(requests)
    /\ \A g \in requests : g.nth <= Cardinality({o \in requests : o.at = g.at})

OnTime(requests, r, from, to) ==
    {g \in requests : g.by = r /\ ~ g.late /\ from <= g.at /\ g.at < to}

Through(requests, r, from, to) == Cardinality(OnTime(requests, r, from, to))

Start(b) == b.resetAt - Window
End == MaxTime + 1

(* Register: as long as nothing is installed nothing has been let through, *)
(* and what a call is about to install has let nothing through.            *)
NewIsUnused ==
    /\ budget = Unset => spent = {}
    /\ limiter = Unset => granted = {}
    /\ \A r \in Registrations :
          /\ register[r] = "make budget" => r \notin budget /\ \A g \in spent : g.by # r
          /\ register[r] = "make limiter" => r \notin limiter /\ \A g \in granted : g.by # r

(* A limiter still has what it let through in a window that is not over,   *)
(* the late ones too.                                                      *)
Limited(requests, r, l, last) ==
    /\ \A g \in requests : g.by = r /\ g.at + Window > last => g \in l.entries
    /\ \A time \in Times : Cardinality(InWindow(requests, r, time)) <= l.limit

LimiterInv ==
    \A r \in Registrations : Limited(granted, r, limiters[r], lastAllow[r])

(* What a budget has let through in the period that runs is counted as     *)
(* used, it was no more than the limit in a window before it, and none is  *)
(* of a later time.  The first period may begin after the times of some    *)
(* requests, which are then counted too.                                   *)
Budgeted(requests, r, b, last) ==
    /\ \/ Start(b) <= last
       \/ Through(requests, r, 0, End) <= b.used
    /\ Through(requests, r, Start(b), End) <= b.used
    /\ Through(requests, r, Start(b) - Window, Start(b)) <= b.limit
    /\ Through(requests, r, b.resetAt, End) = 0
    /\ \A from \in Int : Through(requests, r, from, from + Window) <= 2 * b.limit

BudgetInv ==
    \A r \in Registrations : Budgeted(spent, r, budgets[r], lastConsume[r])

QuotaInv ==
    /\ QuotaTypeOK
    /\ Numbered(spent)
    /\ Numbered(granted)
    /\ NewIsUnused
    /\ LimiterInv
    /\ BudgetInv

-------------------------------------------------------------------------------
(* The histories                                                           *)

(* A request let through is a new one.                                     *)
IsNew(pass, requests, r, time, last) ==
    /\ pass \in Passes /\ pass \notin requests
    /\ pass.by = r /\ pass.at = time /\ (pass.late <=> time < last)
    /\ Numbered(requests \union {pass})

LEMMA NextPassIsNew ==
    ASSUME NEW requests, requests \subseteq Passes, Numbered(requests),
           NEW r \in Registrations, NEW time \in Times, NEW last \in Times,
           NEW pass, pass = NextPass(requests, r, time, last)
    PROVE  IsNew(pass, requests, r, time, last)
<1> DEFINE then == {g \in requests : g.at = time}
<1>1. IsFiniteSet(requests) /\ IsFiniteSet(then)
  BY FS_Subset DEF Numbered
<1>2. Cardinality(then) \in Nat
  BY <1>1, FS_CardinalityType
<1>3. pass = [by |-> r, at |-> time, late |-> time < last, nth |-> Cardinality(then) + 1]
  BY DEF NextPass
<1>4. \A g \in requests : g.nth \in Nat
  BY DEF Passes
<1>5. \A g \in requests : g.at = time => g.nth <= Cardinality(then)
  BY DEF Numbered
<1> HIDE DEF then
<1>6. /\ pass \in Passes /\ pass.by = r /\ pass.at = time /\ (pass.late <=> time < last)
      /\ pass.nth = Cardinality(then) + 1
  <2>1. PICK late \in BOOLEAN : late = (time < last)
    <3>1. (time < last) \in BOOLEAN
      OBVIOUS
    <3> QED  BY <3>1, Zenon
  <2>2. PICK n \in Nat \ {0} : n = Cardinality(then) + 1
    BY <1>2
  <2>3. pass = [by |-> r, at |-> time, late |-> late, nth |-> n]
    BY <1>3, <2>1, <2>2
  <2>4. pass \in Passes
    BY <2>3 DEF Passes
  <2>5. pass.late = late
    BY <2>3
  <2>6. pass.late <=> time < last
    BY <2>1, <2>5, Zenon
  <2> QED  BY <2>2, <2>3, <2>4, <2>6
<1>7. pass \notin requests
  BY <1>2, <1>4, <1>5, <1>6
<1>8. IsFiniteSet(requests \union {pass})
  BY <1>1, FS_AddElement
<1>9. ASSUME NEW g \in requests \union {pass}
      PROVE  g.nth <= Cardinality({o \in requests \union {pass} : o.at = g.at})
  <2> DEFINE before == {o \in requests : o.at = g.at}
             after == {o \in requests \union {pass} : o.at = g.at}
  <2>1. IsFiniteSet(before) /\ Cardinality(before) \in Nat
    BY <1>1, FS_Subset, FS_CardinalityType
  <2>2. IsFiniteSet(after) /\ Cardinality(after) \in Nat
    BY <1>8, FS_Subset, FS_CardinalityType
  <2>3. CASE g = pass
    <3>1. before = then /\ after = then \union {pass} /\ pass \notin then
      BY <1>6, <1>7, <2>3 DEF then
    <3>2. Cardinality(after) = Cardinality(then) + 1
      <4> HIDE DEF before, after
      <4> QED  BY <1>1, <3>1, FS_AddElement
    <3> HIDE DEF after
    <3>3. g.nth <= Cardinality(after)
      BY <1>2, <1>6, <2>3, <3>2
    <3> QED  BY <3>3 DEF after
  <2>4. CASE g # pass
    <3>1. g \in requests /\ before \subseteq after
      BY <2>4
    <3>2. g.nth <= Cardinality(before)
      BY <3>1 DEF Numbered
    <3>3. g.nth \in Nat
      BY <1>4, <3>1
    <3> HIDE DEF before, after
    <3>4. Cardinality(before) <= Cardinality(after)
      BY <2>2, <3>1, FS_Subset
    <3>5. g.nth <= Cardinality(after)
      BY <2>1, <2>2, <3>2, <3>3, <3>4
    <3> QED  BY <3>5 DEF after
  <2> QED  BY <2>3, <2>4
<1>10. Numbered(requests \union {pass})
  BY <1>8, <1>9 DEF Numbered
<1> QED  BY <1>6, <1>7, <1>10 DEF IsNew

IsLater(new, last, r, time) ==
    /\ new \in [Registrations -> Times]
    /\ \A q \in Registrations : q # r => new[q] = last[q]
    /\ last[r] <= new[r] /\ time <= new[r]
    /\ ~ (time < last[r]) => new[r] = time
    /\ time < last[r] => new[r] = last[r]

LEMMA LaterTypes ==
    ASSUME NEW last \in [Registrations -> Times], NEW r \in Registrations, NEW time \in Times,
           NEW new, new = Later(last, r, time)
    PROVE  IsLater(new, last, r, time)
<1>1. Times \subseteq Nat
  BY MaxTimeAssumption DEF Times
<1>2. PICK t \in Times : t = (IF last[r] < time THEN time ELSE last[r])
  OBVIOUS
<1>3. new = [last EXCEPT ![r] = t]
  BY <1>2 DEF Later
<1>4. last[r] \in Nat /\ time \in Nat
  BY <1>1
<1>5. last[r] <= t /\ time <= t /\ (~ (time < last[r]) => t = time) /\ (time < last[r] => t = last[r])
  BY <1>2, <1>4
<1> QED  BY <1>3, <1>5 DEF IsLater

-------------------------------------------------------------------------------
(* What Consume and Allow do                                               *)

LEMMA CurrentBudget ==
    ASSUME NEW b \in Budgets, b.used <= b.limit, NEW time \in Times
    PROVE  /\ Current(b, time) \in Budgets
           /\ Current(b, time).limit = b.limit
           /\ Current(b, time).used <= b.limit
           /\ time < Current(b, time).resetAt
           /\ time < b.resetAt => Current(b, time) = b
           /\ ~ (time < b.resetAt) => /\ Current(b, time).used = 0
                                      /\ Current(b, time).resetAt = time + Window
<1>1. time \in Nat /\ Window \in Nat \ {0}
  BY MaxTimeAssumption, WindowAssumption DEF Times
<1>2. CASE time < b.resetAt
  BY <1>2 DEF Current
<1>3. CASE ~ (time < b.resetAt)
  <2>1. Current(b, time) = [limit |-> b.limit, used |-> 0, resetAt |-> time + Window]
    BY <1>3 DEF Current, Budgets
  <2>2. b.limit \in Nat /\ time + Window \in Nat /\ time < time + Window
    BY <1>1 DEF Budgets
  <2> QED  BY <1>3, <2>1, <2>2 DEF Budgets
<1> QED  BY <1>2, <1>3

(* Consume: a caller that has read the clock is let through or answered.   *)
LEMMA ConsumeSteps ==
    ASSUME QuotaTypeOK, NEW h \in Callers, Consume(h)
    PROVE  \E r \in budget, b \in Budgets, to \in {"idle", "allow"}, time \in Times :
              /\ b = Current(budgets[r], at[h])
              /\ lastConsume' = Later(lastConsume, r, at[h])
              /\ stage' = [stage EXCEPT ![h] = to]
              /\ at' = [at EXCEPT ![h] = time]
              /\ UNCHANGED <<clock, maps, registration, granting>>
              /\ \/ /\ budgets' = [budgets EXCEPT ![r] = b]
                    /\ spent' = spent
                 \/ /\ b.used < b.limit
                    /\ budgets' = [budgets EXCEPT ![r] = [b EXCEPT !.used = @ + 1]]
                    /\ spent' = spent \union {NextPass(spent, r, at[h], lastConsume[r])}
<1>1. PICK r \in budget :
         LET b == Current(budgets[r], at[h]) IN
         /\ IF b.used >= b.limit
            THEN /\ budgets' = [budgets EXCEPT ![r] = b]
                 /\ Answer(h)
                 /\ UNCHANGED spent
            ELSE /\ budgets' = [budgets EXCEPT ![r] = [b EXCEPT !.used = @ + 1]]
                 /\ Goto(h, "allow") /\ UNCHANGED at
                 /\ spent' = spent \union {NextPass(spent, r, at[h], lastConsume[r])}
         /\ lastConsume' = Later(lastConsume, r, at[h])
  BY DEF Consume
<1>2. r \in Registrations /\ at[h] \in Times /\ at \in [Callers -> Times] /\ 0 \in Times
  <2>1. budget \subseteq Registrations /\ at \in [Callers -> Times]
    BY DEF QuotaTypeOK
  <2>2. 0 \in Times
    BY MaxTimeAssumption DEF Times
  <2> QED  BY <2>1, <2>2
<1>3. budgets[r] \in Budgets /\ budgets[r].used <= budgets[r].limit
  BY <1>2 DEF QuotaTypeOK
<1>4. PICK b \in Budgets : b = Current(budgets[r], at[h])
  BY <1>2, <1>3, CurrentBudget
<1>5. b.used \in Nat /\ b.limit \in Nat
  BY DEF Budgets
<1>6. UNCHANGED <<clock, maps, registration, granting>>
  BY DEF Consume
<1>7. CASE b.used >= b.limit
  <2>1. stage' = [stage EXCEPT ![h] = "idle"] /\ at' = [at EXCEPT ![h] = 0]
    BY <1>1, <1>4, <1>7 DEF Answer, Goto
  <2> QED  BY <1>1, <1>2, <1>4, <1>6, <1>7, <2>1
<1>8. CASE ~ (b.used >= b.limit)
  <2>1. stage' = [stage EXCEPT ![h] = "allow"] /\ at' = [at EXCEPT ![h] = at[h]]
    BY <1>1, <1>2, <1>4, <1>8 DEF Goto
  <2>2. b.used < b.limit
    BY <1>5, <1>8
  <2> QED  BY <1>1, <1>2, <1>4, <1>6, <1>8, <2>1, <2>2
<1> QED  BY <1>7, <1>8

(* Allow: a caller that has passed the budget is answered.                 *)
LEMMA AllowSteps ==
    ASSUME QuotaTypeOK, NEW h \in Callers, Allow(h)
    PROVE  \E r \in limiter :
              /\ lastAllow' = Later(lastAllow, r, at[h])
              /\ stage' = [stage EXCEPT ![h] = "idle"] /\ at' = [at EXCEPT ![h] = 0]
              /\ UNCHANGED <<clock, maps, registration, spending>>
              /\ \/ /\ limiters' = [limiters EXCEPT ![r].entries = Kept(limiters[r].entries, at[h])]
                    /\ granted' = granted
                 \/ /\ ~ (Cardinality(Kept(limiters[r].entries, at[h])) >= limiters[r].limit)
                    /\ limiters' = [limiters EXCEPT ![r].entries =
                                      Kept(limiters[r].entries, at[h])
                                      \union {NextPass(granted, r, at[h], lastAllow[r])}]
                    /\ granted' = granted \union {NextPass(granted, r, at[h], lastAllow[r])}
<1>1. PICK r \in limiter :
         LET kept == Kept(limiters[r].entries, at[h])
             grant == NextPass(granted, r, at[h], lastAllow[r])
         IN
         /\ IF Cardinality(kept) >= limiters[r].limit
            THEN /\ limiters' = [limiters EXCEPT ![r].entries = kept]
                 /\ UNCHANGED granted
            ELSE /\ limiters' = [limiters EXCEPT ![r].entries = kept \union {grant}]
                 /\ granted' = granted \union {grant}
         /\ lastAllow' = Later(lastAllow, r, at[h])
  BY DEF Allow
<1>2. /\ UNCHANGED <<clock, maps, registration, spending>>
      /\ stage' = [stage EXCEPT ![h] = "idle"] /\ at' = [at EXCEPT ![h] = 0]
  BY DEF Allow, Answer, Goto
<1> QED  BY <1>1, <1>2


-------------------------------------------------------------------------------
(* Types and histories                                                     *)

LEMMA QuotaTypeStep ==
    QuotaTypeOK /\ Numbered(spent) /\ Numbered(granted) /\ [QuotaNext]_quotaVars => QuotaTypeOK'
<1> DEFINE places == {"idle", "policy", "find budget", "make budget",
                      "find limiter", "make limiter", "done"}
           stages == {"idle", "clock", "consume", "allow"}
<1> SUFFICES ASSUME QuotaTypeOK, Numbered(spent), Numbered(granted), [QuotaNext]_quotaVars
             PROVE  QuotaTypeOK'
  OBVIOUS
<1>1. /\ clock \in Times
      /\ policy \subseteq Registrations /\ AtMostOne(policy)
      /\ budget \subseteq Registrations /\ AtMostOne(budget)
      /\ limiter \subseteq Registrations /\ AtMostOne(limiter)
      /\ budgets \in [Registrations -> Budgets]
      /\ \A r \in Registrations : budgets[r].used <= budgets[r].limit
      /\ limiters \in [Registrations -> Limiters]
      /\ \A r \in Registrations : Cardinality(limiters[r].entries) <= limiters[r].limit
      /\ register \in [Registrations -> places]
      /\ noted \in [Registrations -> Times]
      /\ stage \in [Callers -> stages]
      /\ at \in [Callers -> Times]
      /\ spent \subseteq Passes /\ granted \subseteq Passes
      /\ lastConsume \in [Registrations -> Times]
      /\ lastAllow \in [Registrations -> Times]
  BY DEF QuotaTypeOK
<1>2. Times \subseteq Nat /\ 0 \in Times
  BY MaxTimeAssumption DEF Times
<1>3. CASE UNCHANGED quotaVars
  BY <1>1, <1>3 DEF QuotaTypeOK, Limiters, quotaVars, maps, registration, spending, granting, authorization
<1>4. CASE Tick
  <2>1. clock' \in Times
    <3>1. clock \in Times /\ clock < MaxTime /\ clock' = clock + 1
      BY <1>1, <1>4 DEF Tick
    <3> QED  BY <3>1, MaxTimeAssumption DEF Times
  <2> QED  BY <1>1, <1>4, <2>1 DEF QuotaTypeOK, Limiters, Tick, maps, registration, spending, granting, authorization
<1>5. ASSUME NEW r \in Registrations, BeginRegister(r) \/ FindBudget(r) \/ FindLimiter(r) PROVE QuotaTypeOK'
  <2>1. register' \in [Registrations -> places] /\ noted' \in [Registrations -> Times]
    <3>1. /\ noted' = [noted EXCEPT ![r] = clock] \/ noted' = [noted EXCEPT ![r] = 0] \/ noted' = noted
          /\ \E place \in places : register' = [register EXCEPT ![r] = place]
      BY <1>5 DEF BeginRegister, FindBudget, FindLimiter, Proceed
    <3>2. /\ register \in [Registrations -> places] /\ noted \in [Registrations -> Times]
          /\ clock \in Times /\ 0 \in Times
      BY <1>1, <1>2
    <3> HIDE DEF places
    <3> QED  BY <3>1, <3>2
  <2>2. UNCHANGED <<clock, maps, spending, granting, authorization>>
    BY <1>5 DEF BeginRegister, FindBudget, FindLimiter
  <2> QED  BY <1>1, <2>1, <2>2 DEF QuotaTypeOK, Limiters, maps, spending, granting, authorization
<1>6. ASSUME NEW r \in Registrations, RegisterPolicy(r) PROVE QuotaTypeOK'
  <2>1. register' \in [Registrations -> places] /\ policy' = {r}
        /\ UNCHANGED <<clock, budget, limiter, noted, spending, granting, authorization>>
    BY <1>1, <1>6 DEF RegisterPolicy, Proceed
  <2>2. policy' \subseteq Registrations /\ AtMostOne(policy')
    BY <2>1 DEF AtMostOne
  <2> QED  BY <1>1, <2>1, <2>2 DEF QuotaTypeOK, Limiters, AtMostOne, spending, granting, authorization
<1>7. ASSUME NEW r \in Registrations, RegisterBudget(r) PROVE QuotaTypeOK'
  <2>1. PICK b : b = NewBudget(Policy[r], noted[r])
    OBVIOUS
  <2>2. b \in Budgets /\ b.used <= b.limit
    <3>1. Policy[r].cap \in Nat /\ noted[r] + Window \in Nat
      <4>1. noted[r] \in Nat
        BY <1>1, <1>2
      <4> QED  BY <4>1, PolicyAssumption, WindowAssumption
    <3> QED  BY <2>1, <3>1 DEF NewBudget, Budgets
  <2>3. /\ register' \in [Registrations -> places] /\ noted' \in [Registrations -> Times]
        /\ budget' = {r} /\ budgets' = [budgets EXCEPT ![r] = b]
        /\ UNCHANGED <<clock, policy, limiter, spent, lastConsume, granting, authorization>>
    BY <1>1, <1>2, <1>7, <2>1 DEF RegisterBudget, Proceed
  <2>4. budgets' \in [Registrations -> Budgets] /\ \A q \in Registrations : budgets'[q].used <= budgets'[q].limit
    BY <1>1, <2>2, <2>3
  <2>5. budget' \subseteq Registrations /\ AtMostOne(budget')
    BY <2>3 DEF AtMostOne
  <2> QED  BY <1>1, <2>3, <2>4, <2>5 DEF QuotaTypeOK, Limiters, AtMostOne, granting, authorization
<1>8. ASSUME NEW r \in Registrations, RegisterLimiter(r) PROVE QuotaTypeOK'
  <2>1. PICK l : l = NewRateLimiter(Policy[r])
    OBVIOUS
  <2>2. l \in Limiters /\ Cardinality(l.entries) <= l.limit
    <3>1. Policy[r].rate \in Nat
      BY PolicyAssumption
    <3>2. l.entries = {} /\ l.limit \in Nat /\ l = [limit |-> l.limit, entries |-> {}]
      BY <2>1, <3>1 DEF NewRateLimiter
    <3> QED  BY <3>2, FS_EmptySet DEF Limiters
  <2>3. /\ register' \in [Registrations -> places]
        /\ limiter' = {r} /\ limiters' = [limiters EXCEPT ![r] = l]
        /\ UNCHANGED <<clock, policy, budget, noted, spending, granted, lastAllow, authorization>>
    BY <1>1, <1>8, <2>1 DEF RegisterLimiter, Proceed
  <2>4. limiters' \in [Registrations -> Limiters]
        /\ \A q \in Registrations : Cardinality(limiters'[q].entries) <= limiters'[q].limit
    BY <1>1, <2>2, <2>3
  <2>5. limiter' \subseteq Registrations /\ AtMostOne(limiter')
    BY <2>3 DEF AtMostOne
  <2>6. Limiters' = Limiters
    BY <2>3 DEF Limiters
  <2> QED  BY <1>1, <2>3, <2>4, <2>5, <2>6 DEF QuotaTypeOK, AtMostOne, spending, authorization
<1>9. ASSUME NEW h \in Callers, ReadPolicy(h) \/ ReadClock(h) \/ NilPointer(h) PROVE QuotaTypeOK'
  <2>1. stage' \in [Callers -> stages] /\ at' \in [Callers -> Times]
    BY <1>1, <1>2, <1>9 DEF ReadPolicy, ReadClock, NilPointer, Answer, Goto
  <2>2. UNCHANGED <<clock, maps, registration, spending, granting>>
    BY <1>9 DEF ReadPolicy, ReadClock, NilPointer
  <2> QED  BY <1>1, <2>1, <2>2 DEF QuotaTypeOK, Limiters, maps, registration, spending, granting
<1>10. ASSUME NEW h \in Callers, Consume(h) PROVE QuotaTypeOK'
  <2>1. PICK r \in budget, b \in Budgets, to \in {"idle", "allow"}, time \in Times :
              /\ b = Current(budgets[r], at[h])
              /\ lastConsume' = Later(lastConsume, r, at[h])
              /\ stage' = [stage EXCEPT ![h] = to]
              /\ at' = [at EXCEPT ![h] = time]
              /\ UNCHANGED <<clock, maps, registration, granting>>
              /\ \/ /\ budgets' = [budgets EXCEPT ![r] = b]
                    /\ spent' = spent
                 \/ /\ b.used < b.limit
                    /\ budgets' = [budgets EXCEPT ![r] = [b EXCEPT !.used = @ + 1]]
                    /\ spent' = spent \union {NextPass(spent, r, at[h], lastConsume[r])}
    BY <1>10, ConsumeSteps
  <2>2. r \in Registrations /\ at[h] \in Times /\ budgets[r] \in Budgets /\ budgets[r].used <= budgets[r].limit
    BY <1>1, <2>1
  <2>3. b.limit = budgets[r].limit /\ b.used <= b.limit
    BY <2>1, <2>2, CurrentBudget
  <2>4. PICK c \in Budgets : budgets' = [budgets EXCEPT ![r] = c] /\ c.used <= c.limit
    <3>1. CASE budgets' = [budgets EXCEPT ![r] = b]
      BY <2>3, <3>1
    <3>2. CASE b.used < b.limit /\ budgets' = [budgets EXCEPT ![r] = [b EXCEPT !.used = @ + 1]]
      <4>1. PICK d : d = [b EXCEPT !.used = @ + 1]
        OBVIOUS
      <4>2. d = [limit |-> b.limit, used |-> b.used + 1, resetAt |-> b.resetAt]
        BY <4>1 DEF Budgets
      <4>3. d \in Budgets /\ d.used <= d.limit
        BY <3>2, <4>2 DEF Budgets
      <4> QED  BY <3>2, <4>1, <4>3
    <3> QED  BY <2>1, <3>1, <3>2
  <2>5. budgets' \in [Registrations -> Budgets] /\ \A q \in Registrations : budgets'[q].used <= budgets'[q].limit
    BY <1>1, <2>4
  <2>6. spent' \subseteq Passes
    <3>1. PICK pass : pass = NextPass(spent, r, at[h], lastConsume[r])
      OBVIOUS
    <3>2. lastConsume[r] \in Times /\ spent \subseteq Passes
      BY <1>1, <2>2
    <3>3. IsNew(pass, spent, r, at[h], lastConsume[r])
      BY <2>2, <3>1, <3>2, NextPassIsNew
    <3>4. spent' = spent \/ spent' = spent \union {pass}
      BY <2>1, <3>1
    <3> QED  BY <3>2, <3>3, <3>4 DEF IsNew
  <2>7. lastConsume' \in [Registrations -> Times]
    BY <1>1, <2>1, <2>2, LaterTypes DEF IsLater
  <2>8. stage' \in [Callers -> stages] /\ at' \in [Callers -> Times]
    BY <1>1, <2>1
  <2>9. UNCHANGED <<clock, maps, registration, granting>>
    BY <2>1
  <2> QED  BY <1>1, <2>5, <2>6, <2>7, <2>8, <2>9 DEF QuotaTypeOK, Limiters, maps, registration, granting
<1>11. ASSUME NEW h \in Callers, Allow(h) PROVE QuotaTypeOK'
  <2>1. PICK r \in limiter :
              /\ lastAllow' = Later(lastAllow, r, at[h])
              /\ stage' = [stage EXCEPT ![h] = "idle"] /\ at' = [at EXCEPT ![h] = 0]
              /\ UNCHANGED <<clock, maps, registration, spending>>
              /\ \/ /\ limiters' = [limiters EXCEPT ![r].entries = Kept(limiters[r].entries, at[h])]
                    /\ granted' = granted
                 \/ /\ ~ (Cardinality(Kept(limiters[r].entries, at[h])) >= limiters[r].limit)
                    /\ limiters' = [limiters EXCEPT ![r].entries =
                                      Kept(limiters[r].entries, at[h])
                                      \union {NextPass(granted, r, at[h], lastAllow[r])}]
                    /\ granted' = granted \union {NextPass(granted, r, at[h], lastAllow[r])}
    BY <1>11, AllowSteps
  <2>2. PICK kept, pass : /\ kept = Kept(limiters[r].entries, at[h])
                          /\ pass = NextPass(granted, r, at[h], lastAllow[r])
    OBVIOUS
  <2>2a. PICK l \in Limiters : l = limiters[r] /\ Cardinality(l.entries) <= l.limit
    BY <1>1, <2>1
  <2>3. r \in Registrations /\ at[h] \in Times /\ lastAllow[r] \in Times /\ granted \subseteq Passes
    BY <1>1, <2>1
  <2>4. pass \in Passes
    <3>1. IsNew(pass, granted, r, at[h], lastAllow[r])
      BY <2>2, <2>3, NextPassIsNew
    <3> QED  BY <3>1 DEF IsNew
  <2>5. l.limit \in Nat /\ l.entries \subseteq granted /\ kept \subseteq l.entries
    BY <2>2, <2>2a DEF Limiters, Kept
  <2>6. /\ IsFiniteSet(kept) /\ Cardinality(kept) \in Nat /\ Cardinality(l.entries) \in Nat
        /\ Cardinality(kept) <= Cardinality(l.entries)
    <3>1. IsFiniteSet(l.entries) /\ Cardinality(l.entries) \in Nat
      BY <2>5, FS_Subset, FS_CardinalityType DEF Numbered
    <3> QED  BY <2>5, <3>1, FS_Subset, FS_CardinalityType
  <2>7. PICK entries : /\ limiters' = [limiters EXCEPT ![r].entries = entries]
                       /\ entries \subseteq granted' /\ Cardinality(entries) <= l.limit
                       /\ granted \subseteq granted' /\ granted' \subseteq Passes
    <3>1. CASE limiters' = [limiters EXCEPT ![r].entries = kept] /\ granted' = granted
      <4>1. Cardinality(kept) <= l.limit
        BY <2>5, <2>6, <2>2a
      <4> QED  BY <2>3, <2>5, <3>1, <4>1
    <3>2. CASE /\ ~ (Cardinality(kept) >= l.limit)
               /\ limiters' = [limiters EXCEPT ![r].entries = kept \union {pass}]
               /\ granted' = granted \union {pass}
      <4>1. Cardinality(kept \union {pass}) <= Cardinality(kept) + 1
            /\ Cardinality(kept \union {pass}) \in Nat
        <5>1. kept \subseteq kept \union {pass} /\ IsFiniteSet(kept \union {pass})
          BY <2>6, FS_AddElement
        <5>2. CASE pass \in kept
          <6>1. kept \union {pass} = kept
            BY <5>2
          <6>2. Cardinality(kept) <= Cardinality(kept) + 1
            BY <2>6
          <6> QED  BY <2>6, <6>1, <6>2, Zenon
        <5>3. CASE pass \notin kept
          BY <2>6, <5>1, <5>3, FS_AddElement, FS_CardinalityType
        <5> QED  BY <5>2, <5>3
      <4>2. Cardinality(kept \union {pass}) <= l.limit
        BY <2>5, <2>6, <3>2, <4>1
      <4> QED  BY <2>3, <2>4, <2>5, <3>2, <4>2
    <3> QED  BY <2>1, <2>2, <2>2a, <3>1, <3>2
  <2>8. PICK m : m = [limit |-> l.limit, entries |-> entries]
    OBVIOUS
  <2>9. m \in Limiters' /\ Cardinality(m.entries) <= m.limit
    BY <2>5, <2>7, <2>8 DEF Limiters
  <2>10. limiters' = [limiters EXCEPT ![r] = m]
    <3>1. limiters \in [Registrations -> Limiters]
      BY <1>1
    <3>2. m = [l EXCEPT !.entries = entries]
      BY <2>8 DEF Limiters
    <3>3. m = [limiters[r] EXCEPT !.entries = entries]
      BY <2>2a, <3>2
    <3> QED  BY <2>7, <3>3
  <2>11. \A q \in Registrations : limiters[q] \in Limiters'
    BY <1>1, <2>7 DEF Limiters
  <2>12. limiters' \in [Registrations -> Limiters']
         /\ \A q \in Registrations : Cardinality(limiters'[q].entries) <= limiters'[q].limit
    BY <1>1, <2>3, <2>9, <2>10, <2>11
  <2>13. lastAllow' \in [Registrations -> Times]
    BY <1>1, <2>1, <2>3, LaterTypes DEF IsLater
  <2>14. stage' \in [Callers -> stages] /\ at' \in [Callers -> Times]
    BY <1>1, <1>2, <2>1
  <2>15. UNCHANGED <<clock, maps, registration, spending>>
    BY <2>1
  <2> QED  BY <1>1, <2>7, <2>12, <2>13, <2>14, <2>15 DEF QuotaTypeOK, maps, registration, spending
<1> QED
  BY <1>3, <1>4, <1>5, <1>6, <1>7, <1>8, <1>9, <1>10, <1>11 DEF QuotaNext, Register, Authorize

(* Nothing but these steps touches a budget, or a limiter.                 *)
LEMMA SpendingSteps ==
    ASSUME [QuotaNext]_quotaVars
    PROVE  \/ UNCHANGED spending
           \/ \E r \in Registrations : RegisterBudget(r)
           \/ \E h \in Callers : Consume(h)
<1>1. CASE UNCHANGED quotaVars
  BY <1>1 DEF quotaVars
<1>2. CASE Tick
  BY <1>2 DEF Tick
<1>3. ASSUME NEW r \in Registrations, Register(r) PROVE UNCHANGED spending \/ RegisterBudget(r)
  BY <1>3 DEF Register, BeginRegister, RegisterPolicy, FindBudget, FindLimiter, RegisterLimiter
<1>4. ASSUME NEW h \in Callers, Authorize(h) PROVE UNCHANGED spending \/ Consume(h)
  BY <1>4 DEF Authorize, ReadPolicy, ReadClock, NilPointer, Allow
<1> QED  BY <1>1, <1>2, <1>3, <1>4 DEF QuotaNext

LEMMA GrantingSteps ==
    ASSUME [QuotaNext]_quotaVars
    PROVE  \/ UNCHANGED granting
           \/ \E r \in Registrations : RegisterLimiter(r)
           \/ \E h \in Callers : Allow(h)
<1>1. CASE UNCHANGED quotaVars
  BY <1>1 DEF quotaVars
<1>2. CASE Tick
  BY <1>2 DEF Tick
<1>3. ASSUME NEW r \in Registrations, Register(r) PROVE UNCHANGED granting \/ RegisterLimiter(r)
  BY <1>3 DEF Register, BeginRegister, RegisterPolicy, FindBudget, FindLimiter, RegisterBudget
<1>4. ASSUME NEW h \in Callers, Authorize(h) PROVE UNCHANGED granting \/ Allow(h)
  BY <1>4 DEF Authorize, ReadPolicy, ReadClock, NilPointer, Consume
<1> QED  BY <1>1, <1>2, <1>3, <1>4 DEF QuotaNext

LEMMA NumberedStep ==
    QuotaTypeOK /\ Numbered(spent) /\ Numbered(granted) /\ [QuotaNext]_quotaVars
    => Numbered(spent') /\ Numbered(granted')
<1> SUFFICES ASSUME QuotaTypeOK, Numbered(spent), Numbered(granted), [QuotaNext]_quotaVars
             PROVE  Numbered(spent') /\ Numbered(granted')
  OBVIOUS
<1>1. ASSUME NEW h \in Callers, Consume(h) PROVE Numbered(spent')
  <2>1. PICK r \in budget : spent' = spent \/ spent' = spent \union {NextPass(spent, r, at[h], lastConsume[r])}
    BY <1>1, ConsumeSteps
  <2>2. r \in Registrations /\ at[h] \in Times /\ lastConsume[r] \in Times /\ spent \subseteq Passes
    BY DEF QuotaTypeOK
  <2>3. PICK pass : pass = NextPass(spent, r, at[h], lastConsume[r])
    OBVIOUS
  <2>4. IsNew(pass, spent, r, at[h], lastConsume[r])
    BY <2>2, <2>3, NextPassIsNew
  <2> QED  BY <2>1, <2>3, <2>4 DEF IsNew
<1>2. ASSUME NEW h \in Callers, Allow(h) PROVE Numbered(granted')
  <2>1. PICK r \in limiter : granted' = granted \/ granted' = granted \union {NextPass(granted, r, at[h], lastAllow[r])}
    BY <1>2, AllowSteps
  <2>2. r \in Registrations /\ at[h] \in Times /\ lastAllow[r] \in Times /\ granted \subseteq Passes
    BY DEF QuotaTypeOK
  <2>3. PICK pass : pass = NextPass(granted, r, at[h], lastAllow[r])
    OBVIOUS
  <2>4. IsNew(pass, granted, r, at[h], lastAllow[r])
    BY <2>2, <2>3, NextPassIsNew
  <2> QED  BY <2>1, <2>3, <2>4 DEF IsNew
<1>3. \A r \in Registrations : RegisterBudget(r) => spent' = spent
  BY DEF RegisterBudget
<1>4. \A r \in Registrations : RegisterLimiter(r) => granted' = granted
  BY DEF RegisterLimiter
<1>5. UNCHANGED spending => spent' = spent
  BY DEF spending
<1>6. UNCHANGED granting => granted' = granted
  BY DEF granting
<1> QED  BY <1>1, <1>2, <1>3, <1>4, <1>5, <1>6, SpendingSteps, GrantingSteps

LEMMA NewIsUnusedStep == QuotaTypeOK /\ NewIsUnused /\ [QuotaNext]_quotaVars => NewIsUnused'
<1> SUFFICES ASSUME QuotaTypeOK, NewIsUnused, [QuotaNext]_quotaVars PROVE NewIsUnused'
  OBVIOUS
<1> USE DEF Unset, Installed
<1>1. DOMAIN register = Registrations
  BY DEF QuotaTypeOK
<1>2. CASE UNCHANGED <<maps, registration, spending, granting>>
  BY <1>2 DEF NewIsUnused, maps, registration, spending, granting
<1>3. ASSUME NEW r \in Registrations, BeginRegister(r) \/ RegisterPolicy(r) \/ FindBudget(r) \/ FindLimiter(r)
      PROVE  NewIsUnused'
  <2>1. UNCHANGED <<budget, limiter, spent, granted>>
    BY <1>3 DEF BeginRegister, RegisterPolicy, FindBudget, FindLimiter, maps, spending, granting
  <2>2. \A q \in Registrations : q # r => register'[q] = register[q]
    BY <1>1, <1>3 DEF BeginRegister, RegisterPolicy, FindBudget, FindLimiter, Proceed
  <2>3. register'[r] = "make budget" => budget = {}
    BY <1>1, <1>3 DEF BeginRegister, RegisterPolicy, FindBudget, FindLimiter, Proceed
  <2>4. register'[r] = "make limiter" => limiter = {}
    BY <1>1, <1>3 DEF BeginRegister, RegisterPolicy, FindBudget, FindLimiter, Proceed
  <2> QED  BY <2>1, <2>2, <2>3, <2>4 DEF NewIsUnused
<1>4. ASSUME NEW r \in Registrations, RegisterBudget(r) PROVE NewIsUnused'
  <2>1. /\ budget' = {r} /\ UNCHANGED <<limiter, spent, granted>>
        /\ register' = [register EXCEPT ![r] = "find limiter"]
    BY <1>4 DEF RegisterBudget, Proceed, granting
  <2>2. \A q \in Registrations : q # r => register'[q] = register[q]
    BY <1>1, <2>1
  <2>3. register'[r] = "find limiter"
    BY <1>1, <2>1
  <2> QED  BY <2>1, <2>2, <2>3 DEF NewIsUnused
<1>5. ASSUME NEW r \in Registrations, RegisterLimiter(r) PROVE NewIsUnused'
  <2>1. /\ limiter' = {r} /\ UNCHANGED <<budget, spent, granted>>
        /\ register' = [register EXCEPT ![r] = "done"]
    BY <1>5 DEF RegisterLimiter, Proceed, spending
  <2>2. \A q \in Registrations : q # r => register'[q] = register[q]
    BY <1>1, <2>1
  <2>3. register'[r] = "done"
    BY <1>1, <2>1
  <2> QED  BY <2>1, <2>2, <2>3 DEF NewIsUnused
<1>6. ASSUME NEW h \in Callers, Consume(h) PROVE NewIsUnused'
  <2>1. PICK r \in budget : /\ UNCHANGED <<maps, registration, granting>>
                            /\ spent' = spent \/ spent' = spent \union {NextPass(spent, r, at[h], lastConsume[r])}
    BY <1>6, ConsumeSteps
  <2>2. NextPass(spent, r, at[h], lastConsume[r]).by = r
    BY DEF NextPass
  <2>3. \A g \in spent' : g \in spent \/ g.by = r
    BY <2>1, <2>2
  <2>4. UNCHANGED <<budget, limiter, register, granted>>
    BY <2>1 DEF maps, registration, granting
  <2> QED  BY <2>1, <2>3, <2>4 DEF NewIsUnused
<1>7. ASSUME NEW h \in Callers, Allow(h) PROVE NewIsUnused'
  <2>1. PICK r \in limiter : /\ UNCHANGED <<maps, registration, spending>>
                             /\ granted' = granted \/ granted' = granted \union {NextPass(granted, r, at[h], lastAllow[r])}
    BY <1>7, AllowSteps
  <2>2. NextPass(granted, r, at[h], lastAllow[r]).by = r
    BY DEF NextPass
  <2>3. \A g \in granted' : g \in granted \/ g.by = r
    BY <2>1, <2>2
  <2>4. UNCHANGED <<budget, limiter, register, spent>>
    BY <2>1 DEF maps, registration, spending
  <2> QED  BY <2>1, <2>3, <2>4 DEF NewIsUnused
<1>8. ASSUME NEW h \in Callers, ReadPolicy(h) \/ ReadClock(h) \/ NilPointer(h)
      PROVE  UNCHANGED <<maps, registration, spending, granting>>
  BY <1>8 DEF ReadPolicy, ReadClock, NilPointer
<1>9. Tick \/ UNCHANGED quotaVars => UNCHANGED <<maps, registration, spending, granting>>
  BY DEF Tick, quotaVars
<1> QED
  BY <1>2, <1>3, <1>4, <1>5, <1>6, <1>7, <1>8, <1>9 DEF QuotaNext, Register, Authorize

-------------------------------------------------------------------------------
(* The limiter                                                             *)

(* A request of a limiter touches no window of another.                    *)
LEMMA OthersLimited ==
    ASSUME NEW requests, NEW pass, NEW r, pass.by # r, NEW l, NEW last, Limited(requests, r, l, last)
    PROVE  Limited(requests \union {pass}, r, l, last)
<1>1. \A time : InWindow(requests \union {pass}, r, time) = InWindow(requests, r, time)
  BY DEF InWindow
<1> QED  BY <1>1 DEF Limited

(* A call that finds the limiter at its limit.                             *)
LEMMA KeptLimited ==
    ASSUME NEW requests, requests \subseteq Passes, NEW r, NEW l, NEW m,
           NEW time \in Times, NEW last \in Times, NEW later \in Times,
           Limited(requests, r, l, last), time <= later, last <= later,
           m.limit = l.limit, m.entries = Kept(l.entries, time)
    PROVE  Limited(requests, r, m, later)
<1>1. /\ time \in Nat /\ last \in Nat /\ later \in Nat /\ Window \in Nat
      /\ \A g \in requests : g.at \in Nat
  BY MaxTimeAssumption, WindowAssumption DEF Times, Passes
<1>2. ASSUME NEW g \in requests, g.by = r, g.at + Window > later PROVE g \in m.entries
  <2>1. g.at + Window > last /\ g.at + Window > time
    BY <1>1, <1>2
  <2> QED  BY <1>2, <2>1 DEF Limited, Kept
<1> QED  BY <1>2 DEF Limited

(* A call that is let through: of a window that holds its time the limiter *)
(* still has everything.                                                   *)
LEMMA GrantLimited ==
    ASSUME NEW requests, NEW r \in Registrations, NEW l, NEW m, NEW pass,
           NEW time \in Times, NEW last \in Times, NEW later \in Times,
           requests \subseteq Passes, IsNew(pass, requests, r, time, last),
           Limited(requests, r, l, last), time <= later, last <= later,
           time < last => later = last,
           m.limit = l.limit, m.limit \in Nat, m.entries = Kept(l.entries, time) \union {pass},
           IsFiniteSet(m.entries), Cardinality(m.entries) <= m.limit
    PROVE  Limited(requests \union {pass}, r, m, later)
<1>1. /\ time \in Nat /\ last \in Nat /\ later \in Nat /\ Window \in Nat \ {0} /\ Times \subseteq Nat
      /\ \A g \in requests : g.at \in Nat
  BY MaxTimeAssumption, WindowAssumption DEF Times, Passes
<1>2. pass.at = time /\ pass.by = r
  BY DEF IsNew
<1>3. ASSUME NEW g \in requests \union {pass}, g.by = r, g.at + Window > later PROVE g \in m.entries
  <2>1. CASE g \in requests
    <3>1. g.at + Window > last /\ g.at + Window > time
      BY <1>1, <1>3, <2>1
    <3> QED  BY <1>3, <2>1, <3>1 DEF Limited, Kept
  <2> QED  BY <2>1
<1>4. ASSUME NEW moment \in Times
      PROVE  Cardinality(InWindow(requests \union {pass}, r, moment)) <= m.limit
  <2> DEFINE before == InWindow(requests, r, moment)
             after == InWindow(requests \union {pass}, r, moment)
  <2>1. Cardinality(before) <= m.limit
    BY DEF Limited
  <2>2. CASE ~ pass.late /\ time <= moment /\ moment < time + Window
    <3>1. ~ (time < last)
      BY <2>2 DEF IsNew
    <3>2. \A g \in requests : g.by = r /\ g.at + Window > moment => g \in m.entries
      <4> SUFFICES ASSUME NEW g \in requests, g.by = r, g.at + Window > moment PROVE g \in m.entries
        OBVIOUS
      <4>1. g.at + Window > last /\ g.at + Window > time
        BY <1>1, <2>2, <3>1
      <4> QED  BY <4>1 DEF Limited, Kept
    <3>3. after \subseteq m.entries
      BY <3>2 DEF InWindow
    <3> HIDE DEF after
    <3>4. IsFiniteSet(after) /\ Cardinality(after) <= Cardinality(m.entries)
      BY <3>3, FS_Subset
    <3>5. Cardinality(after) \in Nat /\ Cardinality(m.entries) \in Nat
      BY <3>4, FS_CardinalityType
    <3>6. Cardinality(after) <= m.limit
      BY <3>4, <3>5
    <3> QED  BY <3>6 DEF after
  <2>3. CASE ~ (~ pass.late /\ time <= moment /\ moment < time + Window)
    <3>1. ~ (~ pass.late /\ pass.at <= moment /\ pass.at + Window > moment)
      BY <1>1, <1>2, <2>3
    <3>2. after = before
      BY <3>1 DEF InWindow
    <3> QED  BY <2>1, <3>2
  <2> QED  BY <2>2, <2>3
<1> QED  BY <1>3, <1>4 DEF Limited

LEMMA LimiterStep ==
    /\ QuotaTypeOK /\ Numbered(spent) /\ Numbered(granted) /\ NewIsUnused /\ LimiterInv
    /\ [QuotaNext]_quotaVars
    => LimiterInv'
<1> SUFFICES ASSUME QuotaTypeOK, Numbered(spent), Numbered(granted), NewIsUnused, LimiterInv,
                    [QuotaNext]_quotaVars,
                    NEW q \in Registrations
             PROVE  Limited(granted', q, limiters'[q], lastAllow'[q])
  BY DEF LimiterInv
<1>1. Limited(granted, q, limiters[q], lastAllow[q])
  BY DEF LimiterInv
<1>2. CASE UNCHANGED granting
  BY <1>1, <1>2 DEF granting
<1>3. ASSUME NEW r \in Registrations, RegisterLimiter(r)
      PROVE  Limited(granted', q, limiters'[q], lastAllow'[q])
  <2>1. /\ register[r] = "make limiter" /\ granted' = granted /\ lastAllow' = lastAllow
        /\ limiters' = [limiters EXCEPT ![r] = NewRateLimiter(Policy[r])]
    BY <1>3 DEF RegisterLimiter, Proceed
  <2>2. CASE q # r
    <3>1. limiters'[q] = limiters[q]
      BY <2>1, <2>2 DEF QuotaTypeOK
    <3> QED  BY <1>1, <2>1, <3>1
  <2>3. CASE q = r
    <3>1. \A g \in granted : g.by # q
      BY <2>1, <2>3 DEF NewIsUnused
    <3>2. \A time : InWindow(granted, q, time) = {}
      BY <3>1 DEF InWindow
    <3>3. limiters'[q].limit \in Nat
      BY QuotaTypeStep DEF QuotaTypeOK, Limiters
    <3>4. \A time : Cardinality(InWindow(granted, q, time)) <= limiters'[q].limit
      BY <3>2, <3>3, FS_EmptySet
    <3> QED  BY <2>1, <3>1, <3>4 DEF Limited
  <2> QED  BY <2>2, <2>3
<1>4. ASSUME NEW h \in Callers, Allow(h)
      PROVE  Limited(granted', q, limiters'[q], lastAllow'[q])
  <2>1. PICK r \in limiter :
              /\ lastAllow' = Later(lastAllow, r, at[h])
              /\ stage' = [stage EXCEPT ![h] = "idle"] /\ at' = [at EXCEPT ![h] = 0]
              /\ UNCHANGED <<clock, maps, registration, spending>>
              /\ \/ /\ limiters' = [limiters EXCEPT ![r].entries = Kept(limiters[r].entries, at[h])]
                    /\ granted' = granted
                 \/ /\ ~ (Cardinality(Kept(limiters[r].entries, at[h])) >= limiters[r].limit)
                    /\ limiters' = [limiters EXCEPT ![r].entries =
                                      Kept(limiters[r].entries, at[h])
                                      \union {NextPass(granted, r, at[h], lastAllow[r])}]
                    /\ granted' = granted \union {NextPass(granted, r, at[h], lastAllow[r])}
    BY <1>4, AllowSteps
  <2>2. /\ r \in Registrations /\ at[h] \in Times /\ granted \subseteq Passes
        /\ lastAllow \in [Registrations -> Times] /\ limiters \in [Registrations -> Limiters]
    BY DEF QuotaTypeOK
  <2>3. PICK pass, kept : /\ pass = NextPass(granted, r, at[h], lastAllow[r])
                          /\ kept = Kept(limiters[r].entries, at[h])
    OBVIOUS
  <2>4. IsNew(pass, granted, r, at[h], lastAllow[r])
    BY <2>2, <2>3, NextPassIsNew
  <2>5. /\ lastAllow' \in [Registrations -> Times]
        /\ q # r => lastAllow'[q] = lastAllow[q]
        /\ lastAllow[r] <= lastAllow'[r] /\ at[h] <= lastAllow'[r]
        /\ at[h] < lastAllow[r] => lastAllow'[r] = lastAllow[r]
    <3>1. IsLater(lastAllow', lastAllow, r, at[h])
      BY <2>1, <2>2, LaterTypes
    <3> QED  BY <3>1 DEF IsLater
  <2>6. CASE q # r
    <3>1. limiters'[q] = limiters[q] /\ lastAllow'[q] = lastAllow[q]
      BY <2>1, <2>2, <2>5, <2>6
    <3>2. granted' = granted \/ granted' = granted \union {pass}
      BY <2>1, <2>3
    <3>3. pass.by # q
      BY <2>4, <2>6 DEF IsNew
    <3>4. Limited(granted \union {pass}, q, limiters[q], lastAllow[q])
      BY <1>1, <3>3, OthersLimited
    <3> QED  BY <1>1, <3>1, <3>2, <3>4
  <2>7. CASE q = r
    <3>1. PICK l \in Limiters : l = limiters[r]
      BY <2>2
    <3>2. PICK m \in Limiters' : m = limiters'[r] /\ Cardinality(m.entries) <= m.limit
      BY <2>2, QuotaTypeStep DEF QuotaTypeOK
    <3>3. IsFiniteSet(m.entries) /\ m.limit \in Nat
      <4>1. m.entries \subseteq granted' /\ m.limit \in Nat
        BY <3>2 DEF Limiters
      <4> QED  BY <4>1, NumberedStep, FS_Subset DEF Numbered
    <3>4. Limited(granted, r, l, lastAllow[r])
      BY <1>1, <2>7, <3>1
    <3>5. lastAllow[r] \in Times /\ lastAllow'[r] \in Times
      BY <2>2, <2>5
    <3>6. CASE limiters' = [limiters EXCEPT ![r].entries = kept] /\ granted' = granted
      <4>1. m.limit = l.limit /\ m.entries = kept
        BY <2>2, <3>1, <3>2, <3>6 DEF Limiters
      <4>2. Limited(granted, r, m, lastAllow'[r])
        BY <2>2, <2>3, <2>5, <3>1, <3>4, <3>5, <4>1, KeptLimited
      <4> QED  BY <2>7, <3>2, <3>6, <4>2
    <3>7. CASE limiters' = [limiters EXCEPT ![r].entries = kept \union {pass}] /\ granted' = granted \union {pass}
      <4>1. m.limit = l.limit /\ m.entries = kept \union {pass}
        BY <2>2, <3>1, <3>2, <3>7 DEF Limiters
      <4>2. Limited(granted \union {pass}, r, m, lastAllow'[r])
        BY <2>2, <2>3, <2>4, <2>5, <3>1, <3>2, <3>3, <3>4, <3>5, <4>1, GrantLimited
      <4> QED  BY <2>7, <3>2, <3>7, <4>2
    <3> QED  BY <2>1, <2>3, <3>6, <3>7
  <2> QED  BY <2>6, <2>7
<1> QED  BY <1>2, <1>3, <1>4, GrantingSteps

-------------------------------------------------------------------------------
(* Counting what a budget let through                                      *)

LEMMA Covering ==
    ASSUME NEW A, NEW B, NEW C, IsFiniteSet(B), IsFiniteSet(C), A \subseteq B \union C
    PROVE  /\ Cardinality(A) \in Nat /\ Cardinality(B) \in Nat /\ Cardinality(C) \in Nat
           /\ Cardinality(A) <= Cardinality(B) + Cardinality(C)
<1>1. /\ IsFiniteSet(B \union C)
      /\ Cardinality(B \union C) = Cardinality(B) + Cardinality(C) - Cardinality(B \cap C)
  BY FS_Union
<1>2. IsFiniteSet(A) /\ Cardinality(A) <= Cardinality(B \union C)
  BY <1>1, FS_Subset
<1>3. IsFiniteSet(B \cap C)
  BY FS_Intersection
<1>4. /\ Cardinality(A) \in Nat /\ Cardinality(B) \in Nat /\ Cardinality(C) \in Nat
      /\ Cardinality(B \cap C) \in Nat /\ Cardinality(B \union C) \in Nat
  BY <1>1, <1>2, <1>3, FS_CardinalityType
<1> QED  BY <1>1, <1>2, <1>4

LEMMA ThroughType ==
    ASSUME NEW requests, Numbered(requests), NEW r, NEW from, NEW to
    PROVE  IsFiniteSet(OnTime(requests, r, from, to)) /\ Through(requests, r, from, to) \in Nat
<1>1. OnTime(requests, r, from, to) \subseteq requests
  BY DEF OnTime
<1>2. IsFiniteSet(OnTime(requests, r, from, to))
  BY <1>1, FS_Subset DEF Numbered
<1> QED  BY <1>2, FS_CardinalityType DEF Through

(* The requests of a stretch of time that two others cover.                *)
LEMMA ThroughCovered ==
    ASSUME NEW requests, Numbered(requests), requests \subseteq Passes, NEW r,
           NEW from \in Int, NEW to \in Int,
           NEW from1 \in Int, NEW to1 \in Int, NEW from2 \in Int, NEW to2 \in Int,
           \A time \in Times : from <= time /\ time < to =>
              (from1 <= time /\ time < to1) \/ (from2 <= time /\ time < to2)
    PROVE  Through(requests, r, from, to) <= Through(requests, r, from1, to1) + Through(requests, r, from2, to2)
<1>1. OnTime(requests, r, from, to) \subseteq OnTime(requests, r, from1, to1) \union OnTime(requests, r, from2, to2)
  BY DEF OnTime, Passes
<1> QED  BY <1>1, ThroughType, Covering DEF Through

LEMMA ThroughWithin ==
    ASSUME NEW requests, Numbered(requests), requests \subseteq Passes, NEW r,
           NEW from \in Int, NEW to \in Int, NEW from1 \in Int, NEW to1 \in Int,
           \A time \in Times : from <= time /\ time < to => from1 <= time /\ time < to1
    PROVE  Through(requests, r, from, to) <= Through(requests, r, from1, to1)
<1>1. OnTime(requests, r, from, to) \subseteq OnTime(requests, r, from1, to1)
  BY DEF OnTime, Passes
<1> QED  BY <1>1, ThroughType, FS_Subset DEF Through

(* One more request.                                                       *)
LEMMA OneMoreThrough ==
    ASSUME NEW requests, Numbered(requests), NEW r, NEW pass, NEW from \in Int, NEW to \in Int
    PROVE  /\ Through(requests \union {pass}, r, from, to) <= Through(requests, r, from, to) + 1
           /\ pass.by # r \/ pass.late \/ ~ (from <= pass.at /\ pass.at < to)
              => Through(requests \union {pass}, r, from, to) = Through(requests, r, from, to)
<1> DEFINE before == OnTime(requests, r, from, to)
           after == OnTime(requests \union {pass}, r, from, to)
<1>1. IsFiniteSet(before) /\ Cardinality(before) \in Nat
  BY ThroughType DEF Through
<1>2. after \subseteq before \union {pass}
  BY DEF OnTime
<1>3. pass.by # r \/ pass.late \/ ~ (from <= pass.at /\ pass.at < to) => after = before
  BY DEF OnTime
<1> HIDE DEF before, after
<1>4. IsFiniteSet({pass}) /\ Cardinality({pass}) = 1
  BY FS_Singleton
<1>5. Cardinality(after) <= Cardinality(before) + 1
  BY <1>1, <1>2, <1>4, Covering
<1> QED  BY <1>3, <1>5 DEF Through, before, after

-------------------------------------------------------------------------------
(* The budget                                                              *)

LEMMA BudgetTimes ==
    ASSUME NEW b \in Budgets
    PROVE  /\ b.resetAt \in Nat /\ b.used \in Nat /\ b.limit \in Nat
           /\ Window \in Nat \ {0} /\ End \in Nat /\ \A time \in Times : time \in Nat /\ time < End
           /\ Start(b) \in Int /\ Start(b) = b.resetAt - Window
<1>1. b.resetAt \in Nat /\ b.used \in Nat /\ b.limit \in Nat
  BY DEF Budgets
<1>2. Window \in Nat \ {0} /\ End \in Nat /\ \A time \in Times : time \in Nat /\ time < End
  BY WindowAssumption, MaxTimeAssumption DEF End, Times
<1> QED  BY <1>1, <1>2 DEF Start

(* A budget as Consume sees it: of the period of the request, or of a new  *)
(* one that has let nothing through.                                       *)
LEMMA BudgetSeen ==
    ASSUME NEW requests, Numbered(requests), requests \subseteq Passes, NEW r,
           NEW b \in Budgets, b.used <= b.limit, NEW last \in Times, Budgeted(requests, r, b, last),
           NEW time \in Times, NEW later \in Times, time <= later, last <= later,
           NEW c \in Budgets, c = Current(b, time)
    PROVE  Budgeted(requests, r, c, later)
<1>1. /\ b.resetAt \in Nat /\ b.used \in Nat /\ b.limit \in Nat
      /\ Window \in Nat \ {0} /\ End \in Nat /\ \A t \in Times : t \in Nat /\ t < End
      /\ Start(b) \in Int /\ Start(b) = b.resetAt - Window
  BY BudgetTimes
<1>2. \A from, to : Through(requests, r, from, to) \in Nat
  BY ThroughType
<1>3. CASE time < b.resetAt
  <2>1. c = b
    BY <1>3, CurrentBudget
  <2>2. Start(b) <= last => Start(b) <= later
    BY <1>1
  <2> QED  BY <2>1, <2>2 DEF Budgeted
<1>4. CASE ~ (time < b.resetAt)
  <2>1. c.used = 0 /\ c.limit = b.limit /\ c.resetAt = time + Window
    BY <1>4, CurrentBudget
  <2>2. time \in Nat /\ Start(c) = time /\ b.resetAt <= time
    BY <1>1, <1>4, <2>1 DEF Start
  <2>3. Through(requests, r, b.resetAt, End) = 0
    BY DEF Budgeted
  <2>4. Through(requests, r, time, End) = 0
    <3>1. Through(requests, r, time, End) <= Through(requests, r, b.resetAt, End)
      <4>1. \A t \in Times : time <= t /\ t < End => b.resetAt <= t /\ t < End
        BY <1>1, <2>2
      <4> QED  BY <1>1, <2>2, <4>1, ThroughWithin
    <3> QED  BY <1>2, <2>3, <3>1
  <2>5. Through(requests, r, time + Window, End) = 0
    <3>1. Through(requests, r, time + Window, End) <= Through(requests, r, b.resetAt, End)
      <4>1. \A t \in Times : time + Window <= t /\ t < End => b.resetAt <= t /\ t < End
        BY <1>1, <2>2
      <4>2. time + Window \in Int
        BY <1>1, <2>2
      <4> QED  BY <1>1, <4>1, <4>2, ThroughWithin
    <3> QED  BY <1>2, <2>3, <3>1
  <2>6. Through(requests, r, time - Window, time) <= b.limit
    <3>1. Through(requests, r, time - Window, time) <= Through(requests, r, Start(b), End)
      <4>1. \A t \in Times : time - Window <= t /\ t < time => Start(b) <= t /\ t < End
        BY <1>1, <2>2
      <4>2. time - Window \in Int
        BY <1>1, <2>2
      <4> QED  BY <1>1, <2>2, <4>1, <4>2, ThroughWithin
    <3>2. Through(requests, r, Start(b), End) <= b.used
      BY DEF Budgeted
    <3>3. PICK x \in Nat, y \in Nat : x = Through(requests, r, time - Window, time) /\ y = Through(requests, r, Start(b), End)
      BY <1>2
    <3> QED  BY <1>1, <3>1, <3>2, <3>3
  <2>7. \A from \in Int : Through(requests, r, from, from + Window) <= 2 * c.limit
    BY <2>1 DEF Budgeted
  <2>8. PICK start : start = Start(c)
    OBVIOUS
  <2> QED  BY <2>1, <2>2, <2>4, <2>5, <2>6, <2>7 DEF Budgeted
<1> QED  BY <1>3, <1>4

(* A request is let through: the period it is of is the one that runs, or, *)
(* before the first, no period is over yet.                                *)
LEMMA BudgetSpends ==
    ASSUME NEW requests, Numbered(requests), requests \subseteq Passes, NEW r,
           NEW c \in Budgets, NEW last \in Times, Budgeted(requests, r, c, last),
           NEW pass \in Passes, pass.at < c.resetAt, pass.late \/ last = pass.at,
           c.used < c.limit,
           NEW d \in Budgets, d.limit = c.limit, d.used = c.used + 1, d.resetAt = c.resetAt
    PROVE  Budgeted(requests \union {pass}, r, d, last)
<1>1. /\ c.resetAt \in Nat /\ c.used \in Nat /\ c.limit \in Nat
      /\ Window \in Nat \ {0} /\ End \in Nat /\ \A t \in Times : t \in Nat /\ t < End
      /\ Start(c) \in Int /\ Start(c) = c.resetAt - Window
  BY BudgetTimes
<1>2. pass.at \in Times /\ pass.at \in Nat /\ last \in Nat
  BY <1>1 DEF Passes
<1>3. \A from, to : Through(requests, r, from, to) \in Nat
  BY ThroughType
<1>4. \A from, to \in Int :
         /\ Through(requests \union {pass}, r, from, to) <= Through(requests, r, from, to) + 1
         /\ pass.late \/ ~ (from <= pass.at /\ pass.at < to)
            => Through(requests \union {pass}, r, from, to) = Through(requests, r, from, to)
  BY OneMoreThrough
<1>5. PICK s \in Int, before \in Int, reset \in Int, end \in Int, zero \in Int :
         zero = 0 /\ s = Start(c) /\ before = Start(c) - Window /\ reset = c.resetAt /\ end = End
  <2>1. Start(c) - Window \in Int
    BY <1>1
  <2> QED  BY <1>1, <2>1
<1> DEFINE N(from, to) == Through(requests, r, from, to)
           M(from, to) == Through(requests \union {pass}, r, from, to)
<1>6. /\ s <= last \/ N(zero, end) <= c.used
      /\ N(s, end) <= c.used /\ N(before, s) <= c.limit /\ N(reset, end) = 0
      /\ \A from \in Int : N(from, from + Window) <= 2 * c.limit
  BY <1>5 DEF Budgeted
<1>7. \A from, to \in Int : N(from, to) \in Nat /\ M(from, to) \in Nat
  <2>1. \A from, to \in Int : M(from, to) \in Nat
    <3>1. IsFiniteSet(requests \union {pass})
      BY FS_AddElement DEF Numbered
    <3>2. \A from, to : OnTime(requests \union {pass}, r, from, to) \subseteq requests \union {pass}
      BY DEF OnTime
    <3> QED  BY <3>1, <3>2, FS_Subset, FS_CardinalityType DEF Through
  <2> QED  BY <1>3, <2>1
<1>8. \A from, to \in Int :
         /\ M(from, to) <= N(from, to) + 1
         /\ pass.late \/ ~ (from <= pass.at /\ pass.at < to) => M(from, to) = N(from, to)
  BY <1>4
<1>9. Start(d) = s
  BY <1>5 DEF Start
<1> HIDE DEF N, M
<1>10. s <= last \/ M(zero, end) <= d.used
  <2>1. M(zero, end) <= N(zero, end) + 1 /\ M(zero, end) \in Nat /\ N(zero, end) \in Nat
    BY <1>5, <1>7, <1>8
  <2>2. N(zero, end) <= c.used => M(zero, end) <= d.used
    BY <1>1, <2>1
  <2> QED  BY <1>6, <2>2
<1>11. M(s, end) <= d.used
  <2>1. M(s, end) <= N(s, end) + 1 /\ M(s, end) \in Nat /\ N(s, end) \in Nat
    BY <1>5, <1>7, <1>8
  <2>2. N(s, end) <= c.used
    BY <1>6
  <2> QED  BY <1>1, <2>1, <2>2
<1>12. M(before, s) <= d.limit
  <2>1. CASE pass.late \/ ~ (before <= pass.at /\ pass.at < s)
    <3>1. M(before, s) = N(before, s)
      BY <1>8, <2>1
    <3> QED  BY <1>6, <3>1
  <2>2. CASE ~ pass.late /\ pass.at < s
    <3>1. N(zero, end) <= c.used
      BY <1>2, <1>6, <2>2
    <3>2. N(before, s) <= N(zero, end)
      <4>1. \A t \in Times : before <= t /\ t < s => zero <= t /\ t < end
        BY <1>1, <1>5
      <4> QED  BY <1>5, <4>1, ThroughWithin DEF N
    <3>3. /\ M(before, s) <= N(before, s) + 1 /\ M(before, s) \in Nat /\ N(before, s) \in Nat
          /\ N(zero, end) \in Nat
      BY <1>5, <1>7, <1>8
    <3> QED  BY <1>1, <3>1, <3>2, <3>3
  <2> QED  BY <2>1, <2>2
<1>13. M(reset, end) = 0
  <2>1. ~ (reset <= pass.at)
    BY <1>1, <1>2, <1>5
  <2> QED  BY <1>6, <1>8, <2>1
<1>14. ASSUME NEW from \in Int PROVE M(from, from + Window) <= 2 * d.limit
  <2>1. PICK to \in Int : to = from + Window
    BY <1>1
  <2>2. N(from, to) <= 2 * c.limit
    BY <1>6, <2>1
  <2>3. CASE pass.late \/ ~ (from <= pass.at /\ pass.at < to)
    <3>1. M(from, to) = N(from, to)
      BY <1>8, <2>3
    <3> QED  BY <2>1, <2>2, <3>1
  <2>4. CASE ~ pass.late /\ from <= pass.at /\ pass.at < to /\ s <= pass.at
    <3>1. N(from, to) <= N(before, s) + N(s, end)
      <4>1. \A t \in Times : from <= t /\ t < to =>
               (before <= t /\ t < s) \/ (s <= t /\ t < end)
        BY <1>1, <1>2, <1>5, <2>1, <2>4
      <4> QED  BY <4>1, ThroughCovered DEF N
    <3>2. M(from, to) <= 2 * c.limit
      <4>1. M(from, to) <= N(from, to) + 1 /\ M(from, to) \in Nat /\ N(from, to) \in Nat
        BY <1>7, <1>8
      <4>2. /\ N(before, s) \in Nat /\ N(s, end) \in Nat
            /\ N(s, end) <= c.used /\ N(before, s) <= c.limit
        BY <1>5, <1>6, <1>7
      <4> QED  BY <1>1, <3>1, <4>1, <4>2
    <3> QED  BY <2>1, <3>2
  <2>5. CASE ~ pass.late /\ pass.at < s
    <3>1. N(zero, end) <= c.used
      BY <1>2, <1>6, <2>5
    <3>2. N(from, to) <= N(zero, end)
      <4>1. \A t \in Times : from <= t /\ t < to => zero <= t /\ t < end
        BY <1>1, <1>5
      <4> QED  BY <1>5, <4>1, ThroughWithin DEF N
    <3>3. M(from, to) <= 2 * c.limit
      <4>1. M(from, to) <= N(from, to) + 1 /\ M(from, to) \in Nat /\ N(from, to) \in Nat
        BY <1>7, <1>8
      <4>2. N(zero, end) \in Nat
        BY <1>5, <1>7
      <4> QED  BY <1>1, <3>1, <3>2, <4>1, <4>2
    <3> QED  BY <2>1, <3>3
  <2> QED  BY <1>2, <2>3, <2>4, <2>5
<1> QED  BY <1>5, <1>9, <1>10, <1>11, <1>12, <1>13, <1>14 DEF Budgeted, M

LEMMA OthersBudgeted ==
    ASSUME NEW requests, Numbered(requests), NEW r, NEW pass, pass.by # r, NEW b, b.resetAt \in Int,
           NEW last, Budgeted(requests, r, b, last)
    PROVE  Budgeted(requests \union {pass}, r, b, last)
<1>1. \A from, to : Through(requests \union {pass}, r, from, to) = Through(requests, r, from, to)
  <2>1. \A from, to : OnTime(requests \union {pass}, r, from, to) = OnTime(requests, r, from, to)
    BY DEF OnTime
  <2> QED  BY <2>1 DEF Through
<1> QED  BY <1>1 DEF Budgeted

(* A budget that a registration is about to install has let nothing        *)
(* through.                                                                *)
LEMMA UnusedBudgeted ==
    ASSUME NEW requests, NEW r, \A g \in requests : g.by # r, NEW b \in Budgets, NEW last
    PROVE  Budgeted(requests, r, b, last)
<1>1. \A from, to : Through(requests, r, from, to) = 0
  <2>1. \A from, to : OnTime(requests, r, from, to) = {}
    BY DEF OnTime
  <2> QED  BY <2>1, FS_EmptySet DEF Through
<1>2. b.used \in Nat /\ b.limit \in Nat
  BY DEF Budgets
<1> QED  BY <1>1, <1>2 DEF Budgeted

LEMMA BudgetStep ==
    /\ QuotaTypeOK /\ Numbered(spent) /\ Numbered(granted) /\ NewIsUnused /\ BudgetInv
    /\ [QuotaNext]_quotaVars
    => BudgetInv'
<1> SUFFICES ASSUME QuotaTypeOK, Numbered(spent), Numbered(granted), NewIsUnused, BudgetInv,
                    [QuotaNext]_quotaVars,
                    NEW q \in Registrations
             PROVE  Budgeted(spent', q, budgets'[q], lastConsume'[q])
  BY DEF BudgetInv
<1>1. Budgeted(spent, q, budgets[q], lastConsume[q])
  BY DEF BudgetInv
<1>2. CASE UNCHANGED spending
  BY <1>1, <1>2 DEF spending
<1>3. ASSUME NEW r \in Registrations, RegisterBudget(r)
      PROVE  Budgeted(spent', q, budgets'[q], lastConsume'[q])
  <2>1. /\ register[r] = "make budget" /\ spent' = spent /\ lastConsume' = lastConsume
        /\ budgets' = [budgets EXCEPT ![r] = NewBudget(Policy[r], noted[r])]
    BY <1>3 DEF RegisterBudget, Proceed
  <2>2. CASE q # r
    <3>1. budgets'[q] = budgets[q]
      BY <2>1, <2>2 DEF QuotaTypeOK
    <3> QED  BY <1>1, <2>1, <3>1
  <2>3. CASE q = r
    <3>1. \A g \in spent : g.by # q
      BY <2>1, <2>3 DEF NewIsUnused
    <3>2. budgets'[q] \in Budgets
      BY QuotaTypeStep DEF QuotaTypeOK
    <3> QED  BY <2>1, <3>1, <3>2, UnusedBudgeted
  <2> QED  BY <2>2, <2>3
<1>4. ASSUME NEW h \in Callers, Consume(h)
      PROVE  Budgeted(spent', q, budgets'[q], lastConsume'[q])
  <2>1. PICK r \in budget, c \in Budgets, to \in {"idle", "allow"}, time \in Times :
              /\ c = Current(budgets[r], at[h])
              /\ lastConsume' = Later(lastConsume, r, at[h])
              /\ stage' = [stage EXCEPT ![h] = to]
              /\ at' = [at EXCEPT ![h] = time]
              /\ UNCHANGED <<clock, maps, registration, granting>>
              /\ \/ /\ budgets' = [budgets EXCEPT ![r] = c]
                    /\ spent' = spent
                 \/ /\ c.used < c.limit
                    /\ budgets' = [budgets EXCEPT ![r] = [c EXCEPT !.used = @ + 1]]
                    /\ spent' = spent \union {NextPass(spent, r, at[h], lastConsume[r])}
    BY <1>4, ConsumeSteps
  <2>2. /\ r \in Registrations /\ at[h] \in Times /\ spent \subseteq Passes
        /\ lastConsume \in [Registrations -> Times] /\ budgets \in [Registrations -> Budgets]
        /\ budgets[r].used <= budgets[r].limit
    BY DEF QuotaTypeOK
  <2>3. PICK pass : pass = NextPass(spent, r, at[h], lastConsume[r])
    OBVIOUS
  <2>4. IsNew(pass, spent, r, at[h], lastConsume[r])
    BY <2>2, <2>3, NextPassIsNew
  <2>5. IsLater(lastConsume', lastConsume, r, at[h])
    BY <2>1, <2>2, LaterTypes
  <2>6. CASE q # r
    <3>1. budgets'[q] = budgets[q] /\ lastConsume'[q] = lastConsume[q]
      BY <2>1, <2>2, <2>5, <2>6 DEF IsLater
    <3>2. spent' = spent \/ spent' = spent \union {pass}
      BY <2>1, <2>3
    <3>3. pass.by # q /\ budgets[q].resetAt \in Int
      BY <2>2, <2>4, <2>6 DEF IsNew, Budgets
    <3>4. Budgeted(spent \union {pass}, q, budgets[q], lastConsume[q])
      BY <1>1, <3>3, OthersBudgeted
    <3> QED  BY <1>1, <3>1, <3>2, <3>4
  <2>7. CASE q = r
    <3>1. PICK b \in Budgets, last \in Times, later \in Times :
             b = budgets[r] /\ last = lastConsume[r] /\ later = lastConsume'[r]
      BY <2>2, <2>5 DEF IsLater
    <3>2. last <= later /\ at[h] <= later /\ (~ (at[h] < last) => later = at[h])
      BY <2>5, <3>1 DEF IsLater
    <3>3. Budgeted(spent, r, b, last) /\ b.used <= b.limit /\ c = Current(b, at[h])
      BY <1>1, <2>1, <2>2, <2>7, <3>1
    <3>4. Budgeted(spent, r, c, later)
      BY <2>2, <3>1, <3>2, <3>3, BudgetSeen
    <3>5. CASE budgets' = [budgets EXCEPT ![r] = c] /\ spent' = spent
      <4>1. budgets'[r] = c
        BY <2>2, <3>5
      <4> QED  BY <2>7, <3>1, <3>4, <3>5, <4>1
    <3>6. CASE /\ c.used < c.limit
               /\ budgets' = [budgets EXCEPT ![r] = [c EXCEPT !.used = @ + 1]]
               /\ spent' = spent \union {pass}
      <4>1. PICK d : d = [c EXCEPT !.used = @ + 1]
        OBVIOUS
      <4>2. d = [limit |-> c.limit, used |-> c.used + 1, resetAt |-> c.resetAt]
        BY <4>1 DEF Budgets
      <4>3. d \in Budgets /\ d.limit = c.limit /\ d.used = c.used + 1 /\ d.resetAt = c.resetAt
        BY <4>2 DEF Budgets
      <4>4. at[h] < c.resetAt
        BY <2>2, <3>3, CurrentBudget
      <4>5. pass \in Passes /\ pass.at = at[h] /\ (pass.late \/ later = pass.at)
        <5>1. pass \in Passes /\ pass.at = at[h]
          BY <2>4 DEF IsNew
        <5>2. pass.late <=> at[h] < last
          BY <2>4, <3>1 DEF IsNew
        <5> QED  BY <3>2, <5>1, <5>2
      <4>6. Budgeted(spent \union {pass}, r, d, later)
        BY <2>2, <3>4, <3>6, <4>3, <4>4, <4>5, BudgetSpends
      <4>7. budgets'[r] = d
        BY <2>2, <3>6, <4>1
      <4> QED  BY <2>7, <3>1, <3>6, <4>6, <4>7
    <3> QED  BY <2>1, <2>3, <3>5, <3>6
  <2> QED  BY <2>6, <2>7
<1> QED  BY <1>2, <1>3, <1>4, SpendingSteps

-------------------------------------------------------------------------------
(* The theorems                                                            *)

LEMMA QuotaInvInit == QuotaInit => QuotaInv
<1> SUFFICES ASSUME QuotaInit PROVE QuotaInv
  OBVIOUS
<1>1. 0 \in Times /\ Times \subseteq Nat /\ Window \in Nat
  BY MaxTimeAssumption, WindowAssumption DEF Times
<1>2. /\ clock \in Times /\ spent = {} /\ granted = {}
      /\ policy = {} /\ budget = {} /\ limiter = {}
  BY <1>1 DEF QuotaInit, Unset
<1>3. Numbered(spent) /\ Numbered(granted)
  BY <1>2, FS_EmptySet DEF Numbered
<1>4. QuotaTypeOK
  <2>1. budgets \in [Registrations -> Budgets] /\ \A r \in Registrations : budgets[r].used <= budgets[r].limit
    BY DEF QuotaInit, Budgets
  <2>2. limiters \in [Registrations -> Limiters]
        /\ \A r \in Registrations : Cardinality(limiters[r].entries) <= limiters[r].limit
    BY FS_EmptySet DEF QuotaInit, Limiters
  <2>3. /\ register \in [Registrations -> {"idle", "policy", "find budget", "make budget",
                                           "find limiter", "make limiter", "done"}]
        /\ stage \in [Callers -> {"idle", "clock", "consume", "allow"}]
    BY DEF QuotaInit
  <2>4. /\ noted \in [Registrations -> Times] /\ at \in [Callers -> Times]
        /\ lastConsume \in [Registrations -> Times] /\ lastAllow \in [Registrations -> Times]
    BY <1>1 DEF QuotaInit
  <2> QED  BY <1>2, <2>1, <2>2, <2>3, <2>4 DEF QuotaTypeOK, AtMostOne
<1>5. NewIsUnused
  BY <1>2 DEF NewIsUnused, QuotaInit
<1>6. LimiterInv
  <2>1. \A r, time : InWindow(granted, r, time) = {}
    BY <1>2 DEF InWindow
  <2>2. \A r \in Registrations : limiters[r].limit = 0
    BY DEF QuotaInit
  <2> QED  BY <1>2, <2>1, <2>2, FS_EmptySet DEF LimiterInv, Limited
<1>7. BudgetInv
  <2>1. \A r \in Registrations : budgets[r] \in Budgets
    BY <1>4 DEF QuotaTypeOK
  <2>2. \A r \in Registrations : \A g \in spent : g.by # r
    BY <1>2
  <2> QED  BY <2>1, <2>2, UnusedBudgeted DEF BudgetInv
<1> QED  BY <1>3, <1>4, <1>5, <1>6, <1>7 DEF QuotaInv

LEMMA QuotaInvStep == QuotaInv /\ [QuotaNext]_quotaVars => QuotaInv'
<1> SUFFICES ASSUME QuotaInv, [QuotaNext]_quotaVars PROVE QuotaInv'
  OBVIOUS
<1>1. QuotaTypeOK /\ Numbered(spent) /\ Numbered(granted) /\ NewIsUnused /\ LimiterInv /\ BudgetInv
  BY DEF QuotaInv
<1>2. QuotaTypeOK' /\ Numbered(spent') /\ Numbered(granted')
  BY <1>1, QuotaTypeStep, NumberedStep
<1>3. NewIsUnused' /\ LimiterInv' /\ BudgetInv'
  BY <1>1, NewIsUnusedStep, LimiterStep, BudgetStep
<1> QED  BY <1>2, <1>3 DEF QuotaInv

LEMMA QuotaInvariant == QuotaSpec => []QuotaInv
BY QuotaInvInit, QuotaInvStep, PTL DEF QuotaSpec

(* rate_limit.go line 9: in no window does a limiter grant more requests   *)
(* than its limit, late requests apart, for any policies, any number of    *)
(* registrations and callers and any order of their steps.                 *)
THEOREM WindowsAreLimited == QuotaSpec => []WindowWithinLimit
<1>1. QuotaInv => WindowWithinLimit
  BY DEF QuotaInv, LimiterInv, Limited, WindowWithinLimit
<1> QED  BY <1>1, QuotaInvariant, PTL

(* However its periods fall, a budget lets through no more than twice its  *)
(* limit in a stretch as long as one of them, late requests apart.         *)
THEOREM TwoPeriodsAreTheMost == QuotaSpec => []TwoPeriodsAtMost
<1>1. QuotaInv => TwoPeriodsAtMost
  <2> SUFFICES ASSUME QuotaInv, NEW r \in Registrations, NEW time \in Times
               PROVE  Cardinality(InWindow(spent, r, time)) <= 2 * budgets[r].limit
    BY DEF TwoPeriodsAtMost
  <2>1. time \in Nat /\ Window \in Nat /\ Times \subseteq Nat /\ \A g \in spent : g.at \in Nat
    <3>1. spent \subseteq Passes
      BY DEF QuotaInv, QuotaTypeOK
    <3>2. Window \in Nat /\ Times \subseteq Nat
      BY MaxTimeAssumption, WindowAssumption DEF Times
    <3> QED  BY <3>1, <3>2 DEF Passes
  <2>2. PICK from \in Int : from = time - Window + 1
    BY <2>1
  <2>3. InWindow(spent, r, time) = OnTime(spent, r, from, from + Window)
    BY <2>1, <2>2 DEF InWindow, OnTime
  <2>4. Through(spent, r, from, from + Window) <= 2 * budgets[r].limit
    BY DEF QuotaInv, BudgetInv, Budgeted
  <2> QED  BY <2>3, <2>4 DEF Through
<1> QED  BY <1>1, QuotaInvariant, PTL

===============================================================================
