-------------------------- MODULE NetworkQueriesProofs -------------------------
(***************************************************************************)
(* Proofs about the queries on a pinned network, for any scenarios that    *)
(* meet the assumptions: the components of connectivity, the clusters, the *)
(* route search, the isochrones, the alternative routes and the costs of   *)
(* edges.                                                                  *)
(***************************************************************************)
EXTENDS NetworkQueries, RoadNetworkProofs

-------------------------------------------------------------------------------
(* Connectivity                                                            *)

Labelled(n) == labels[n] # C!Unseen
Queued(n) == \E i \in DOMAIN queue : queue[i] = n

(* Who has been visited has given its label to its neighbours.             *)
Followed ==
    \A n \in C!Nodes : (Labelled(n) /\ ~ Queued(n)) =>
        \A m \in C!Neighbours(n) : labels[m] = labels[n]

(* Two nodes of one label cannot be told apart by a closed set.            *)
Together ==
    \A m, n \in C!Nodes : (Labelled(m) /\ labels[m] = labels[n]) =>
        \A set \in SUBSET C!Nodes : C!Closed(set) => (m \in set <=> n \in set)

(* Each label has a seed: all nodes before it bear smaller labels.         *)
IsSeed(s, k) == labels[s] = k /\ \A m \in C!Nodes : m < s => labels[m] \in 1 .. (k - 1)

Seeded == \A k \in 1 .. next : \E s \in C!Nodes : IsSeed(s, k)

ConnectivityInv ==
    C!TypeOK /\ Followed /\ Together /\ Seeded /\ (queue # <<>> => next # 0)

LEMMA ConnectivityInit == C!Init => ConnectivityInv
<1> SUFFICES ASSUME C!Init PROVE ConnectivityInv
  OBVIOUS
<1>1. Size \in Nat
  BY ConnectivityAssumption DEF C!EndsAssumption
<1>2. edges \subseteq Ends /\ next = 0 /\ queue = <<>> /\ labels = [n \in C!Nodes |-> 0]
  BY DEF C!Init, C!Unseen
<1>3. C!TypeOK
  BY <1>1, <1>2 DEF C!TypeOK
<1> QED  BY <1>2, <1>3 DEF ConnectivityInv, Followed, Together, Seeded, Labelled, C!Unseen

(* Neighbours are nodes, and neighbours of each other; a closed set has    *)
(* both or neither.                                                        *)
LEMMA NeighboursAreMutual ==
    ASSUME C!TypeOK, NEW n \in C!Nodes, NEW m \in C!Neighbours(n)
    PROVE  /\ m \in C!Nodes /\ n \in C!Neighbours(m)
           /\ \A set : C!Closed(set) => (m \in set <=> n \in set)
<1>1. \A e \in edges : e.from \in C!Nodes /\ e.to \in C!Nodes
  BY ConnectivityAssumption DEF C!TypeOK, C!EndsAssumption, C!Nodes
<1> QED  BY <1>1 DEF C!Neighbours, C!Closed

LEMMA SeedKeeps ==
    ASSUME ConnectivityInv, C!Seed
    PROVE  ConnectivityInv'
<1>1. /\ edges \subseteq Ends /\ next \in Nat /\ next <= Size /\ Size \in Nat
      /\ labels \in [C!Nodes -> 0 .. next]
  BY ConnectivityAssumption DEF ConnectivityInv, C!TypeOK, C!EndsAssumption
<1>2. PICK n \in C!Nodes :
         /\ labels[n] = 0
         /\ \A m \in 1 .. (n - 1) : labels[m] # 0
         /\ labels' = [labels EXCEPT ![n] = next + 1]
         /\ queue' = <<n>>
  BY DEF C!Seed, C!Unseen
<1>3. queue = <<>> /\ next' = next + 1 /\ edges' = edges
  BY DEF C!Seed
<1>4. n \in Nat /\ n <= Size /\ \A m \in C!Nodes : m \in Nat /\ m >= 1
  BY <1>1 DEF C!Nodes
<1>5. labels'[n] = next + 1 /\ \A m \in C!Nodes : m # n => labels'[m] = labels[m]
  BY <1>1, <1>2
<1>6. \A m \in C!Nodes : labels[m] \in 0 .. next
  BY <1>1
<1>7. Seeded'
  <2> SUFFICES ASSUME NEW k \in 1 .. (next + 1)
               PROVE  \E s \in C!Nodes : IsSeed(s, k)'
    BY <1>3 DEF Seeded
  <2>1. CASE k = next + 1
    <3>1. ASSUME NEW m \in C!Nodes, m < n PROVE labels'[m] \in 1 .. (k - 1)
      <4>1. m \in 1 .. (n - 1) /\ m # n
        BY <1>4, <3>1
      <4>2. labels[m] # 0 /\ labels'[m] = labels[m] /\ labels[m] \in 0 .. next
        BY <1>2, <1>5, <1>6, <4>1
      <4> QED  BY <1>1, <2>1, <4>2
    <3> QED  BY <1>5, <2>1, <3>1 DEF IsSeed
  <2>2. CASE k # next + 1
    <3>1. k \in 1 .. next
      BY <1>1, <2>2
    <3>2. PICK s \in C!Nodes : IsSeed(s, k)
      BY <3>1 DEF ConnectivityInv, Seeded
    <3>3. s # n /\ labels'[s] = k
      BY <1>2, <1>5, <3>1, <3>2 DEF IsSeed
    <3>4. ASSUME NEW m \in C!Nodes, m < s PROVE labels'[m] \in 1 .. (k - 1)
      <4>1. labels[m] \in 1 .. (k - 1)
        BY <3>2, <3>4 DEF IsSeed
      <4>2. m # n
        BY <1>2, <3>1, <4>1
      <4> QED  BY <1>5, <4>1, <4>2
    <3> QED  BY <3>3, <3>4 DEF IsSeed
  <2> QED  BY <2>1, <2>2
<1>8. next + 1 <= Size
  <2> DEFINE f == [k \in 1 .. (next + 1) |-> CHOOSE m \in C!Nodes : labels'[m] = k]
  <2>1. \A k \in 1 .. (next + 1) : \E m \in C!Nodes : labels'[m] = k
    BY <1>3, <1>7 DEF Seeded, IsSeed
  <2>2. f \in Injection(1 .. (next + 1), 1 .. Size)
    <3>1. \A k \in 1 .. (next + 1) : f[k] \in C!Nodes /\ labels'[f[k]] = k
      BY <2>1
    <3> HIDE DEF f
    <3>2. \A j, k \in 1 .. (next + 1) : f[j] = f[k] => j = k
      BY <3>1
    <3>3. f \in [1 .. (next + 1) -> 1 .. Size]
      BY <3>1 DEF f, C!Nodes
    <3> QED  BY <3>2, <3>3 DEF Injection, IsInjective
  <2>3. next + 1 \in Int /\ 1 \in Int /\ Size \in Int
    BY <1>1
  <2>4. /\ IsFiniteSet(1 .. Size)
        /\ Cardinality(1 .. Size) = IF 1 > Size THEN 0 ELSE Size - 1 + 1
        /\ Cardinality(1 .. (next + 1)) = IF 1 > next + 1 THEN 0 ELSE (next + 1) - 1 + 1
    BY <2>3, FS_Interval
  <2> HIDE DEF f
  <2>5. Cardinality(1 .. (next + 1)) <= Cardinality(1 .. Size)
    BY <2>2, <2>4, FS_Injection
  <2> QED  BY <1>1, <2>4, <2>5
<1>9. C!TypeOK'
  <2>1. labels' \in [C!Nodes -> 0 .. next']
    BY <1>1, <1>2, <1>3
  <2>2. queue' \in Seq(C!Nodes) /\ DOMAIN queue' = {1} /\ queue'[1] = n
    BY <1>2
  <2> QED  BY <1>1, <1>3, <1>5, <1>8, <2>1, <2>2 DEF C!TypeOK, C!Nodes
<1>10. Followed'
  <2> SUFFICES ASSUME NEW a \in C!Nodes, Labelled(a)', ~ Queued(a)', NEW m \in C!Neighbours(a)
               PROVE  labels'[m] = labels'[a]
    BY <1>3 DEF Followed, C!Neighbours
  <2>1. Queued(n)'
    BY <1>2 DEF Queued
  <2>2. a # n /\ Labelled(a) /\ ~ Queued(a)
    BY <1>3, <1>5, <2>1 DEF Queued, Labelled
  <2>3. labels[m] = labels[a] /\ m \in C!Nodes
    BY <2>2, NeighboursAreMutual DEF ConnectivityInv, Followed
  <2> QED  BY <1>2, <1>5, <2>2, <2>3 DEF Labelled, C!Unseen
<1>11. Together'
  <2> SUFFICES ASSUME NEW a \in C!Nodes, NEW b \in C!Nodes,
                      labels'[a] # 0, labels'[a] = labels'[b],
                      NEW set \in SUBSET C!Nodes, C!Closed(set)
               PROVE  a \in set <=> b \in set
    BY <1>3 DEF Together, Labelled, C!Unseen, C!Closed
  <2>1. \A m \in C!Nodes : labels[m] # next + 1
    BY <1>1, <1>6
  <2>2. a = n <=> b = n
    BY <1>5, <2>1
  <2>3. a = b \/ (labels[a] # 0 /\ labels[a] = labels[b])
    BY <1>5, <2>2
  <2> QED  BY <2>3 DEF ConnectivityInv, Together, Labelled, C!Unseen
<1> QED  BY <1>1, <1>3, <1>7, <1>9, <1>10, <1>11 DEF ConnectivityInv

LEMMA CardinalityIsCardinality == \A S : C!Cardinality(S) = Cardinality(S)
  BY Zenon DEF C!Cardinality, Cardinality

(* A sequence of a finite set has all its elements.                        *)
LEMMA SequenceOfSet ==
    ASSUME NEW S, IsFiniteSet(S), NEW order \in C!SetToSeqs(S)
    PROVE  /\ order \in Seq(S)
           /\ \A i, j \in DOMAIN order : order[i] = order[j] => i = j
           /\ \A x \in S : \E i \in DOMAIN order : order[i] = x
<1> DEFINE n == Cardinality(S)
<1>1. /\ order \in [1 .. n -> S]
      /\ \A i, j \in 1 .. n : i # j => order[i] # order[j]
  BY CardinalityIsCardinality DEF C!SetToSeqs
<1>2. n \in Nat
  BY FS_CardinalityType
<1>3. /\ IsFiniteSet(1 .. n)
      /\ Cardinality(1 .. n) = n
  <2>1. 1 \in Int /\ n \in Int
    BY <1>2
  <2>2. /\ IsFiniteSet(1 .. n)
        /\ Cardinality(1 .. n) = IF 1 > n THEN 0 ELSE n - 1 + 1
    BY <2>1, FS_Interval
  <2> QED  BY <1>2, <2>2
<1> HIDE DEF n
<1>4. order \in Injection(1 .. n, S)
  BY <1>1 DEF Injection, IsInjective
<1>5. order \in Surjection(1 .. n, S)
  BY <1>3, <1>4, FS_Injection DEF n
<1>6. order \in Seq(S)
  BY <1>1, <1>2
<1> QED  BY <1>1, <1>5, <1>6 DEF Surjection

LEMMA VisitKeeps ==
    ASSUME ConnectivityInv, C!Visit
    PROVE  ConnectivityInv'
<1> DEFINE h == Head(queue)
           found == {m \in C!Neighbours(h) : labels[m] = 0}
<1>1. /\ edges \subseteq Ends /\ next \in Nat /\ next <= Size /\ Size \in Nat
      /\ labels \in [C!Nodes -> 0 .. next]
      /\ queue \in Seq(C!Nodes) /\ queue # <<>>
      /\ \A i, j \in DOMAIN queue : queue[i] = queue[j] => i = j
      /\ \A i \in DOMAIN queue : labels[queue[i]] = next
  BY ConnectivityAssumption DEF ConnectivityInv, C!TypeOK, C!EndsAssumption, C!Visit
<1>2. PICK order \in C!SetToSeqs(found) : queue' = Tail(queue) \o order
  BY DEF C!Visit, C!Unseen
<1>3. /\ labels' = [n \in C!Nodes |-> IF n \in found THEN next ELSE labels[n]]
      /\ next' = next /\ edges' = edges
  BY DEF C!Visit, C!Unseen
<1>4. Len(queue) \in Nat \ {0} /\ 1 \in DOMAIN queue /\ h = queue[1] /\ h \in C!Nodes
  BY <1>1
<1>5. labels[h] = next /\ next # 0
  <2>1. labels[h] = next
    BY <1>1, <1>4
  <2> QED  BY <1>1, <2>1 DEF ConnectivityInv
<1>6. /\ \A m \in C!Nodes : labels[m] # 0 => labels'[m] = labels[m] /\ m \notin found
      /\ \A m \in found : m \in C!Nodes /\ labels'[m] = next /\ labels[m] = 0
      /\ \A m \in C!Nodes : labels'[m] # 0 => m \in found \/ labels'[m] = labels[m]
      /\ \A m \in C!Neighbours(h) : m \in C!Nodes /\ labels'[m] # 0
  <2>1. \A m \in C!Neighbours(h) : m \in C!Nodes
    BY <1>4, NeighboursAreMutual DEF ConnectivityInv
  <2> QED  BY <1>3, <1>5, <2>1
<1>7. /\ order \in Seq(C!Nodes)
      /\ \A i, j \in DOMAIN order : order[i] = order[j] => i = j
      /\ \A i \in DOMAIN order : order[i] \in found
      /\ \A m \in found : \E i \in DOMAIN order : order[i] = m
  <2>1. IsFiniteSet(found)
    <3>1. 1 \in Int /\ Size \in Int
      BY <1>1
    <3>2. IsFiniteSet(C!Nodes)
      BY <3>1, FS_Interval DEF C!Nodes
    <3>3. found \in SUBSET C!Nodes
      BY <1>6
    <3> QED  BY <3>2, <3>3, FS_Subset
  <2> HIDE DEF found
  <2>2. /\ order \in Seq(found)
        /\ \A i, j \in DOMAIN order : order[i] = order[j] => i = j
        /\ \A m \in found : \E i \in DOMAIN order : order[i] = m
    BY <2>1, SequenceOfSet
  <2>3. \A i \in DOMAIN order : order[i] \in found
    BY <2>2
  <2>4. order \in Seq(C!Nodes)
    BY <1>6, <2>2
  <2> QED  BY <2>2, <2>3, <2>4
<1> DEFINE rest == Tail(queue)
           new == rest \o order
           r == Len(rest)
           s == Len(order)
<1>8. /\ r \in Nat /\ s \in Nat /\ rest \in Seq(C!Nodes)
      /\ DOMAIN rest = 1 .. r /\ DOMAIN order = 1 .. s
      /\ DOMAIN queue = 1 .. (r + 1) /\ \A i \in 1 .. r : rest[i] = queue[i + 1]
  BY <1>1, <1>7
<1>9. /\ new \in Seq(C!Nodes) /\ DOMAIN new = 1 .. (r + s)
      /\ \A i \in 1 .. r : new[i] = rest[i]
      /\ \A i \in 1 .. s : new[r + i] = order[i]
  <2> HIDE DEF rest
  <2> QED  BY <1>7, <1>8
<1> HIDE DEF h, found, rest, new, r, s
<1>10. ASSUME NEW i \in 1 .. (r + s)
       PROVE  \/ i \in 1 .. r /\ i + 1 \in DOMAIN queue /\ new[i] = queue[i + 1]
              \/ i \notin 1 .. r /\ i - r \in 1 .. s /\ new[i] = order[i - r]
  <2>1. CASE i <= r
    BY <1>8, <1>9, <2>1
  <2>2. CASE i > r
    <3>1. i - r \in 1 .. s /\ r + (i - r) = i
      BY <1>8, <2>2
    <3> QED  BY <1>8, <1>9, <2>2, <3>1
  <2> QED  BY <1>8, <2>1, <2>2
<1>11. \A i \in 1 .. (r + s) : labels'[new[i]] = next
  <2> SUFFICES ASSUME NEW i \in 1 .. (r + s) PROVE labels'[new[i]] = next
    OBVIOUS
  <2>1. CASE i + 1 \in DOMAIN queue /\ new[i] = queue[i + 1]
    <3>1. labels[new[i]] = next /\ new[i] \in C!Nodes
      BY <1>1, <2>1
    <3> QED  BY <1>5, <1>6, <3>1
  <2>2. CASE i - r \in 1 .. s /\ new[i] = order[i - r]
    BY <1>6, <1>7, <1>8, <2>2
  <2> QED  BY <1>10, <2>1, <2>2
<1>12. \A i, j \in 1 .. (r + s) : new[i] = new[j] => i = j
  <2> SUFFICES ASSUME NEW i \in 1 .. (r + s), NEW j \in 1 .. (r + s), new[i] = new[j]
               PROVE  i = j
    OBVIOUS
  <2>1. \A m \in DOMAIN queue : queue[m] \in C!Nodes /\ labels[queue[m]] # 0
    BY <1>1, <1>5
  <2>2. \A m \in 1 .. s : labels[order[m]] = 0
    BY <1>6, <1>7, <1>8
  <2>3. CASE i \in 1 .. r /\ j \in 1 .. r
    <3>1. queue[i + 1] = queue[j + 1] /\ i + 1 \in DOMAIN queue /\ j + 1 \in DOMAIN queue
      BY <1>10, <2>3
    <3>2. i + 1 = j + 1
      BY <1>1, <3>1
    <3> QED  BY <1>8, <3>2
  <2>4. CASE i \notin 1 .. r /\ j \notin 1 .. r
    <3>1. order[i - r] = order[j - r] /\ i - r \in 1 .. s /\ j - r \in 1 .. s
      BY <1>10, <2>4
    <3>2. i - r = j - r
      BY <1>7, <1>8, <3>1
    <3> QED  BY <1>8, <3>2
  <2>5. (i \in 1 .. r) <=> (j \in 1 .. r)
    BY <1>10, <2>1, <2>2
  <2> QED  BY <2>3, <2>4, <2>5
<1>13. C!TypeOK'
  <2>1. queue' = new
    BY <1>2 DEF new, rest
  <2>2. labels' \in [C!Nodes -> 0 .. next]
    BY <1>1, <1>3
  <2>3. queue' \in Seq(C!Nodes) /\ DOMAIN queue' = 1 .. (r + s)
    BY <1>9, <2>1
  <2>4. next' \in 0 .. Size
    BY <1>1, <1>3
  <2>5. edges' \subseteq Ends
    BY <1>1, <1>3
  <2>6. \A i, j \in DOMAIN queue' : queue'[i] = queue'[j] => i = j
    BY <1>12, <2>1, <2>3
  <2>7. \A i \in DOMAIN queue' : labels'[queue'[i]] = next'
    BY <1>3, <1>11, <2>1, <2>3
  <2>8. labels' \in [C!Nodes -> 0 .. next']
    BY <1>3, <2>2
  <2> QED  BY <2>3, <2>4, <2>5, <2>6, <2>7, <2>8 DEF C!TypeOK
<1>14. Seeded'
  <2> SUFFICES ASSUME NEW k \in 1 .. next PROVE \E x \in C!Nodes : IsSeed(x, k)'
    BY <1>3 DEF Seeded
  <2>1. PICK x \in C!Nodes : IsSeed(x, k)
    BY DEF ConnectivityInv, Seeded
  <2>2. labels'[x] = k
    BY <1>6, <2>1 DEF IsSeed
  <2>3. ASSUME NEW m \in C!Nodes, m < x PROVE labels'[m] \in 1 .. (k - 1)
    <3>1. labels[m] \in 1 .. (k - 1)
      BY <2>1, <2>3 DEF IsSeed
    <3>2. labels[m] # 0
      BY <3>1
    <3> QED  BY <1>6, <3>1, <3>2
  <2> QED  BY <2>2, <2>3 DEF IsSeed
(* The head has its label from its neighbours, and the others keep theirs. *)
<1>15. ASSUME NEW m \in C!Neighbours(h) PROVE labels'[m] = next
  <2>1. m \in C!Nodes /\ h \in C!Neighbours(m)
    BY <1>4, NeighboursAreMutual DEF ConnectivityInv
  <2>2. CASE m \in found
    BY <1>6, <2>2
  <2>3. CASE m \notin found
    <3>1. labels[m] # 0 /\ labels'[m] = labels[m]
      BY <1>6, <2>1, <2>3 DEF found
    <3>2. CASE Queued(m)
      BY <1>1, <3>1, <3>2 DEF Queued
    <3>3. CASE ~ Queued(m)
      BY <1>5, <2>1, <3>1, <3>3 DEF ConnectivityInv, Followed, Labelled, C!Unseen
    <3> QED  BY <3>2, <3>3
  <2> QED  BY <2>2, <2>3
<1>16. Followed'
  <2> SUFFICES ASSUME NEW a \in C!Nodes, labels'[a] # 0, ~ Queued(a)', NEW m \in C!Neighbours(a)
               PROVE  labels'[m] = labels'[a]
    BY <1>3 DEF Followed, C!Neighbours, Labelled, C!Unseen
  <2>1. queue' = new
    BY <1>2 DEF new, rest
  <2>2. \A i \in 1 .. (r + s) : new[i] # a
    BY <1>9, <2>1 DEF Queued
  <2>3. a \notin found
    <3> SUFFICES ASSUME a \in found PROVE FALSE
      OBVIOUS
    <3>1. PICK i \in 1 .. s : order[i] = a
      BY <1>7, <1>8
    <3>2. r + i \in 1 .. (r + s) /\ new[r + i] = a
      BY <1>8, <1>9, <3>1
    <3> QED  BY <2>2, <3>2
  <2>4. labels'[a] = labels[a] /\ labels[a] # 0
    BY <1>6, <2>3
  <2>5. CASE a = h
    BY <1>5, <1>15, <2>4, <2>5
  <2>6. CASE a # h
    <3>1. ~ Queued(a)
      <4> SUFFICES ASSUME NEW i \in DOMAIN queue, queue[i] = a PROVE FALSE
        BY DEF Queued
      <4>1. i # 1 /\ i \in 1 .. (r + 1)
        BY <1>4, <1>8, <2>6
      <4>2. i - 1 \in 1 .. r /\ (i - 1) + 1 = i /\ i - 1 \in 1 .. (r + s)
        BY <1>8, <4>1
      <4>3. new[i - 1] = a
        BY <1>8, <1>9, <4>2
      <4> QED  BY <2>2, <4>2, <4>3
    <3>2. labels[m] = labels[a] /\ m \in C!Nodes
      BY <2>4, <3>1, NeighboursAreMutual DEF ConnectivityInv, Followed, Labelled, C!Unseen
    <3> QED  BY <1>6, <2>4, <3>2
  <2> QED  BY <2>5, <2>6
<1>17. Together'
  <2> SUFFICES ASSUME NEW set \in SUBSET C!Nodes, C!Closed(set),
                      NEW a \in C!Nodes, NEW b \in C!Nodes,
                      labels'[a] # 0, labels'[a] = labels'[b]
               PROVE  a \in set <=> b \in set
    BY <1>3, Zenon DEF Together, Labelled, C!Unseen, C!Closed
  <2>1. ASSUME NEW c \in found PROVE (c \in set <=> h \in set) /\ labels'[c] = next
    <3>1. c \in C!Neighbours(h)
      BY DEF found
    <3> QED  BY <1>4, <1>6, <3>1, NeighboursAreMutual DEF ConnectivityInv
  <2>2. ASSUME NEW c \in C!Nodes, c \notin found, labels'[c] # 0
        PROVE  \A d \in C!Nodes : labels[d] = labels'[c] => (c \in set <=> d \in set)
    BY <1>6, <2>2 DEF ConnectivityInv, Together, Labelled, C!Unseen
  <2>3. CASE a \in found /\ b \in found
    BY <2>1, <2>3
  <2>4. CASE a \in found /\ b \notin found
    BY <1>4, <1>5, <2>1, <2>2, <2>4
  <2>5. CASE a \notin found /\ b \in found
    BY <1>4, <1>5, <2>1, <2>2, <2>5
  <2>6. CASE a \notin found /\ b \notin found
    BY <1>6, <2>2, <2>6
  <2> QED  BY <2>3, <2>4, <2>5, <2>6
<1> QED  BY <1>3, <1>5, <1>13, <1>14, <1>16, <1>17 DEF ConnectivityInv

LEMMA ConnectivityStep == ConnectivityInv /\ [C!Next]_C!vars => ConnectivityInv'
<1> SUFFICES ASSUME ConnectivityInv, [C!Next]_C!vars PROVE ConnectivityInv'
  OBVIOUS
<1>1. CASE C!Seed
  BY <1>1, SeedKeeps
<1>2. CASE C!Visit
  BY <1>2, VisitKeeps
<1>3. CASE UNCHANGED C!vars
  BY <1>3, Zenon DEF C!vars, ConnectivityInv, C!TypeOK, Followed, Together, Seeded, IsSeed,
     Labelled, Queued, C!Neighbours, C!Closed, C!Nodes, C!Unseen
<1> QED  BY <1>1, <1>2, <1>3 DEF C!Next

(* When all nodes have been visited, classes of a label are closed sets.   *)
LEMMA LabelsAreRight == ConnectivityInv => C!LabelsAreComponents
<1> SUFFICES ASSUME ConnectivityInv, C!Done PROVE C!LabelsAreComponents
  BY DEF C!LabelsAreComponents
<1>1. /\ queue = <<>> /\ labels \in [C!Nodes -> 0 .. next] /\ next \in Nat /\ Size \in Nat
      /\ \A n \in C!Nodes : labels[n] \in 1 .. next
  BY ConnectivityAssumption DEF C!Done, ConnectivityInv, C!TypeOK, C!EndsAssumption, C!Unseen
<1>2. ASSUME NEW m \in C!Nodes, NEW n \in C!Nodes
      PROVE  labels[m] = labels[n] <=> n \in C!ComponentOf(m)
  <2>1. ASSUME labels[m] = labels[n] PROVE n \in C!ComponentOf(m)
    BY <1>1, <2>1 DEF ConnectivityInv, Together, Labelled, C!Unseen, C!ComponentOf
  <2>2. ASSUME n \in C!ComponentOf(m) PROVE labels[m] = labels[n]
    <3> DEFINE class == {x \in C!Nodes : labels[x] = labels[m]}
    <3>1. ASSUME NEW e \in edges PROVE e.from \in class <=> e.to \in class
      <4>1. e.from \in C!Nodes /\ e.to \in C!Nodes
        BY ConnectivityAssumption DEF ConnectivityInv, C!TypeOK, C!EndsAssumption, C!Nodes
      <4>2. e.to \in C!Neighbours(e.from)
        BY DEF C!Neighbours
      <4>3. labels[e.to] = labels[e.from]
        BY <1>1, <4>1, <4>2 DEF ConnectivityInv, Followed, Labelled, Queued, C!Unseen
      <4> QED  BY <4>1, <4>3
    <3>2. C!Closed(class)
      BY <3>1 DEF C!Closed
    <3> QED  BY <2>2, <3>2 DEF C!ComponentOf
  <2> QED  BY <2>1, <2>2
<1>3. {labels[n] : n \in C!Nodes} = 1 .. next
  BY <1>1 DEF ConnectivityInv, Seeded, IsSeed
<1>4. ASSUME NEW m \in C!Nodes, NEW n \in C!Nodes,
             \A k \in C!Nodes : k < n => labels[k] # labels[n], m < n
      PROVE  labels[m] < labels[n]
  <2>1. PICK x \in C!Nodes : IsSeed(x, labels[n])
    BY <1>1 DEF ConnectivityInv, Seeded
  <2>2. x \in Nat /\ n \in Nat /\ m \in Nat
    BY DEF C!Nodes
  <2>3. ~ (x < n)
    BY <1>4, <2>1 DEF IsSeed
  <2>4. m < x
    BY <1>4, <2>2, <2>3
  <2> QED  BY <1>1, <2>1, <2>4 DEF IsSeed
<1> QED  BY <1>2, <1>3, <1>4 DEF C!LabelsAreComponents

(* Only its own steps move a query, and it stays the query it is.          *)
LEMMA QueryStep ==
    ASSUME [Next]_vars
    PROVE  /\ query' = query
           /\ query = "route" => [R!Next]_R!vars
           /\ query = "isochrone" => [I!Next]_I!vars
           /\ query = "alternatives" => [A!Next]_A!vars
           /\ query = "connectivity" => [C!Next]_C!vars
           /\ query = "clusters" => [G!Group]_G!vars
<1>1. CASE FindRoute
  BY <1>1 DEF FindRoute
<1>2. CASE FindReachable
  BY <1>2 DEF FindReachable
<1>3. CASE FindAlternatives
  BY <1>3 DEF FindAlternatives
<1>4. CASE FindComponents
  BY <1>4 DEF FindComponents
<1>5. CASE FindClusters
  BY <1>5 DEF FindClusters
<1>6. CASE UNCHANGED vars
  BY <1>6 DEF vars, R!vars, I!vars, A!vars, C!vars, G!vars
<1> QED  BY <1>1, <1>2, <1>3, <1>4, <1>5, <1>6 DEF Next

(* The labels of ComputeConnectivity are right, for every network.         *)
THEOREM ConnectivityIsRight == Spec => []LabelsAreComponents
<1> DEFINE Inv == query = "connectivity" => ConnectivityInv
<1>1. Init => Inv
  <2> SUFFICES ASSUME Init, query = "connectivity" PROVE ConnectivityInv
    OBVIOUS
  <2>1. C!Init
    BY DEF Init
  <2> QED  BY <2>1, ConnectivityInit
<1>2. Inv /\ [Next]_vars => Inv'
  <2> SUFFICES ASSUME Inv, [Next]_vars, query' = "connectivity" PROVE ConnectivityInv'
    OBVIOUS
  <2>1. query = "connectivity" /\ [C!Next]_C!vars
    BY QueryStep
  <2> QED  BY <2>1, ConnectivityStep
<1>3. Inv => LabelsAreComponents
  BY LabelsAreRight DEF LabelsAreComponents, ConnectivityInv
<1> QED  BY <1>1, <1>2, <1>3, PTL DEF Spec

-------------------------------------------------------------------------------
(* Clusters                                                                *)

(* What is in no cluster is too far from every seed.                       *)
ClustersInv ==
    /\ scenario \in ClusterScenarios
    /\ results \in Seq([seed : G!Nodes, nodes : SUBSET G!Nodes])
    /\ \A i \in DOMAIN results :
          /\ results[i].seed \in results[i].nodes
          /\ \A n \in G!Remaining : G!Distance(results[i].seed, n) > G!Radius
    /\ G!ClustersAreRight

LEMMA ClustersInit == G!Init => ClustersInv
  BY DEF G!Init, ClustersInv, G!ClustersAreRight

LEMMA GroupKeeps ==
    ASSUME ClustersInv, G!Group
    PROVE  ClustersInv'
<1> DEFINE s == G!Min(G!Remaining)
           c == [seed |-> s, nodes |-> {s} \union G!Near(s)]
           n == Len(results)
<1>1. /\ scenario' = scenario /\ results' = Append(results, c) /\ G!Remaining # {}
      /\ scenario \in ClusterScenarios
      /\ G!Nodes \subseteq Nat /\ scenario.position \in [G!Nodes -> Int]
      /\ G!Radius \in Nat \ {0}
  BY ClustersAssumption DEF ClustersInv, G!Group, G!ScenarioAssumption, G!Nodes, G!Radius
<1>2. s \in G!Remaining
  <2>1. G!Remaining \in SUBSET Nat
    BY <1>1 DEF G!Remaining
  <2>2. \E m \in G!Remaining : \A y \in G!Remaining : m <= y
    BY <1>1, <2>1, LeastNumber
  <2> QED  BY <2>2, Zenon DEF G!Min
<1>3. /\ G!Remaining \subseteq G!Nodes
      /\ G!Nodes' = G!Nodes /\ G!Radius' = G!Radius
      /\ \A a, b : G!Distance(a, b)' = G!Distance(a, b)
  BY <1>1 DEF G!Nodes, G!Radius, G!Distance, G!Remaining
<1>4. \A a, b \in G!Nodes : /\ G!Distance(a, b) \in Nat
                            /\ G!Distance(a, a) = 0
                            /\ G!Distance(a, b) = G!Distance(b, a)
  <2> SUFFICES ASSUME NEW a \in G!Nodes, NEW b \in G!Nodes
               PROVE  /\ G!Distance(a, b) \in Nat
                      /\ G!Distance(a, a) = 0
                      /\ G!Distance(a, b) = G!Distance(b, a)
    OBVIOUS
  <2>1. scenario.position[a] \in Int /\ scenario.position[b] \in Int
    BY <1>1
  <2> QED  BY <2>1 DEF G!Distance
<1>5. /\ c.seed = s /\ s \in c.nodes /\ c.nodes \subseteq G!Remaining
      /\ \A m \in c.nodes : G!Distance(s, m) <= G!Radius
      /\ \A m \in G!Remaining \ c.nodes : G!Distance(s, m) > G!Radius
  <2>1. c.seed = s /\ c.nodes = {s} \union G!Near(s)
    OBVIOUS
  <2>2. G!Near(s) = {m \in G!Remaining : G!Distance(s, m) <= G!Radius}
    BY DEF G!Near
  <2> HIDE DEF c, s
  <2>3. \A m \in G!Remaining : m \in G!Nodes /\ G!Distance(s, m) \in Nat
    BY <1>2, <1>3, <1>4
  <2>4. G!Distance(s, s) <= G!Radius
    BY <1>1, <1>2, <1>3, <1>4
  <2> QED  BY <1>1, <1>2, <2>1, <2>2, <2>3, <2>4
<1> DEFINE Kind == [seed : G!Nodes, nodes : SUBSET G!Nodes]
<1>6. results \in Seq(Kind) /\ c \in Kind
  <2>1. c = [seed |-> c.seed, nodes |-> c.nodes]
    OBVIOUS
  <2> HIDE DEF c, s
  <2> QED  BY <1>2, <1>3, <1>5, <2>1 DEF ClustersInv
<1> HIDE DEF s, c, Kind
<1>7. /\ results' \in Seq(Kind) /\ n \in Nat
      /\ DOMAIN results = 1 .. n /\ DOMAIN results' = 1 .. (n + 1)
      /\ results'[n + 1] = c
      /\ \A i \in 1 .. n : results'[i] = results[i]
  BY <1>1, <1>6
<1> HIDE DEF n
<1>8. \A i \in DOMAIN results' : i \in DOMAIN results \/ i = n + 1
  BY <1>7
<1>9. G!Remaining' = G!Remaining \ c.nodes
  <2>1. G!Grouped' = G!Grouped \union c.nodes
    BY <1>7, <1>8 DEF G!Grouped
  <2> QED  BY <1>3, <2>1 DEF G!Remaining
<1>10. ASSUME NEW i \in DOMAIN results
       PROVE  /\ results[i] \in Kind /\ results'[i] = results[i] /\ i # n + 1
              /\ results[i].seed \in results[i].nodes
              /\ \A m \in G!Remaining : G!Distance(results[i].seed, m) > G!Radius
              /\ results[i].nodes \intersect G!Remaining = {}
              /\ \A m \in results[i].nodes : G!Distance(results[i].seed, m) <= G!Radius
  BY <1>6, <1>7 DEF ClustersInv, G!ClustersAreRight, G!Remaining, G!Grouped
<1>11. ASSUME NEW i \in DOMAIN results'
       PROVE  /\ results'[i].seed \in results'[i].nodes
              /\ \A m \in G!Remaining' : G!Distance(results'[i].seed, m) > G!Radius
  <2>1. CASE i \in DOMAIN results
    BY <1>9, <1>10, <2>1
  <2>2. CASE i = n + 1
    BY <1>5, <1>7, <1>9, <2>2
  <2> QED  BY <1>8, <2>1, <2>2
<1>12. G!ClustersAreRight'
  <2> SUFFICES ASSUME NEW i \in DOMAIN results'
               PROVE  /\ \A m \in results'[i].nodes :
                            G!Distance(results'[i].seed, m) <= G!Radius
                      /\ \A j \in DOMAIN results' : j # i =>
                            /\ results'[i].nodes \intersect results'[j].nodes = {}
                            /\ G!Distance(results'[i].seed, results'[j].seed) > G!Radius
    BY <1>3, Zenon DEF G!ClustersAreRight
  <2>1. \A m \in results'[i].nodes : G!Distance(results'[i].seed, m) <= G!Radius
    BY <1>5, <1>7, <1>8, <1>10
  <2>2. ASSUME NEW j \in DOMAIN results
        PROVE  /\ results[j].nodes \intersect c.nodes = {}
               /\ G!Distance(results[j].seed, c.seed) > G!Radius
               /\ G!Distance(c.seed, results[j].seed) > G!Radius
    <3>1. results[j].nodes \intersect c.nodes = {}
      BY <1>5, <1>10
    <3>2. G!Distance(results[j].seed, s) > G!Radius
      BY <1>2, <1>10
    <3>3. results[j].seed \in G!Nodes /\ s \in G!Nodes
      BY <1>2, <1>3, <1>10 DEF Kind
    <3> QED  BY <1>4, <1>5, <3>1, <3>2, <3>3
  <2>3. ASSUME NEW j \in DOMAIN results', j # i
        PROVE  /\ results'[i].nodes \intersect results'[j].nodes = {}
               /\ G!Distance(results'[i].seed, results'[j].seed) > G!Radius
    <3>1. CASE i \in DOMAIN results /\ j \in DOMAIN results
      <4>1. results'[i] = results[i] /\ results'[j] = results[j]
        BY <1>10, <3>1
      <4> QED  BY <2>3, <3>1, <4>1 DEF ClustersInv, G!ClustersAreRight
    <3>2. CASE i = n + 1 /\ j \in DOMAIN results
      BY <1>7, <1>10, <2>2, <3>2
    <3>3. CASE j = n + 1 /\ i \in DOMAIN results
      BY <1>7, <1>10, <2>2, <3>3
    <3> QED  BY <1>8, <2>3, <3>1, <3>2, <3>3
  <2> QED  BY <2>1, <2>3
<1>13. scenario' \in ClusterScenarios
  BY <1>1
<1>14. results' \in Seq([seed : G!Nodes', nodes : SUBSET G!Nodes'])
  BY <1>3, <1>7 DEF Kind
<1> QED  BY <1>3, <1>11, <1>12, <1>13, <1>14, Zenon DEF ClustersInv

(* The clusters of ClusterNodes are right, for any locations and radius.   *)
THEOREM ClustersAreAlwaysRight == Spec => []ClustersAreRight
<1> DEFINE Inv == query = "clusters" => ClustersInv
<1>1. Init => Inv
  <2> SUFFICES ASSUME Init, query = "clusters" PROVE ClustersInv
    OBVIOUS
  <2>1. G!Init
    BY DEF Init
  <2> QED  BY <2>1, ClustersInit
<1>2. Inv /\ [Next]_vars => Inv'
  <2> SUFFICES ASSUME Inv, [Next]_vars, query' = "clusters" PROVE ClustersInv'
    OBVIOUS
  <2>1. query = "clusters" /\ [G!Group]_G!vars
    BY QueryStep
  <2>2. CASE G!Group
    BY <2>1, <2>2, GroupKeeps
  <2>3. CASE UNCHANGED G!vars
    <3>1. UNCHANGED <<scenario, results>>
      BY <2>3 DEF G!vars
    <3>2. /\ G!Nodes' = G!Nodes /\ G!Radius' = G!Radius /\ G!Remaining' = G!Remaining
          /\ \A a, b : G!Distance(a, b)' = G!Distance(a, b)
      BY <3>1 DEF G!Nodes, G!Remaining, G!Grouped, G!Distance, G!Radius
    <3>3. G!ClustersAreRight'
      BY <2>1, <3>1, <3>2, Zenon DEF ClustersInv, G!ClustersAreRight
    <3> QED  BY <2>1, <3>1, <3>2, <3>3, Zenon DEF ClustersInv
  <2> QED  BY <2>1, <2>2, <2>3
<1>3. Inv => ClustersAreRight
  BY DEF ClustersAreRight, ClustersInv
<1> QED  BY <1>1, <1>2, <1>3, PTL DEF Spec

-------------------------------------------------------------------------------
(* The instances of RoadNetwork that the searches extend are the module    *)
(* the lemmas are about.                                                   *)
LEMMA RouteNetwork ==
    /\ \A n : R!WellFormed(n) = WellFormed(n)
    /\ \A n, o : R!Outgoing(n, o) = Outgoing(n, o)
    /\ \A n, e, t : R!Seconds(n, e, t) = Seconds(n, e, t)
    /\ \A n, r, e, t : R!Allowed(n, r, e, t) = Allowed(n, r, e, t)
    /\ \A n, r, p : R!TimesAlong(n, r, p) = TimesAlong(n, r, p)
    /\ \A n, r, p : R!Drivable(n, r, p) = Drivable(n, r, p)
    /\ \A n, r, t : R!Arrivals(n, r, t) = Arrivals(n, r, t)
    /\ \A n, r, t : R!NoOvertaking(n, r, t) = NoOvertaking(n, r, t)
<1>1. \A n : R!WellFormed(n) = WellFormed(n)
  BY Zenon DEF R!WellFormed, WellFormed, R!IsFiniteSet, IsFiniteSet
<1>2. \A n, o : R!Outgoing(n, o) = Outgoing(n, o)
  BY Zenon DEF R!Outgoing, Outgoing
<1>3. \A n, e, t : R!Seconds(n, e, t) = Seconds(n, e, t)
  BY Zenon DEF R!Seconds, Seconds, R!FoldSet, FoldSet, R!MapThenFoldSet, MapThenFoldSet,
     R!Slowed, Slowed, R!Affecting, Affecting, R!Contains, Contains, R!Always, Always
<1>4. \A n, r, e, t : R!Allowed(n, r, e, t) = Allowed(n, r, e, t)
  BY Zenon DEF R!Allowed, Allowed, R!Usable, Usable, R!Supports, Supports, R!Affecting,
     Affecting,
     R!Contains, Contains, R!Always, Always
<1>5. \A n, r, p : R!TimesAlong(n, r, p) = TimesAlong(n, r, p)
  BY Zenon DEF R!TimesAlong, TimesAlong, R!Seconds, Seconds, R!FoldSet, FoldSet,
     R!MapThenFoldSet, MapThenFoldSet,
     R!Slowed, Slowed, R!Affecting, Affecting, R!Contains, Contains, R!Always, Always
<1>6. \A n, r, p : R!Drivable(n, r, p) = Drivable(n, r, p)
  BY <1>4, <1>5 DEF R!Drivable, Drivable
<1>7. \A n, r, t : R!Arrivals(n, r, t) = Arrivals(n, r, t)
  BY Zenon DEF R!Arrivals, Arrivals, R!Outgoing, Outgoing, R!Allowed, Allowed, R!Usable,
     Usable, R!Supports, Supports,
     R!Seconds, Seconds, R!FoldSet, FoldSet, R!MapThenFoldSet, MapThenFoldSet,
     R!Slowed, Slowed, R!Affecting, Affecting, R!Contains, Contains, R!Always, Always
<1>8. \A n, r, t : R!NoOvertaking(n, r, t) = NoOvertaking(n, r, t)
  BY Zenon DEF R!NoOvertaking, NoOvertaking, R!Allowed, Allowed, R!Usable, Usable,
     R!Supports, Supports,
     R!Seconds, Seconds, R!FoldSet, FoldSet, R!MapThenFoldSet, MapThenFoldSet,
     R!Slowed, Slowed, R!Affecting, Affecting, R!Contains, Contains, R!Always, Always
<1> QED  BY <1>1, <1>2, <1>3, <1>4, <1>5, <1>6, <1>7, <1>8

LEMMA IsochroneNetwork ==
    /\ \A n : I!WellFormed(n) = WellFormed(n)
    /\ \A n, o : I!Outgoing(n, o) = Outgoing(n, o)
    /\ \A n, e, t : I!Seconds(n, e, t) = Seconds(n, e, t)
    /\ \A n, r, e, t : I!Allowed(n, r, e, t) = Allowed(n, r, e, t)
    /\ \A n, r, t : I!Arrivals(n, r, t) = Arrivals(n, r, t)
    /\ \A n, r, t : I!NoOvertaking(n, r, t) = NoOvertaking(n, r, t)
<1>1. \A n : I!WellFormed(n) = WellFormed(n)
  BY Zenon DEF I!WellFormed, WellFormed, I!IsFiniteSet, IsFiniteSet
<1>2. \A n, o : I!Outgoing(n, o) = Outgoing(n, o)
  BY Zenon DEF I!Outgoing, Outgoing
<1>3. \A n, e, t : I!Seconds(n, e, t) = Seconds(n, e, t)
  BY Zenon DEF I!Seconds, Seconds, I!FoldSet, FoldSet, I!MapThenFoldSet, MapThenFoldSet,
     I!Slowed, Slowed, I!Affecting, Affecting, I!Contains, Contains, I!Always, Always
<1>4. \A n, r, e, t : I!Allowed(n, r, e, t) = Allowed(n, r, e, t)
  BY Zenon DEF I!Allowed, Allowed, I!Usable, Usable, I!Supports, Supports, I!Affecting,
     Affecting,
     I!Contains, Contains, I!Always, Always
<1>5. \A n, r, t : I!Arrivals(n, r, t) = Arrivals(n, r, t)
  BY Zenon DEF I!Arrivals, Arrivals, I!Outgoing, Outgoing, I!Allowed, Allowed, I!Usable,
     Usable, I!Supports, Supports,
     I!Seconds, Seconds, I!FoldSet, FoldSet, I!MapThenFoldSet, MapThenFoldSet,
     I!Slowed, Slowed, I!Affecting, Affecting, I!Contains, Contains, I!Always, Always
<1>6. \A n, r, t : I!NoOvertaking(n, r, t) = NoOvertaking(n, r, t)
  BY Zenon DEF I!NoOvertaking, NoOvertaking, I!Allowed, Allowed, I!Usable, Usable,
     I!Supports, Supports,
     I!Seconds, Seconds, I!FoldSet, FoldSet, I!MapThenFoldSet, MapThenFoldSet,
     I!Slowed, Slowed, I!Affecting, Affecting, I!Contains, Contains, I!Always, Always
<1> QED  BY <1>1, <1>2, <1>3, <1>4, <1>5, <1>6
-------------------------------------------------------------------------------
(* The label-setting loop, which a route search and an isochrone share     *)

Ways == scenario.network
Asked == scenario.request

(* No arrival that matters is later.                                       *)
Last == IF query = "route" THEN Horizon ELSE Asked.departure + scenario.budget

(* A route search stops at its target; an isochrone has none.              *)
Target(n) == query = "route" /\ n = Asked.to

PlaceAt(n, cost) == [node |-> n, time |-> Asked.departure + cost]

Goes(n, cost, e) == GoesOn(Ways, Asked, Last, PlaceAt(n, cost), e)

CostBeyond(cost, e) == cost + Seconds(Ways, e, Asked.departure + cost)

InHeap(n) == \E l \in open : l.node = n /\ l.cost = best[n]

(* The end of an edge is labelled with what it costs to go there.          *)
Served(cost, e) == e.to \in DOMAIN best /\ best[e.to] <= CostBeyond(cost, e)

(* It will be, when the loop over the edges of current comes to it.        *)
Coming(n, cost, e) == e \in edges /\ current.node = n /\ current.cost = cost

Settled(n, cost) ==
    \A e \in Ways.edges : Goes(n, cost, e) => Served(cost, e) \/ Coming(n, cost, e)

LoopTypeOK ==
    /\ WellFormed(Ways) /\ Last \in Nat /\ Asked.departure \in 0 .. Last
    /\ best \in [DOMAIN best -> Nat]
    /\ Asked.from \in DOMAIN best /\ best[Asked.from] = 0
    /\ \A l \in open : l.cost \in Nat /\ l.node \in DOMAIN best /\ best[l.node] <= l.cost
    /\ current.cost \in Nat /\ edges \subseteq Outgoing(Ways, current.node)

(* A node with a cost waits in the heap with it, or its edges are served.  *)
LoopInv ==
    /\ LoopTypeOK
    /\ \A n \in DOMAIN best : InHeap(n) \/ (~ Target(n) /\ Settled(n, best[n]))

LEMMA LoopStarts ==
    ASSUME WellFormed(Ways), Last \in Nat, Asked.departure \in 0 .. Last,
           current.cost \in Nat, edges = {}, UNCHANGED <<query, scenario, current, edges>>,
           best' = [n \in {Asked.from} |-> 0],
           NEW label, label.node = Asked.from, label.cost = 0, open' = {label}
    PROVE  LoopInv'
<1>1. /\ Ways' = Ways /\ Asked' = Asked /\ Last' = Last
      /\ DOMAIN best' = {Asked.from} /\ best'[Asked.from] = 0
  BY DEF Ways, Asked, Last
<1>2. LoopTypeOK'
  <2>1. best' \in [DOMAIN best' -> Nat]
    BY <1>1
  <2>2. \A l \in open' : l.cost = 0 /\ l.node = Asked.from
    OBVIOUS
  <2>3. edges' = {} /\ current'.cost \in Nat
    OBVIOUS
  <2> QED  BY <1>1, <2>1, <2>2, <2>3 DEF LoopTypeOK
<1>3. \A n \in DOMAIN best' : InHeap(n)'
  BY <1>1, Zenon DEF InHeap
<1> QED  BY <1>2, <1>3 DEF LoopInv

(* What depends on the scenario stays.                                     *)
LEMMA SameAsked ==
    ASSUME UNCHANGED <<query, scenario>>
    PROVE  /\ Ways' = Ways /\ Asked' = Asked /\ Last' = Last
           /\ \A n : Target(n)' = Target(n)
           /\ \A n, c, e : Goes(n, c, e)' = Goes(n, c, e)
           /\ \A c, e : CostBeyond(c, e)' = CostBeyond(c, e)
  BY DEF Ways, Asked, Last, Target, Goes, PlaceAt, CostBeyond

LEMMA LoopStutters ==
    ASSUME LoopInv, UNCHANGED <<query, scenario, open, best, current, edges>>
    PROVE  LoopInv'
<1>1. LoopTypeOK'
  BY SameAsked DEF LoopInv, LoopTypeOK
<1>2. \A n : InHeap(n) => InHeap(n)'
  BY DEF InHeap
<1>3. \A n : Settled(n, best[n]) => Settled(n, best[n])'
  BY SameAsked, Zenon DEF Settled, Served, Coming
<1> QED  BY <1>1, <1>2, <1>3, SameAsked, Zenon DEF LoopInv

LEMMA StaleKeeps ==
    ASSUME LoopInv, UNCHANGED <<query, scenario, best, current, edges>>,
           NEW label \in open, label.cost > best[label.node], open' = open \ {label}
    PROVE  LoopInv'
<1>1. LoopTypeOK'
  BY SameAsked DEF LoopInv, LoopTypeOK
<1>2. \A n : InHeap(n) => InHeap(n)'
  BY DEF InHeap, LoopInv, LoopTypeOK
<1>3. \A n : Settled(n, best[n]) => Settled(n, best[n])'
  BY SameAsked, Zenon DEF Settled, Served, Coming
<1> QED  BY <1>1, <1>2, <1>3, SameAsked, Zenon DEF LoopInv

LEMMA ExpandKeeps ==
    ASSUME LoopInv, UNCHANGED <<query, scenario, best>>, edges = {},
           NEW label \in open, label.cost <= best[label.node], ~ Target(label.node),
           open' = open \ {label}, current' = label, edges' = Outgoing(Ways, label.node)
    PROVE  LoopInv'
<1>1. LoopTypeOK'
  BY SameAsked DEF LoopInv, LoopTypeOK
<1>2. label.cost = best[label.node]
  BY DEF LoopInv, LoopTypeOK
<1>3. ASSUME NEW n \in DOMAIN best, n # label.node
      PROVE  InHeap(n)' \/ (~ Target(n)' /\ Settled(n, best[n])')
  <2>1. InHeap(n) => InHeap(n)'
    BY <1>3 DEF InHeap
  <2>2. Settled(n, best[n]) => Settled(n, best[n])'
    BY SameAsked, Zenon DEF Settled, Served, Coming
  <2> QED  BY <2>1, <2>2, SameAsked DEF LoopInv
<1>4. ~ Target(label.node)' /\ Settled(label.node, best[label.node])'
  BY <1>2, SameAsked DEF Settled, Coming, Goes, GoesOn, PlaceAt
<1> QED  BY <1>1, <1>3, <1>4 DEF LoopInv

LEMMA SkipKeeps ==
    ASSUME LoopInv, UNCHANGED <<query, scenario, open, best, current>>,
           NEW edge \in edges, edges' = edges \ {edge},
           Goes(current.node, current.cost, edge) => Served(current.cost, edge)
    PROVE  LoopInv'
<1>1. LoopTypeOK'
  BY SameAsked DEF LoopInv, LoopTypeOK
<1>2. \A n : InHeap(n) => InHeap(n)'
  BY DEF InHeap
<1>3. \A n : Settled(n, best[n]) => Settled(n, best[n])'
  BY SameAsked DEF Settled, Served, Coming
<1> QED  BY <1>1, <1>2, <1>3, SameAsked, Zenon DEF LoopInv

LEMMA RelaxKeeps ==
    ASSUME LoopInv, UNCHANGED <<query, scenario, current>>,
           NEW edge \in edges, edges' = edges \ {edge},
           NEW label, label.node = edge.to, label.cost = CostBeyond(current.cost, edge),
           label.node \in DOMAIN best => label.cost < best[label.node],
           best' = [n \in DOMAIN best \union {label.node} |->
                       IF n = label.node THEN label.cost ELSE best[n]],
           open' = open \union {label}
    PROVE  LoopInv'
<1>1. label.cost \in Nat
  <2>1. edge \in Ways.edges /\ WellFormed(Ways)
    BY DEF LoopInv, LoopTypeOK, Outgoing
  <2>2. Seconds(Ways, edge, Asked.departure + current.cost) \in Nat
    BY <2>1, SecondsType
  <2> QED  BY <2>2 DEF CostBeyond, LoopInv, LoopTypeOK
<1>2. /\ \A n \in DOMAIN best : best'[n] \in Nat /\ best'[n] <= best[n]
      /\ DOMAIN best' = DOMAIN best \union {label.node}
      /\ best'[label.node] = label.cost
      /\ \A n \in DOMAIN best : n # label.node => best'[n] = best[n]
  BY <1>1 DEF LoopInv, LoopTypeOK
<1>3. LoopTypeOK'
  <2>1. best'[Asked.from] = 0 /\ Asked.from \in DOMAIN best
    BY <1>1, <1>2 DEF LoopInv, LoopTypeOK
  <2>2. best' \in [DOMAIN best' -> Nat]
    BY <1>1 DEF LoopInv, LoopTypeOK
  <2>3. \A l \in open' : l.cost \in Nat /\ l.node \in DOMAIN best' /\ best'[l.node] <= l.cost
    BY <1>1, <1>2 DEF LoopInv, LoopTypeOK
  <2> QED  BY <1>2, <2>1, <2>2, <2>3, SameAsked DEF LoopInv, LoopTypeOK
<1>4. ASSUME NEW n \in DOMAIN best, n # label.node
      PROVE  InHeap(n)' \/ (~ Target(n)' /\ Settled(n, best[n])')
  <2>1. CASE InHeap(n)
    BY <1>2, <1>4, <2>1 DEF InHeap
  <2>2. CASE ~ Target(n) /\ Settled(n, best[n])
    <3>1. best'[n] = best[n]
      BY <1>2, <1>4
    <3>2. ASSUME NEW e \in Ways.edges, Goes(n, best[n], e)
          PROVE  Served(best[n], e)' \/ Coming(n, best[n], e)'
      <4>1. CASE Served(best[n], e)
        <5>1. best[e.to] \in Nat /\ best'[e.to] \in Nat /\ CostBeyond(best[n], e) \in Nat
          <6>1. Seconds(Ways, e, Asked.departure + best[n]) \in Nat
            BY SecondsType DEF LoopInv, LoopTypeOK
          <6> QED  BY <1>2, <4>1, <6>1 DEF Served, LoopInv, LoopTypeOK, CostBeyond
        <5> QED  BY <1>2, <3>1, <4>1, <5>1, SameAsked DEF Served
      <4>2. CASE Coming(n, best[n], e) /\ e = edge
        BY <1>1, <1>2, <3>1, <4>2, SameAsked DEF Coming, Served
      <4>3. CASE Coming(n, best[n], e) /\ e # edge
        BY <3>1, <4>3 DEF Coming
      <4> QED  BY <2>2, <3>2, <4>1, <4>2, <4>3 DEF Settled
    <3> QED  BY <2>2, <3>1, <3>2, SameAsked, Zenon DEF Settled
  <2> QED  BY <1>4, <2>1, <2>2 DEF LoopInv
<1>5. InHeap(label.node)'
  BY <1>2 DEF InHeap
<1> QED  BY <1>2, <1>3, <1>4, <1>5, Zenon DEF LoopInv

(* When no node waits, and nobody overtakes, every place reached has a     *)
(* node with a cost that is no later.                                      *)
LEMMA LoopIsComplete ==
    ASSUME LoopInv, edges = {}, NoOvertaking(Ways, Asked, Last),
           NEW n \in DOMAIN best, Settled(n, best[n]), NEW time \in Nat,
           Asked.departure + best[n] <= time,
           NEW e \in Ways.edges, GoesOn(Ways, Asked, Last, [node |-> n, time |-> time], e)
    PROVE  /\ e.to \in DOMAIN best
           /\ Asked.departure + best[e.to] <= time + Seconds(Ways, e, time)
<1> DEFINE a == Asked.departure + best[n]
<1>1. best[n] \in Nat /\ a \in Nat /\ Last \in Nat /\ Asked.departure \in Nat /\ WellFormed(Ways)
  BY DEF LoopInv, LoopTypeOK
<1>2. /\ e \in Outgoing(Ways, n) /\ Allowed(Ways, Asked, e, time)
      /\ time + Seconds(Ways, e, time) <= Last
  BY DEF GoesOn
<1>3. Seconds(Ways, e, time) \in Nat /\ Seconds(Ways, e, a) \in Nat
  BY <1>1, SecondsType
<1>4. a \in Asked.departure .. Last /\ time \in a .. Last
  BY <1>1, <1>2, <1>3
<1>5. Allowed(Ways, Asked, e, a) /\ a + Seconds(Ways, e, a) <= time + Seconds(Ways, e, time)
  BY <1>1, <1>2, <1>4, EarlierIsNoLater
<1>6. Goes(n, best[n], e)
  BY <1>1, <1>2, <1>3, <1>5 DEF Goes, PlaceAt, GoesOn
<1>7. Served(best[n], e)
  BY <1>6 DEF Settled, Coming
<1>8. e.to \in DOMAIN best /\ best[e.to] <= best[n] + Seconds(Ways, e, a) /\ best[e.to] \in Nat
  BY <1>7 DEF Served, CostBeyond, LoopInv, LoopTypeOK
<1> QED  BY <1>1, <1>3, <1>5, <1>8

(* When the heap is empty, every node that can be reached is labelled, and *)
(* with a cost that is no later.                                           *)
LEMMA ReachedAreServed ==
    ASSUME LoopInv, edges = {}, open = {}, NoOvertaking(Ways, Asked, Last),
           NEW place \in Arrivals(Ways, Asked, Last)
    PROVE  place.node \in DOMAIN best /\ Asked.departure + best[place.node] <= place.time
<1> DEFINE dep == Asked.departure
           P == {p \in Places(Ways, Asked) : p.node \in DOMAIN best /\ dep + best[p.node] <= p.time}
<1>1. /\ WellFormed(Ways) /\ Last \in Nat /\ dep \in 0 .. Last
      /\ \A e \in Ways.edges : e.from \in Ways.nodes /\ e.to \in Ways.nodes
  BY DEF LoopInv, LoopTypeOK, WellFormed
<1>2. \A n \in DOMAIN best : Settled(n, best[n])
  BY DEF LoopInv, InHeap
<1>3. Origin(Asked) \in P
  BY <1>1 DEF Origin, Places, LoopInv, LoopTypeOK
<1>4. ASSUME NEW p \in P, NEW e \in Ways.edges, GoesOn(Ways, Asked, Last, p, e)
      PROVE  Beyond(Ways, p, e) \in P
  <2>1. /\ p.time \in Nat /\ p = [node |-> p.node, time |-> p.time]
        /\ Seconds(Ways, e, p.time) \in Nat
    BY <1>1, SecondsType DEF Places
  <2>2. /\ e.to \in DOMAIN best
        /\ dep + best[e.to] <= p.time + Seconds(Ways, e, p.time)
    BY <1>2, <1>4, <2>1, LoopIsComplete
  <2> QED  BY <1>1, <2>1, <2>2 DEF Beyond, Places
<1> HIDE DEF P
<1>5. place \in P
  BY <1>1, <1>3, <1>4, ArrivalsLeast
<1> QED  BY <1>5 DEF P

-------------------------------------------------------------------------------
(* Route search                                                            *)

(* The path of a label leads from the origin to its node, open all along,  *)
(* in the time the label says.                                             *)
Real(l) ==
    /\ l.cost \in Nat /\ l.path \in Seq(Ways.edges)
    /\ Drivable(Ways, Asked, l.path)
    /\ TimesAlong(Ways, Asked, l.path)[Len(l.path)] = Asked.departure + l.cost
    /\ EndOf(Asked, l.path) = l.node

LabelsInv == \A l \in R!Labels : Real(l)

Asking == Asked.from # Asked.to /\ {Asked.from, Asked.to} \subseteq Ways.nodes

RouteInv ==
    /\ query = "route" /\ R!TypeOK /\ LabelsInv /\ R!RouteIsRight
    /\ phase = "called" => open = {} /\ edges = {}
    /\ phase = "searching" => LoopInv /\ Asking

LEMMA RouteScenario ==
    ASSUME scenario \in RouteScenarios, query = "route"
    PROVE  /\ WellFormed(Ways) /\ Last = Horizon
           /\ Horizon \in Nat /\ Asked.departure \in 0 .. Horizon
           /\ \A n \in Ways.nodes : scenario.estimate[n] \in Nat
           /\ \A e \in Ways.edges : e.from \in Ways.nodes /\ e.to \in Ways.nodes
<1>1. /\ WellFormed(Ways) /\ Horizon \in Nat /\ Asked.departure \in 1 .. Horizon
      /\ \A n \in Ways.nodes : scenario.estimate[n] \in Nat
  BY RouteAssumption, RouteNetwork DEF R!ScenarioAssumption, Ways, Asked
<1> QED  BY <1>1 DEF Last, WellFormed

LEMMA RouteNames ==
    /\ R!network = Ways /\ R!request = Asked
    /\ \A l : R!Arrival(l) = Asked.departure + l.cost
    /\ R!Reached = Arrivals(Ways, Asked, Horizon)
    /\ R!Fair = NoOvertaking(Ways, Asked, Horizon)
  BY RouteNetwork DEF R!network, R!request, R!Arrival, R!Reached, R!Fair, Ways, Asked

LEMMA RealFromStart ==
    ASSUME scenario \in RouteScenarios, query = "route",
           NEW l, l = R!Label(Asked.from, 0, <<>>)
    PROVE  Real(l)
<1>1. l.node = Asked.from /\ l.cost = 0 /\ l.path = <<>>
  BY DEF R!Label
<1>2. /\ <<>> \in Seq(Ways.edges) /\ Len(<<>>) = 0
      /\ WellFormed(Ways) /\ Asked.departure \in Nat
  BY RouteScenario
<1>3. TimesAlong(Ways, Asked, <<>>)[0] = Asked.departure
  BY <1>2, TimesAlongDef
<1>4. Drivable(Ways, Asked, <<>>)
  BY <1>2 DEF Drivable
<1>5. TimesAlong(Ways, Asked, l.path)[Len(l.path)] = Asked.departure + l.cost
  BY <1>1, <1>2, <1>3
<1>6. EndOf(Asked, l.path) = l.node
  BY <1>1 DEF EndOf
<1>7. l.path \in Seq(Ways.edges) /\ Drivable(Ways, Asked, l.path)
  BY <1>1, <1>2, <1>4, Zenon
<1>8. l.cost \in Nat
  BY <1>1
<1> QED  BY <1>5, <1>6, <1>7, <1>8 DEF Real

LEMMA RealGoesOn ==
    ASSUME scenario \in RouteScenarios, query = "route", Real(current),
           NEW edge \in Outgoing(Ways, current.node), R!Enterable(edge)
    PROVE  Real(R!Candidate(edge))
<1> DEFINE path == current.path
           at == Asked.departure + current.cost
           longer == Append(path, edge)
           l == R!Candidate(edge)
<1>1. /\ edge \in Ways.edges /\ edge.from = current.node
      /\ WellFormed(Ways) /\ Asked.departure \in Nat
      /\ path \in Seq(Ways.edges) /\ Drivable(Ways, Asked, path)
      /\ TimesAlong(Ways, Asked, path)[Len(path)] = at /\ EndOf(Asked, path) = current.node
      /\ current.cost \in Nat
  BY RouteScenario DEF Real, Outgoing
<1>2. /\ Allowed(Ways, Asked, edge, at)
      /\ l.node = edge.to /\ l.cost = current.cost + Seconds(Ways, edge, at) /\ l.path = longer
  BY RouteNames, RouteNetwork DEF R!Enterable, R!Entry, R!Candidate, R!Label
<1>3. Drivable(Ways, Asked, longer)
  BY <1>1, <1>2, DrivableAppend
<1>4. TimesAlong(Ways, Asked, longer)[Len(path) + 1] = at + Seconds(Ways, edge, at)
  BY <1>1, TimesAlongAppend
<1>5. /\ longer \in Seq(Ways.edges) /\ Len(longer) = Len(path) + 1 /\ longer # <<>>
      /\ longer[Len(longer)] = edge
  <2> HIDE DEF path
  <2>1. Len(path) \in Nat /\ longer \in Seq(Ways.edges) /\ Len(longer) = Len(path) + 1
    BY <1>1
  <2>2. longer[Len(path) + 1] = edge
    BY <1>1
  <2>3. longer # <<>>
    <3> HIDE DEF longer
    <3>1. Len(longer) # 0
      BY <2>1
    <3> QED  BY <3>1
  <2> QED  BY <2>1, <2>2, <2>3
<1>6. Seconds(Ways, edge, at) \in Nat
  BY <1>1, SecondsType
<1> HIDE DEF l, longer, path
<1>7. /\ l.cost \in Nat
      /\ TimesAlong(Ways, Asked, l.path)[Len(l.path)] = Asked.departure + l.cost
  BY <1>1, <1>2, <1>4, <1>5, <1>6
<1>8. EndOf(Asked, l.path) = l.node
  BY <1>2, <1>5 DEF EndOf
<1> QED  BY <1>2, <1>3, <1>5, <1>7, <1>8 DEF Real, l

(* The label popped at the target is the earliest arrival there: whatever  *)
(* place can be reached, its node is served with a cost that is no later,  *)
(* or a label in the heap promises to come there no later.                 *)
LEMMA TargetIsEarliest ==
    ASSUME RouteInv, phase = "searching", edges = {}, R!Fair, R!HeuristicIsSafe,
           NEW label \in open, label.node = Asked.to,
           \A other \in open : R!Estimate(label) <= R!Estimate(other),
           NEW place \in Arrivals(Ways, Asked, Horizon), place.node = Asked.to
    PROVE  Asked.departure + label.cost <= place.time
<1> DEFINE dep == Asked.departure
           est(n) == scenario.estimate[n]
           Passed(p) == /\ p.node \in DOMAIN best /\ ~ Target(p.node)
                        /\ Settled(p.node, best[p.node]) /\ dep + best[p.node] <= p.time
           Promised(p) == \E o \in open : dep + R!Estimate(o) <= p.time + est(p.node)
           P == {p \in Places(Ways, Asked) : dep <= p.time /\ (Passed(p) \/ Promised(p))}
<1>1. /\ WellFormed(Ways) /\ Last = Horizon /\ Horizon \in Nat /\ dep \in 0 .. Horizon
      /\ \A n \in Ways.nodes : est(n) \in Nat
      /\ \A e \in Ways.edges : e.from \in Ways.nodes /\ e.to \in Ways.nodes
      /\ NoOvertaking(Ways, Asked, Last)
  BY RouteScenario, RouteNames DEF RouteInv, R!TypeOK
<1>2. LoopInv /\ Asking /\ LoopTypeOK
  BY DEF RouteInv, LoopInv
<1>3. ASSUME NEW o \in open
      PROVE  /\ o.cost \in Nat /\ R!Estimate(o) \in Nat
             /\ R!Estimate(o) <= o.cost + est(o.node)
             /\ o.node # Asked.from => R!Estimate(o) = o.cost + est(o.node)
  <2>1. o.cost \in Nat /\ EndOf(Asked, o.path) = o.node
    BY DEF RouteInv, LabelsInv, Real, R!Labels
  <2>2. o.node \in Ways.nodes
    BY RouteNames DEF RouteInv, R!TypeOK
  <2>3. est(o.node) \in Nat
    BY <1>1, <2>2
  <2> QED  BY <2>1, <2>3 DEF R!Estimate, EndOf
<1>4. ASSUME NEW n \in Ways.nodes, n \in DOMAIN best, NEW time \in Nat, dep + best[n] <= time
      PROVE  [node |-> n, time |-> time] \in P
  <2> DEFINE p == [node |-> n, time |-> time]
  <2>1. p \in Places(Ways, Asked) /\ p.node = n /\ p.time = time /\ dep <= time
    BY <1>1, <1>2, <1>4 DEF Places, LoopTypeOK
  <2>2. CASE InHeap(n)
    <3>1. PICK o \in open : o.node = n /\ o.cost = best[n]
      BY <2>2 DEF InHeap
    <3>2. dep + R!Estimate(o) <= time + est(n)
      BY <1>1, <1>3, <1>4, <3>1
    <3> QED  BY <2>1, <3>2
  <2>3. CASE ~ Target(n) /\ Settled(n, best[n])
    BY <1>4, <2>1, <2>3
  <2> QED  BY <1>2, <1>4, <2>2, <2>3 DEF LoopInv
<1>5. Origin(Asked) \in P
  BY <1>1, <1>2, <1>4 DEF Origin, LoopTypeOK, Asking
<1>6. ASSUME NEW p \in P, NEW e \in Ways.edges, GoesOn(Ways, Asked, Horizon, p, e)
      PROVE  Beyond(Ways, p, e) \in P
  <2> DEFINE t == p.time + Seconds(Ways, e, p.time)
  <2>1. /\ p \in Places(Ways, Asked) /\ p.time \in Nat /\ p = [node |-> p.node, time |-> p.time]
        /\ Seconds(Ways, e, p.time) \in Nat /\ t \in Nat
        /\ e.from = p.node /\ Allowed(Ways, Asked, e, p.time) /\ t <= Horizon
        /\ dep <= p.time /\ dep <= t
        /\ Beyond(Ways, p, e) = [node |-> e.to, time |-> t]
    BY <1>1, <1>6, SecondsType DEF Places, GoesOn, Beyond, Outgoing
  <2>2. CASE Passed(p)
    <3>1. e.to \in DOMAIN best /\ dep + best[e.to] <= t
      BY <1>1, <1>2, <1>6, <2>1, <2>2, LoopIsComplete
    <3> QED  BY <1>1, <1>4, <2>1, <3>1
  <2>3. CASE Promised(p)
    <3>1. PICK o \in open : dep + R!Estimate(o) <= p.time + est(p.node)
      BY <2>3
    <3>2. p.time \in dep .. Horizon
      BY <1>1, <1>3, <1>6, <2>1
    <3>3. est(p.node) <= Seconds(Ways, e, p.time) + est(e.to)
      BY <2>1, <3>2, RouteNames, RouteNetwork DEF R!HeuristicIsSafe
    <3>4. dep + R!Estimate(o) <= t + est(e.to)
      BY <1>1, <1>3, <2>1, <3>1, <3>3
    <3> QED  BY <1>1, <2>1, <3>4 DEF Places
  <2> QED  BY <2>2, <2>3
<1> HIDE DEF P
<1>7. place \in P
  BY <1>1, <1>5, <1>6, ArrivalsLeast
<1>8. Promised(place) /\ place.time \in Nat
  BY <1>7 DEF P, Places, Target, RouteInv
<1>9. PICK o \in open : dep + R!Estimate(o) <= place.time + est(Asked.to)
  BY <1>8
<1>10. R!Estimate(label) = label.cost + est(Asked.to) /\ R!Estimate(label) <= R!Estimate(o)
  BY <1>2, <1>3 DEF Asking
<1>11. est(Asked.to) \in Nat
  BY <1>1, <1>2 DEF Asking
<1> QED  BY <1>1, <1>3, <1>8, <1>9, <1>10, <1>11

(* "No route" after the heap has run empty: every node that can be reached *)
(* has a cost and is settled, and the target never is.                     *)
LEMMA TargetIsOutOfReach ==
    ASSUME RouteInv, phase = "searching", edges = {}, open = {}, R!Fair,
           NEW place \in Arrivals(Ways, Asked, Horizon)
    PROVE  place.node # Asked.to
<1>1. Last = Horizon /\ NoOvertaking(Ways, Asked, Last) /\ LoopInv /\ query = "route"
  BY RouteScenario, RouteNames DEF RouteInv, R!TypeOK
<1>2. place.node \in DOMAIN best
  BY <1>1, ReachedAreServed
<1>3. \A n \in DOMAIN best : ~ Target(n)
  BY <1>1 DEF LoopInv, InHeap
<1> QED  BY <1>1, <1>2, <1>3 DEF Target

(* "No route" because an end is not in the network.                        *)
LEMMA UnknownEndIsOutOfReach ==
    ASSUME scenario \in RouteScenarios, query = "route", Asked.from # Asked.to,
           ~ {Asked.from, Asked.to} \subseteq Ways.nodes,
           NEW place \in Arrivals(Ways, Asked, Horizon)
    PROVE  place.node # Asked.to
<1> DEFINE P == {p \in Places(Ways, Asked) :
                    p.node = Asked.from \/ {Asked.from, p.node} \subseteq Ways.nodes}
<1>1. /\ WellFormed(Ways) /\ Horizon \in Nat /\ Asked.departure \in 0 .. Horizon
      /\ \A e \in Ways.edges : e.from \in Ways.nodes /\ e.to \in Ways.nodes
  BY RouteScenario
<1>2. Origin(Asked) \in P
  BY <1>1 DEF Origin, Places
<1>3. ASSUME NEW p \in P, NEW e \in Ways.edges, GoesOn(Ways, Asked, Horizon, p, e)
      PROVE  Beyond(Ways, p, e) \in P
  <2>1. /\ p.time + Seconds(Ways, e, p.time) \in Nat /\ e.from = p.node
    BY <1>1, <1>3, SecondsType DEF Places, GoesOn, Outgoing
  <2> QED  BY <1>1, <2>1 DEF Beyond, Places
<1> HIDE DEF P
<1>4. place \in P
  BY <1>1, <1>2, <1>3, ArrivalsLeast
<1> QED  BY <1>4 DEF P

LEMMA RouteInit == R!Init /\ query = "route" => RouteInv
<1> SUFFICES ASSUME R!Init, query = "route" PROVE RouteInv
  OBVIOUS
<1>1. /\ scenario \in RouteScenarios /\ phase = "called" /\ open = {} /\ best = <<>>
      /\ edges = {} /\ current = R!Label(Asked.from, 0, <<>>)
  BY RouteNames DEF R!Init
<1>2. Real(current) /\ LabelsInv
  BY <1>1, RealFromStart DEF LabelsInv, R!Labels
<1>3. R!TypeOK
  <2>1. DOMAIN best = {} /\ best \in [DOMAIN best -> Nat]
    BY <1>1
  <2>2. \A l \in R!Labels : l.cost \in Nat /\ l.path \in Seq(R!network.edges)
    BY <1>2, RouteNames DEF LabelsInv, Real
  <2> QED  BY <1>1, <2>1, <2>2 DEF R!TypeOK
<1>4. R!RouteIsRight
  BY <1>1 DEF R!RouteIsRight
<1> QED  BY <1>1, <1>2, <1>3, <1>4 DEF RouteInv

(* In a step that ends nothing there is nothing to be right about.         *)
LEMMA StillSearching == phase \notin {"found", "no route"} => R!RouteIsRight
  BY DEF R!RouteIsRight

LEMMA SameRoute ==
    ASSUME UNCHANGED <<query, scenario>>
    PROVE  /\ Ways' = Ways /\ Asked' = Asked
           /\ R!network' = R!network /\ R!request' = R!request
           /\ \A l : Real(l)' = Real(l)
           /\ R!Reached' = R!Reached /\ R!Fair' = R!Fair
           /\ R!HeuristicIsSafe' = R!HeuristicIsSafe
           /\ \A l : R!Arrival(l)' = R!Arrival(l)
           /\ Asking' = Asking
<1>1. /\ Ways' = Ways /\ Asked' = Asked
      /\ R!network' = R!network /\ R!request' = R!request
  BY DEF Ways, Asked, R!network, R!request
<1>2. R!HeuristicIsSafe' = R!HeuristicIsSafe
  BY <1>1, Zenon DEF R!HeuristicIsSafe
<1> QED  BY <1>1, <1>2, Zenon DEF Real, R!Reached, R!Fair, R!Arrival, Asking

LEMMA RefuseKeeps ==
    ASSUME RouteInv, R!RefuseRequest \/ R!RefuseEndpoints, UNCHANGED query
    PROVE  RouteInv'
<1>1. /\ UNCHANGED <<query, scenario, open, best, current, edges>> /\ phase = "called"
      /\ phase' \in {"invalid", "no route"}
      /\ phase' = "no route" =>
            /\ Asked.from # Asked.to
            /\ ~ {Asked.from, Asked.to} \subseteq Ways.nodes
  BY RouteNames DEF R!RefuseRequest, R!RefuseEndpoints, R!ValidRequest, R!Endpoints
<1>2. R!TypeOK' /\ LabelsInv'
  BY <1>1, SameRoute DEF RouteInv, R!TypeOK, LabelsInv, R!Labels
<1>3. R!RouteIsRight'
  <2>1. phase' = "no route" => \A place \in R!Reached : place.node # R!request.to
    BY <1>1, UnknownEndIsOutOfReach, RouteNames DEF RouteInv, R!TypeOK
  <2>2. phase' = "no route" => \A place \in R!Reached' : place.node # R!request'.to
    BY <1>1, <2>1, SameRoute
  <2>3. phase' # "found"
    BY <1>1
  <2> QED  BY <2>2, <2>3 DEF R!RouteIsRight
<1> QED  BY <1>1, <1>2, <1>3 DEF RouteInv

LEMMA RouteStartKeeps ==
    ASSUME RouteInv, R!Start, UNCHANGED query
    PROVE  RouteInv'
<1> DEFINE first == R!Label(Asked.from, 0, <<>>)
<1>1. /\ UNCHANGED <<query, scenario, current, edges>>
      /\ phase = "called" /\ phase' = "searching" /\ edges = {}
      /\ Asking /\ open' = {first} /\ best' = [n \in {Asked.from} |-> 0]
      /\ scenario \in RouteScenarios
  BY RouteNames DEF R!Start, R!ValidRequest, R!Endpoints, Asking, RouteInv, R!TypeOK
<1>2. first.node = Asked.from /\ first.cost = 0
  BY DEF R!Label
<1>3. Real(first) /\ Real(current)
  BY <1>1, RealFromStart DEF RouteInv, LabelsInv, R!Labels
<1> HIDE DEF first
<1>4. LoopInv'
  <2>1. WellFormed(Ways) /\ Last \in Nat /\ Asked.departure \in 0 .. Last
    BY <1>1, RouteScenario DEF RouteInv
  <2>2. current.cost \in Nat
    BY <1>3 DEF Real
  <2> QED  BY <1>1, <1>2, <2>1, <2>2, LoopStarts
<1>5. LabelsInv'
  BY <1>1, <1>3, SameRoute DEF LabelsInv, R!Labels
<1>6. R!TypeOK'
  <2>1. \A l \in R!Labels' : l.cost \in Nat /\ l.path \in Seq(R!network'.edges)
    BY <1>1, <1>5, SameRoute, RouteNames DEF LabelsInv, Real
  <2>2. DOMAIN best' \subseteq R!network'.nodes
    BY <1>1, SameRoute, RouteNames DEF Asking
  <2>3. \A l \in open' : l.node \in DOMAIN best' /\ best'[l.node] <= l.cost
    BY <1>1, <1>2
  <2>4. best' \in [DOMAIN best' -> Nat]
    BY <1>1
  <2> QED  BY <1>1, <2>1, <2>2, <2>3, <2>4 DEF R!TypeOK
<1> QED  BY <1>1, <1>4, <1>5, <1>6, SameRoute, StillSearching DEF RouteInv, R!RouteIsRight

LEMMA RouteStaleKeeps ==
    ASSUME RouteInv, UNCHANGED query, NEW label \in open, R!SkipStale(label)
    PROVE  RouteInv'
<1>1. /\ UNCHANGED <<query, scenario, best, current, edges>> /\ phase = "searching"
      /\ phase' = "searching" /\ label.cost > best[label.node] /\ open' = open \ {label}
  BY DEF R!SkipStale, R!Popped, R!Stale, R!Pop
<1>2. LoopInv' /\ Asking'
  BY <1>1, StaleKeeps, SameRoute DEF RouteInv
<1>3. R!TypeOK' /\ LabelsInv'
  BY <1>1, SameRoute DEF RouteInv, R!TypeOK, LabelsInv, R!Labels
<1> QED  BY <1>1, <1>2, <1>3 DEF RouteInv, R!RouteIsRight

LEMMA RouteExpandKeeps ==
    ASSUME RouteInv, UNCHANGED query, NEW label \in open, R!Expand(label)
    PROVE  RouteInv'
<1>1. /\ UNCHANGED <<query, scenario, best>> /\ phase = "searching" /\ edges = {}
      /\ phase' = "searching" /\ ~ (label.cost > best[label.node]) /\ open' = open \ {label}
      /\ label.node # Asked.to /\ current' = label /\ edges' = Outgoing(Ways, label.node)
  BY RouteNames, RouteNetwork DEF R!Expand, R!Popped, R!Stale, R!Pop
<1>2. LoopInv' /\ Asking'
  <2>1. label.cost <= best[label.node]
    BY <1>1 DEF RouteInv, LoopInv, LoopTypeOK
  <2>2. ~ Target(label.node)
    BY <1>1 DEF Target
  <2> QED  BY <1>1, <2>1, <2>2, ExpandKeeps, SameRoute DEF RouteInv
<1>3. R!TypeOK' /\ LabelsInv'
  <2>1. LabelsInv'
    BY <1>1, SameRoute DEF RouteInv, LabelsInv, R!Labels
  <2>2. edges' \subseteq R!Outgoing(R!network', current'.node)
    BY <1>1, SameRoute, RouteNames, RouteNetwork
  <2> QED  BY <1>1, <2>1, <2>2, SameRoute DEF RouteInv, R!TypeOK, R!Labels
<1> QED  BY <1>1, <1>2, <1>3 DEF RouteInv, R!RouteIsRight

LEMMA ReachTargetKeeps ==
    ASSUME RouteInv, UNCHANGED query, NEW label \in open, R!ReachTarget(label)
    PROVE  RouteInv'
<1>1. /\ UNCHANGED <<query, scenario, best, edges>> /\ phase = "searching" /\ edges = {}
      /\ phase' = "found" /\ open' = open \ {label} /\ current' = label
      /\ label.node = Asked.to
      /\ \A other \in open : R!Estimate(label) <= R!Estimate(other)
  BY RouteNames DEF R!ReachTarget, R!Popped, R!Pop
<1>2. R!TypeOK' /\ LabelsInv'
  <2>1. LabelsInv'
    BY <1>1, SameRoute DEF RouteInv, LabelsInv, R!Labels
  <2> QED  BY <1>1, <2>1, SameRoute DEF RouteInv, R!TypeOK, R!Labels
<1>3. R!RouteIsRight'
  <2> SUFFICES ASSUME R!Fair, R!HeuristicIsSafe, NEW place \in R!Reached,
                      place.node = Asked.to
               PROVE  Asked.departure + label.cost <= place.time
    BY <1>1, SameRoute, RouteNames DEF R!RouteIsRight
  <2> QED  BY <1>1, TargetIsEarliest, RouteNames
<1> QED  BY <1>1, <1>2, <1>3 DEF RouteInv

LEMMA ExhaustedKeeps ==
    ASSUME RouteInv, UNCHANGED query, R!Exhausted
    PROVE  RouteInv'
<1>1. /\ UNCHANGED <<query, scenario, open, best, current, edges>> /\ phase = "searching"
      /\ edges = {} /\ open = {} /\ phase' = "no route"
  BY DEF R!Exhausted
<1>2. R!TypeOK' /\ LabelsInv'
  BY <1>1, SameRoute DEF RouteInv, R!TypeOK, LabelsInv, R!Labels
<1>3. R!RouteIsRight'
  <2>1. R!Fair => \A place \in R!Reached : place.node # R!request.to
    BY <1>1, TargetIsOutOfReach, RouteNames
  <2> QED  BY <1>1, <2>1, SameRoute DEF R!RouteIsRight
<1> QED  BY <1>1, <1>2, <1>3 DEF RouteInv

(* What the loop over the edges looks at, in the terms of the loop.        *)
LEMMA CandidateIs ==
    ASSUME NEW edge
    PROVE  /\ R!Candidate(edge).node = edge.to
           /\ R!Candidate(edge).cost = CostBeyond(current.cost, edge)
           /\ Goes(current.node, current.cost, edge) => R!Enterable(edge)
<1>1. /\ R!Candidate(edge).node = edge.to
      /\ R!Candidate(edge).cost = CostBeyond(current.cost, edge)
  BY RouteNames, RouteNetwork DEF R!Candidate, R!Label, CostBeyond, R!Entry
<1>2. Goes(current.node, current.cost, edge) => R!Enterable(edge)
  BY RouteNames, RouteNetwork DEF R!Enterable, R!Entry, Goes, GoesOn, PlaceAt
<1> QED  BY <1>1, <1>2

LEMMA RouteSkipKeeps ==
    ASSUME RouteInv, UNCHANGED query, NEW edge \in edges, R!SkipEdge(edge)
    PROVE  RouteInv'
<1>1. /\ UNCHANGED <<query, scenario, open, best, current>> /\ phase = "searching"
      /\ phase' = "searching" /\ edges' = edges \ {edge}
      /\ ~ (R!Enterable(edge) /\ R!Improves(R!Candidate(edge)))
  BY DEF R!SkipEdge
<1>2. LoopInv' /\ Asking'
  <2>1. Goes(current.node, current.cost, edge) => Served(current.cost, edge)
    <3> SUFFICES ASSUME Goes(current.node, current.cost, edge)
                 PROVE  Served(current.cost, edge)
      OBVIOUS
    <3>1. /\ edge.to \in DOMAIN best
          /\ ~ (CostBeyond(current.cost, edge) < best[edge.to])
      BY <1>1, CandidateIs DEF R!Improves
    <3>2. CostBeyond(current.cost, edge) \in Nat /\ best[edge.to] \in Nat
      <4>1. edge \in Ways.edges /\ WellFormed(Ways)
        BY <1>1 DEF RouteInv, LoopInv, LoopTypeOK, Outgoing
      <4>2. Seconds(Ways, edge, Asked.departure + current.cost) \in Nat
        BY <4>1, SecondsType
      <4> QED  BY <1>1, <3>1, <4>2 DEF CostBeyond, RouteInv, LoopInv, LoopTypeOK
    <3> QED  BY <3>1, <3>2 DEF Served
  <2> QED  BY <1>1, <2>1, SkipKeeps, SameRoute DEF RouteInv
<1>3. R!TypeOK' /\ LabelsInv'
  BY <1>1, SameRoute DEF RouteInv, R!TypeOK, LabelsInv, R!Labels
<1> QED  BY <1>1, <1>2, <1>3 DEF RouteInv, R!RouteIsRight

LEMMA RouteRelaxKeeps ==
    ASSUME RouteInv, UNCHANGED query, NEW edge \in edges, R!Relax(edge)
    PROVE  RouteInv'
<1> DEFINE label == R!Candidate(edge)
<1>1. /\ UNCHANGED <<query, scenario, current>> /\ phase = "searching"
      /\ phase' = "searching" /\ edges' = edges \ {edge}
      /\ R!Enterable(edge) /\ open' = open \union {label}
      /\ label.node \in DOMAIN best => label.cost < best[label.node]
      /\ best' = [n \in DOMAIN best \union {label.node} |->
                     IF n = label.node THEN label.cost ELSE best[n]]
  BY DEF R!Relax, R!Improves
<1>2. LoopInv' /\ Asking'
  BY <1>1, CandidateIs, RelaxKeeps, SameRoute DEF RouteInv
<1>3. edge \in Outgoing(Ways, current.node) /\ edge \in Ways.edges /\ edge.to \in Ways.nodes
  BY <1>1, RouteScenario DEF RouteInv, LoopInv, LoopTypeOK, Outgoing, R!TypeOK
<1>4. LabelsInv'
  <2>1. Real(label)
    BY <1>1, <1>3, RealGoesOn DEF RouteInv, LabelsInv, R!TypeOK, R!Labels
  <2> HIDE DEF label
  <2> QED  BY <1>1, <2>1, SameRoute DEF RouteInv, LabelsInv, R!Labels
<1>5. R!TypeOK'
  <2>1. \A l \in R!Labels' : l.cost \in Nat /\ l.path \in Seq(R!network'.edges)
    BY <1>4, <1>1, SameRoute, RouteNames DEF LabelsInv, Real
  <2>2. label.node = edge.to
    BY CandidateIs
  <2> HIDE DEF label
  <2>3. DOMAIN best' \subseteq R!network'.nodes
    BY <1>1, <1>3, <2>2, SameRoute, RouteNames DEF RouteInv, R!TypeOK
  <2>4. edges' \subseteq R!Outgoing(R!network', current'.node)
    BY <1>1, SameRoute DEF RouteInv, R!TypeOK
  <2>5. scenario' \in RouteScenarios
    BY <1>1 DEF RouteInv, R!TypeOK
  <2> QED  BY <1>1, <1>2, <2>1, <2>3, <2>4, <2>5 DEF R!TypeOK, LoopInv, LoopTypeOK
<1> QED  BY <1>1, <1>2, <1>4, <1>5 DEF RouteInv, R!RouteIsRight

LEMMA RouteStep == RouteInv /\ [R!Next]_R!vars /\ UNCHANGED query => RouteInv'
<1> SUFFICES ASSUME RouteInv, [R!Next]_R!vars, UNCHANGED query PROVE RouteInv'
  OBVIOUS
<1>1. CASE R!RefuseRequest \/ R!RefuseEndpoints
  BY <1>1, RefuseKeeps
<1>2. CASE R!Start
  BY <1>2, RouteStartKeeps
<1>3. CASE \E label \in open : R!SkipStale(label) \/ R!ReachTarget(label) \/ R!Expand(label)
  BY <1>3, RouteStaleKeeps, ReachTargetKeeps, RouteExpandKeeps
<1>4. CASE \E edge \in edges : R!SkipEdge(edge) \/ R!Relax(edge)
  BY <1>4, RouteSkipKeeps, RouteRelaxKeeps
<1>5. CASE R!Exhausted
  BY <1>5, ExhaustedKeeps
<1>6. CASE UNCHANGED R!vars
  <2>1. UNCHANGED <<query, scenario, phase, open, best, current, edges>>
    BY <1>6 DEF R!vars
  <2>2. R!TypeOK' /\ LabelsInv'
    BY <2>1, SameRoute DEF RouteInv, R!TypeOK, LabelsInv, R!Labels
  <2>3. R!RouteIsRight'
    BY <2>1, SameRoute DEF RouteInv, R!RouteIsRight
  <2>4. LoopInv => LoopInv'
    BY <2>1, LoopStutters
  <2> QED  BY <2>1, <2>2, <2>3, <2>4, SameRoute DEF RouteInv
<1> QED  BY <1>1, <1>2, <1>3, <1>4, <1>5, <1>6 DEF R!Next

(* Labels of the invariant are labels as the module describes them.        *)
LEMMA LabelsInvMeans == query = "route" /\ R!TypeOK /\ LabelsInv => R!LabelsAreReal
<1> SUFFICES ASSUME query = "route", R!TypeOK, LabelsInv, NEW l \in R!Labels
             PROVE  /\ R!Drivable(R!network, R!request, l.path)
                    /\ R!TimesAlong(R!network, R!request, l.path)[Len(l.path)] = R!Arrival(l)
                    /\ l.path # <<>> => l.path[Len(l.path)].to = l.node
  BY DEF R!LabelsAreReal
<1>1. Real(l)
  BY DEF LabelsInv
<1> QED  BY <1>1, RouteNames, RouteNetwork DEF Real, EndOf

(* The route search always tells the truth: for every network, request,    *)
(* heuristic and order of the heap and the edges.                          *)
THEOREM RouteSearchInvariant == Spec => [](query = "route" => RouteInv)
<1> DEFINE Inv == query = "route" => RouteInv
<1>1. Init => Inv
  <2> SUFFICES ASSUME Init, query = "route" PROVE RouteInv
    OBVIOUS
  <2>1. R!Init
    BY DEF Init
  <2> QED  BY <2>1, RouteInit
<1>2. Inv /\ [Next]_vars => Inv'
  <2> SUFFICES ASSUME Inv, [Next]_vars, query' = "route" PROVE RouteInv'
    OBVIOUS
  <2>1. query' = query /\ [R!Next]_R!vars
    BY QueryStep
  <2> QED  BY <2>1, RouteStep
<1> QED  BY <1>1, <1>2, PTL DEF Spec

(* Every label of a search is the time of a path one can drive, whatever   *)
(* the network and the order in which the heap hands out equal labels.     *)
THEOREM LabelsAreAlwaysReal == Spec => []LabelsAreReal
<1>1. (query = "route" => RouteInv) => LabelsAreReal
  BY LabelsInvMeans DEF LabelsAreReal, RouteInv
<1> QED  BY <1>1, RouteSearchInvariant, PTL

(* Where nobody overtakes, Route finds a fastest route if the heuristic is *)
(* safe, and says "no route" only if there is none, however wrong the      *)
(* heuristic.                                                              *)
THEOREM RouteIsAlwaysRight == Spec => []RouteIsRight
<1>1. (query = "route" => RouteInv) => RouteIsRight
  BY DEF RouteIsRight, RouteInv
<1> QED  BY <1>1, RouteSearchInvariant, PTL

-------------------------------------------------------------------------------
(* Isochrones                                                              *)

(* One can be at a node after so much time, within the budget.             *)
Reachable(n, cost) == PlaceAt(n, cost) \in Arrivals(Ways, Asked, Last)

(* All that is known of a node is true, and the heap keeps to the budget.  *)
ReachableInv ==
    /\ \A n \in DOMAIN best : Reachable(n, best[n])
    /\ \A l \in open : l.cost <= scenario.budget /\ Reachable(l.node, l.cost)
    /\ Reachable(current.node, current.cost)

IsochroneInv ==
    /\ query = "isochrone" /\ I!TypeOK /\ I!IsochroneIsRight
    /\ phase = "called" =>
          open = {} /\ edges = {} /\ current.node = Asked.from /\ current.cost = 0
    /\ phase = "searching" => LoopInv /\ ReachableInv

LEMMA IsochroneScenario ==
    ASSUME scenario \in IsochroneScenarios, query = "isochrone"
    PROVE  /\ WellFormed(Ways) /\ Asked.departure \in Nat /\ scenario.budget \in Int
           /\ Last = Asked.departure + scenario.budget
           /\ \A e \in Ways.edges, t \in Asked.departure .. Last : Seconds(Ways, e, t) # 0
<1>1. /\ WellFormed(Ways) /\ Asked.departure \in Nat /\ scenario.budget \in Int
      /\ Last = Asked.departure + scenario.budget
  BY IsochroneAssumption, IsochroneNetwork DEF I!ScenarioAssumption, Ways, Asked, Last
<1>2. \A e \in Ways.edges, t \in Asked.departure .. Last : Seconds(Ways, e, t) # 0
  BY <1>1, IsochroneAssumption, IsochroneNetwork
     DEF I!ScenarioAssumption, I!CostAssumption, Ways, Asked
<1> QED  BY <1>1, <1>2

LEMMA IsochroneNames ==
    ASSUME query = "isochrone"
    PROVE  /\ I!network = Ways /\ I!request = Asked /\ I!budget = scenario.budget
           /\ \A l : I!Arrival(l) = Asked.departure + l.cost
           /\ I!Deadline = Last /\ I!Reached = Arrivals(Ways, Asked, Last)
           /\ I!NoOvertaking(I!network, I!request, I!Deadline) = NoOvertaking(Ways, Asked, Last)
  BY IsochroneNetwork DEF I!network, I!request, I!budget, I!Arrival, I!Deadline, I!Reached,
     Ways, Asked, Last

LEMMA SameIsochrone ==
    ASSUME UNCHANGED <<query, scenario>>
    PROVE  /\ I!network' = I!network /\ I!request' = I!request /\ I!budget' = I!budget
           /\ \A n, c : Reachable(n, c)' = Reachable(n, c)
  BY SameAsked DEF I!network, I!request, I!budget, Reachable, PlaceAt

(* From a place one can be at, an edge leads to another.                   *)
LEMMA ReachableGoesOn ==
    ASSUME LoopInv, scenario \in IsochroneScenarios, query = "isochrone",
           Reachable(current.node, current.cost), NEW edge \in edges,
           Goes(current.node, current.cost, edge)
    PROVE  Reachable(edge.to, CostBeyond(current.cost, edge))
<1> DEFINE p == PlaceAt(current.node, current.cost)
<1>1. /\ WellFormed(Ways) /\ Last \in Nat /\ Asked.departure \in 0 .. Last
      /\ current.cost \in Nat /\ edge \in Ways.edges
      /\ \A e \in Ways.edges, t \in Asked.departure .. Last : Seconds(Ways, e, t) # 0
  BY IsochroneScenario DEF LoopInv, LoopTypeOK, Outgoing
<1>2. p \in Arrivals(Ways, Asked, Last) /\ GoesOn(Ways, Asked, Last, p, edge)
  BY DEF Reachable, Goes
<1>3. Beyond(Ways, p, edge) \in Arrivals(Ways, Asked, Last)
  BY <1>1, <1>2, ArrivalsClosed
<1>4. Seconds(Ways, edge, Asked.departure + current.cost) \in Nat
  BY <1>1, SecondsType
<1>5. Beyond(Ways, p, edge) = PlaceAt(edge.to, CostBeyond(current.cost, edge))
  BY <1>1, <1>4 DEF Beyond, PlaceAt, CostBeyond
<1> QED  BY <1>3, <1>5 DEF Reachable

LEMMA IsochroneInit == I!Init /\ query = "isochrone" => IsochroneInv
<1> SUFFICES ASSUME I!Init, query = "isochrone" PROVE IsochroneInv
  OBVIOUS
<1>1. /\ scenario \in IsochroneScenarios /\ phase = "called" /\ open = {} /\ best = <<>>
      /\ edges = {} /\ current.node = Asked.from /\ current.cost = 0
  BY IsochroneNames DEF I!Init, I!Label
<1>2. I!TypeOK
  <2>1. DOMAIN best = {} /\ best \in [DOMAIN best -> Nat]
    BY <1>1
  <2> QED  BY <1>1, <2>1 DEF I!TypeOK, I!Labels
<1> QED  BY <1>1, <1>2 DEF IsochroneInv, I!IsochroneIsRight

LEMMA IsochroneStartKeeps ==
    ASSUME IsochroneInv, I!Start, UNCHANGED query
    PROVE  IsochroneInv'
<1> DEFINE first == I!Label(Asked.from, 0)
<1>1. /\ UNCHANGED <<query, scenario, current, edges>> /\ query = "isochrone"
      /\ phase = "called" /\ phase' = "searching" /\ edges = {} /\ scenario.budget > 0
      /\ open' = {first} /\ best' = [n \in {Asked.from} |-> 0]
      /\ scenario \in IsochroneScenarios /\ current.node = Asked.from /\ current.cost = 0
  BY IsochroneNames DEF I!Start, IsochroneInv, I!TypeOK
<1>2. first.node = Asked.from /\ first.cost = 0
  BY DEF I!Label
<1> HIDE DEF first
<1>3. WellFormed(Ways) /\ Last \in Nat /\ Asked.departure \in 0 .. Last
  BY <1>1, IsochroneScenario
<1>4. LoopInv'
  BY <1>1, <1>2, <1>3, LoopStarts
<1>5. Reachable(Asked.from, 0)
  <2>1. Origin(Asked) \in Arrivals(Ways, Asked, Last)
    BY <1>1, <1>3, IsochroneScenario, ArrivalsClosed
  <2>2. Origin(Asked) = PlaceAt(Asked.from, 0)
    BY <1>3 DEF Origin, PlaceAt
  <2> QED  BY <2>1, <2>2 DEF Reachable
<1>6. ReachableInv'
  <2>1. \A n \in DOMAIN best' : n = Asked.from /\ best'[n] = 0
    BY <1>1
  <2>2. \A l \in open' : l.node = Asked.from /\ l.cost = 0 /\ l.cost <= scenario'.budget
    BY <1>1, <1>2, IsochroneScenario
  <2> QED  BY <1>1, <1>5, <2>1, <2>2, SameIsochrone DEF ReachableInv
<1>7. I!TypeOK'
  <2>1. \A l \in open' : l.cost = 0 /\ l.node \in DOMAIN best' /\ best'[l.node] <= l.cost
    BY <1>1, <1>2
  <2>2. best' \in [DOMAIN best' -> Nat]
    BY <1>1
  <2> QED  BY <1>1, <2>1, <2>2 DEF I!TypeOK, I!Labels
<1> QED  BY <1>1, <1>4, <1>6, <1>7 DEF IsochroneInv, I!IsochroneIsRight

LEMMA IsochroneStaleKeeps ==
    ASSUME IsochroneInv, UNCHANGED query, NEW label \in open, I!SkipStale(label)
    PROVE  IsochroneInv'
<1>1. /\ UNCHANGED <<query, scenario, best, current, edges>> /\ phase = "searching"
      /\ phase' = "searching" /\ open' = open \ {label}
      /\ label.cost > scenario.budget \/ label.cost > best[label.node]
  BY IsochroneNames DEF I!SkipStale, I!Popped, I!Stale, IsochroneInv
<1>2. label.cost > best[label.node]
  BY <1>1, IsochroneScenario DEF IsochroneInv, ReachableInv, LoopInv, LoopTypeOK, I!TypeOK
<1>3. LoopInv' /\ ReachableInv'
  BY <1>1, <1>2, StaleKeeps, SameIsochrone DEF IsochroneInv, ReachableInv
<1>4. I!TypeOK'
  BY <1>1, SameIsochrone DEF IsochroneInv, I!TypeOK, I!Labels
<1> QED  BY <1>1, <1>3, <1>4 DEF IsochroneInv, I!IsochroneIsRight

LEMMA IsochroneExpandKeeps ==
    ASSUME IsochroneInv, UNCHANGED query, NEW label \in open, I!Expand(label)
    PROVE  IsochroneInv'
<1>1. /\ UNCHANGED <<query, scenario, best>> /\ phase = "searching" /\ edges = {}
      /\ phase' = "searching" /\ open' = open \ {label} /\ current' = label
      /\ edges' = Outgoing(Ways, label.node)
      /\ ~ (label.cost > best[label.node])
  BY IsochroneNames, IsochroneNetwork DEF I!Expand, I!Popped, I!Stale, IsochroneInv
<1>2. LoopInv' /\ ReachableInv'
  <2>1. label.cost <= best[label.node]
    BY <1>1 DEF IsochroneInv, LoopInv, LoopTypeOK
  <2>2. ~ Target(label.node)
    BY <1>1 DEF IsochroneInv, Target
  <2>3. LoopInv'
    BY <1>1, <2>1, <2>2, ExpandKeeps DEF IsochroneInv
  <2> QED  BY <1>1, <2>3, SameIsochrone DEF IsochroneInv, ReachableInv
<1>3. I!TypeOK'
  <2>1. edges' \subseteq I!Outgoing(I!network', current'.node)
    BY <1>1, SameIsochrone, IsochroneNames, IsochroneNetwork DEF IsochroneInv
  <2> QED  BY <1>1, <2>1, SameIsochrone DEF IsochroneInv, I!TypeOK, I!Labels
<1> QED  BY <1>1, <1>2, <1>3 DEF IsochroneInv, I!IsochroneIsRight

LEMMA ReturnKeeps ==
    ASSUME IsochroneInv, I!Return, UNCHANGED query
    PROVE  IsochroneInv'
<1>1. /\ UNCHANGED <<query, scenario, open, best, current, edges>> /\ phase = "searching"
      /\ edges = {} /\ open = {} /\ phase' = "returned"
  BY DEF I!Return
<1>2. I!TypeOK'
  BY <1>1, SameIsochrone DEF IsochroneInv, I!TypeOK, I!Labels
<1>3. I!IsochroneIsRight'
  <2>1. \A n \in DOMAIN best : PlaceAt(n, best[n]) \in I!Reached
    BY <1>1, IsochroneNames DEF IsochroneInv, ReachableInv, Reachable
  <2>2. I!NoOvertaking(I!network, I!request, I!Deadline) =>
           \A place \in I!Reached :
              place.node \in DOMAIN best /\ Asked.departure + best[place.node] <= place.time
    BY <1>1, ReachedAreServed, IsochroneNames DEF IsochroneInv
  <2>3. /\ I!Reached' = I!Reached /\ I!request' = I!request
        /\ I!NoOvertaking(I!network, I!request, I!Deadline)' =
              I!NoOvertaking(I!network, I!request, I!Deadline)
    BY <1>1, SameIsochrone, Zenon DEF I!Reached, I!Deadline
  <2> QED  BY <1>1, <2>1, <2>2, <2>3, IsochroneNames
     DEF IsochroneInv, I!IsochroneIsRight, PlaceAt
<1> QED  BY <1>1, <1>2, <1>3 DEF IsochroneInv

(* What the loop over the edges looks at, in the terms of the loop.        *)
LEMMA IsochroneCandidateIs ==
    ASSUME IsochroneInv, phase = "searching", NEW edge \in edges
    PROVE  /\ I!Candidate(edge).node = edge.to
           /\ I!Candidate(edge).cost = CostBeyond(current.cost, edge)
           /\ CostBeyond(current.cost, edge) \in Nat
           /\ Goes(current.node, current.cost, edge) <=>
                 I!Enterable(edge) /\ CostBeyond(current.cost, edge) <= scenario.budget
<1>1. /\ I!Candidate(edge).node = edge.to
      /\ I!Candidate(edge).cost = CostBeyond(current.cost, edge)
  BY IsochroneNames, IsochroneNetwork DEF I!Candidate, I!Label, CostBeyond, IsochroneInv
<1>2. /\ edge \in Ways.edges /\ edge \in Outgoing(Ways, current.node) /\ WellFormed(Ways)
      /\ current.cost \in Nat /\ Asked.departure \in Nat /\ scenario.budget \in Int
      /\ Last = Asked.departure + scenario.budget
  BY IsochroneScenario DEF IsochroneInv, I!TypeOK, LoopInv, LoopTypeOK, Outgoing
<1>3. Seconds(Ways, edge, Asked.departure + current.cost) \in Nat
  BY <1>2, SecondsType
<1>4. I!Enterable(edge) = Allowed(Ways, Asked, edge, Asked.departure + current.cost)
  BY IsochroneNames, IsochroneNetwork DEF I!Enterable, IsochroneInv
<1>5. Goes(current.node, current.cost, edge) <=>
         I!Enterable(edge) /\ CostBeyond(current.cost, edge) <= scenario.budget
  BY <1>2, <1>3, <1>4 DEF Goes, GoesOn, PlaceAt, CostBeyond
<1> QED  BY <1>1, <1>2, <1>3, <1>5 DEF CostBeyond

LEMMA IsochroneSkipKeeps ==
    ASSUME IsochroneInv, UNCHANGED query, NEW edge \in edges, I!SkipEdge(edge)
    PROVE  IsochroneInv'
<1>1. /\ UNCHANGED <<query, scenario, open, best, current>> /\ phase = "searching"
      /\ phase' = "searching" /\ edges' = edges \ {edge}
      /\ ~ (I!Enterable(edge) /\ I!Improves(I!Candidate(edge)))
  BY DEF I!SkipEdge
<1>2. LoopInv' /\ ReachableInv'
  <2>1. Goes(current.node, current.cost, edge) => Served(current.cost, edge)
    <3> SUFFICES ASSUME Goes(current.node, current.cost, edge)
                 PROVE  Served(current.cost, edge)
      OBVIOUS
    <3>1. /\ edge.to \in DOMAIN best
          /\ ~ (CostBeyond(current.cost, edge) < best[edge.to])
      BY <1>1, IsochroneCandidateIs, IsochroneNames DEF I!Improves, IsochroneInv
    <3>2. CostBeyond(current.cost, edge) \in Nat /\ best[edge.to] \in Nat
      BY <1>1, <3>1, IsochroneCandidateIs DEF IsochroneInv, LoopInv, LoopTypeOK
    <3> QED  BY <3>1, <3>2 DEF Served
  <2>2. LoopInv'
    BY <1>1, <2>1, SkipKeeps DEF IsochroneInv
  <2> QED  BY <1>1, <2>2, SameIsochrone DEF IsochroneInv, ReachableInv
<1>3. I!TypeOK'
  BY <1>1, SameIsochrone DEF IsochroneInv, I!TypeOK, I!Labels
<1> QED  BY <1>1, <1>2, <1>3 DEF IsochroneInv, I!IsochroneIsRight

LEMMA IsochroneRelaxKeeps ==
    ASSUME IsochroneInv, UNCHANGED query, NEW edge \in edges, I!Relax(edge)
    PROVE  IsochroneInv'
<1> DEFINE label == I!Candidate(edge)
<1>1. /\ UNCHANGED <<query, scenario, current>> /\ phase = "searching"
      /\ phase' = "searching" /\ edges' = edges \ {edge}
      /\ I!Enterable(edge) /\ open' = open \union {label}
      /\ label.cost <= scenario.budget
      /\ label.node \in DOMAIN best => label.cost < best[label.node]
      /\ best' = [n \in DOMAIN best \union {label.node} |->
                     IF n = label.node THEN label.cost ELSE best[n]]
  BY IsochroneNames DEF I!Relax, I!Improves, IsochroneInv
<1>2. /\ label.node = edge.to /\ label.cost = CostBeyond(current.cost, edge)
      /\ label.cost \in Nat /\ Goes(current.node, current.cost, edge)
  BY <1>1, IsochroneCandidateIs
<1> HIDE DEF label
<1>3. LoopInv'
  BY <1>1, <1>2, RelaxKeeps DEF IsochroneInv
<1>4. Reachable(label.node, label.cost)
  BY <1>1, <1>2, ReachableGoesOn DEF IsochroneInv, ReachableInv, I!TypeOK
<1>5. ReachableInv'
  <2>1. \A n \in DOMAIN best' : Reachable(n, best'[n])
    BY <1>1, <1>4 DEF IsochroneInv, ReachableInv
  <2>2. \A l \in open' : l.cost <= scenario.budget /\ Reachable(l.node, l.cost)
    BY <1>1, <1>4 DEF IsochroneInv, ReachableInv
  <2> QED  BY <1>1, <2>1, <2>2, SameIsochrone DEF IsochroneInv, ReachableInv
<1>6. I!TypeOK'
  <2>1. \A l \in I!Labels' : l.cost \in Nat
    BY <1>1, <1>2 DEF I!Labels, IsochroneInv, I!TypeOK
  <2>2. edges' \subseteq I!Outgoing(I!network', current'.node)
    BY <1>1, SameIsochrone DEF IsochroneInv, I!TypeOK
  <2>3. scenario' \in IsochroneScenarios
    BY <1>1 DEF IsochroneInv, I!TypeOK
  <2> QED  BY <1>1, <1>3, <2>1, <2>2, <2>3 DEF I!TypeOK, LoopInv, LoopTypeOK
<1> QED  BY <1>1, <1>3, <1>5, <1>6 DEF IsochroneInv, I!IsochroneIsRight

LEMMA IsochroneStep == IsochroneInv /\ [I!Next]_I!vars /\ UNCHANGED query => IsochroneInv'
<1> SUFFICES ASSUME IsochroneInv, [I!Next]_I!vars, UNCHANGED query PROVE IsochroneInv'
  OBVIOUS
<1>1. CASE I!Refuse
  <2>1. /\ UNCHANGED <<query, scenario, open, best, current, edges>> /\ phase' = "invalid"
    BY <1>1 DEF I!Refuse
  <2>2. I!TypeOK'
    BY <2>1, SameIsochrone DEF IsochroneInv, I!TypeOK, I!Labels
  <2> QED  BY <2>1, <2>2 DEF IsochroneInv, I!IsochroneIsRight
<1>2. CASE I!Start
  BY <1>2, IsochroneStartKeeps
<1>3. CASE \E label \in open : I!SkipStale(label) \/ I!Expand(label)
  BY <1>3, IsochroneStaleKeeps, IsochroneExpandKeeps
<1>4. CASE \E edge \in edges : I!SkipEdge(edge) \/ I!Relax(edge)
  BY <1>4, IsochroneSkipKeeps, IsochroneRelaxKeeps
<1>5. CASE I!Return
  BY <1>5, ReturnKeeps
<1>6. CASE UNCHANGED I!vars
  <2>1. UNCHANGED <<query, scenario, phase, open, best, current, edges>>
    BY <1>6 DEF I!vars
  <2>2. I!TypeOK'
    BY <2>1, SameIsochrone DEF IsochroneInv, I!TypeOK, I!Labels
  <2>3. I!IsochroneIsRight'
    <3>1. /\ I!Reached' = I!Reached /\ I!request' = I!request
          /\ I!NoOvertaking(I!network, I!request, I!Deadline)' =
                I!NoOvertaking(I!network, I!request, I!Deadline)
      BY <2>1, SameIsochrone, Zenon DEF I!Reached, I!Deadline
    <3> QED  BY <2>1, <3>1 DEF IsochroneInv, I!IsochroneIsRight
  <2>4. LoopInv => LoopInv'
    BY <2>1, LoopStutters
  <2>5. ReachableInv => ReachableInv'
    BY <2>1, SameIsochrone DEF ReachableInv
  <2> QED  BY <2>1, <2>2, <2>3, <2>4, <2>5, SameAsked DEF IsochroneInv
<1> QED  BY <1>1, <1>2, <1>3, <1>4, <1>5, <1>6 DEF I!Next

(* What Reachable returns is true, and complete where nobody overtakes:    *)
(* for every network, request, budget and order of the heap and the edges. *)
THEOREM IsochroneIsAlwaysRight == Spec => []IsochroneIsRight
<1> DEFINE Inv == query = "isochrone" => IsochroneInv
<1>1. Init => Inv
  <2> SUFFICES ASSUME Init, query = "isochrone" PROVE IsochroneInv
    OBVIOUS
  <2>1. I!Init
    BY DEF Init
  <2> QED  BY <2>1, IsochroneInit
<1>2. Inv /\ [Next]_vars => Inv'
  <2> SUFFICES ASSUME Inv, [Next]_vars, query' = "isochrone" PROVE IsochroneInv'
    OBVIOUS
  <2>1. query' = query /\ [I!Next]_I!vars
    BY QueryStep
  <2> QED  BY <2>1, IsochroneStep
<1>3. Inv => IsochroneIsRight
  BY DEF IsochroneIsRight, IsochroneInv
<1> QED  BY <1>1, <1>2, <1>3, PTL DEF Spec

-------------------------------------------------------------------------------
(* Alternative routes                                                      *)

(* The instance of RoadNetwork that AlternativeRoutes extends, too.        *)
-------------------------------------------------------------------------------
(* Alternative routes                                                      *)

LEMMA AlternativesNetwork ==
    /\ \A n : A!WellFormed(n) = WellFormed(n)
    /\ \A n, o : A!Outgoing(n, o) = Outgoing(n, o)
    /\ \A n, r, p : A!TimesAlong(n, r, p) = TimesAlong(n, r, p)
    /\ \A n, r, p : A!Drivable(n, r, p) = Drivable(n, r, p)
    /\ \A S : A!Cardinality(S) = Cardinality(S)
<1>1. \A n : A!WellFormed(n) = WellFormed(n)
  BY Zenon DEF A!WellFormed, WellFormed, A!IsFiniteSet, IsFiniteSet
<1>2. \A n, o : A!Outgoing(n, o) = Outgoing(n, o)
  BY Zenon DEF A!Outgoing, Outgoing
<1>3. \A n, r, e, t : A!Allowed(n, r, e, t) = Allowed(n, r, e, t)
  BY Zenon DEF A!Allowed, Allowed, A!Usable, Usable, A!Supports, Supports,
     A!Affecting, Affecting, A!Contains, Contains, A!Always, Always
<1>4. \A n, r, p : A!TimesAlong(n, r, p) = TimesAlong(n, r, p)
  BY Zenon DEF A!TimesAlong, TimesAlong, A!Seconds, Seconds, A!FoldSet, FoldSet,
     A!MapThenFoldSet, MapThenFoldSet, A!Slowed, Slowed, A!Affecting, Affecting,
     A!Contains, Contains, A!Always, Always
<1>5. \A n, r, p : A!Drivable(n, r, p) = Drivable(n, r, p)
  BY <1>3, <1>4 DEF A!Drivable, Drivable
<1>6. \A S : A!Cardinality(S) = Cardinality(S)
  BY Zenon DEF A!Cardinality, Cardinality
<1> QED  BY <1>1, <1>2, <1>4, <1>5, <1>6

(* A path of n edges from the origin that visits no node twice.            *)
Simple(net, req, p, n) ==
    /\ p \in [1 .. n -> net.edges]
    /\ \A i \in 1 .. n :
          /\ p[i].from = IF i = 1 THEN req.from ELSE p[i - 1].to
          /\ p[i].to # req.from
          /\ \A j \in 1 .. (i - 1) : p[j].to # p[i].to

IsPath(net, req, p) ==
    \E n \in 1 .. Cardinality(net.nodes) :
        Simple(net, req, p, n) /\ p[n].to = req.to /\ Drivable(net, req, p)

LEMMA ExtendedPath ==
    ASSUME NEW S, NEW p \in Seq(S), NEW e \in S
    PROVE  /\ Append(p, e) \in [1 .. (Len(p) + 1) -> S] /\ Append(p, e)[Len(p) + 1] = e
           /\ \A i \in 1 .. Len(p) : Append(p, e)[i] = p[i]
<1>1. Append(p, e) \in Seq(S) /\ Len(Append(p, e)) = Len(p) + 1
  OBVIOUS
<1>2. Append(p, e)[Len(p) + 1] = e /\ \A i \in 1 .. Len(p) : Append(p, e)[i] = p[i]
  OBVIOUS
<1> DEFINE q == Append(p, e)
<1> HIDE DEF q
<1>3. q \in Seq(S)
  BY <1>1 DEF q
<1>4. q \in [1 .. Len(q) -> S]
  BY <1>3
<1> QED  BY <1>1, <1>2, <1>4 DEF q

LEMMA SimpleAppend ==
    ASSUME NEW net, NEW req, NEW n \in Nat, NEW p, NEW e
    PROVE  (Simple(net, req, p, n)
              /\ e \in net.edges /\ e.from = (IF n = 0 THEN req.from ELSE p[n].to)
              /\ e.to # req.from /\ \A i \in 1 .. n : p[i].to # e.to)
           => Simple(net, req, Append(p, e), n + 1)
<1> DEFINE q == Append(p, e)
<1> SUFFICES ASSUME Simple(net, req, p, n),
                    e \in net.edges, e.from = (IF n = 0 THEN req.from ELSE p[n].to),
                    e.to # req.from, \A i \in 1 .. n : p[i].to # e.to
             PROVE  Simple(net, req, q, n + 1)
  OBVIOUS
<1>1. p \in [1 .. n -> net.edges] /\ p \in Seq(net.edges) /\ Len(p) = n
  BY DEF Simple
<1>2. q \in [1 .. (n + 1) -> net.edges] /\ q[n + 1] = e /\ \A i \in 1 .. n : q[i] = p[i]
  BY <1>1, ExtendedPath
<1> HIDE DEF q
<1>3. ASSUME NEW i \in 1 .. (n + 1)
      PROVE  /\ q[i].from = IF i = 1 THEN req.from ELSE q[i - 1].to
             /\ q[i].to # req.from
             /\ \A j \in 1 .. (i - 1) : q[j].to # q[i].to
  <2>1. CASE i \in 1 .. n
    <3>1. \A j \in 1 .. (i - 1) : j \in 1 .. n
      BY <2>1
    <3>2. i # 1 => i - 1 \in 1 .. n
      BY <2>1
    <3> QED  BY <1>2, <2>1, <3>1, <3>2 DEF Simple
  <2>2. CASE i = n + 1
    <3>1. i - 1 = n /\ (i = 1 <=> n = 0) /\ (n # 0 => n \in 1 .. n)
      BY <2>2
    <3> QED  BY <1>2, <2>2, <3>1
  <2> QED  BY <2>1, <2>2
<1> QED  BY <1>2, <1>3 DEF Simple

HasFront(net, req, q, n) ==
    \E p \in Seq(net.edges), e \in net.edges :
        /\ q = Append(p, e) /\ Len(p) = n /\ Simple(net, req, p, n)
        /\ e.from = (IF n = 0 THEN req.from ELSE p[n].to)
        /\ e.to # req.from /\ \A i \in 1 .. n : p[i].to # e.to

LEMMA SimpleFront ==
    ASSUME NEW net, NEW req, NEW n \in Nat, NEW q, Simple(net, req, q, n + 1)
    PROVE  HasFront(net, req, q, n)
<1> DEFINE p == [i \in 1 .. n |-> q[i]]
           e == q[n + 1]
<1>1. q \in [1 .. (n + 1) -> net.edges] /\ n + 1 \in 1 .. (n + 1)
  BY DEF Simple
<1>2. \A i \in 1 .. n : i \in 1 .. (n + 1) /\ q[i] \in net.edges /\ p[i] = q[i]
  BY <1>1
<1>3. /\ p \in [1 .. n -> net.edges] /\ p \in Seq(net.edges) /\ Len(p) = n
      /\ e \in net.edges
  BY <1>1, <1>2
<1>4. q = Append(p, e)
  <2> HIDE DEF p, e
  <2>1. /\ Append(p, e) \in [1 .. (n + 1) -> net.edges] /\ Append(p, e)[n + 1] = e
        /\ \A i \in 1 .. n : Append(p, e)[i] = p[i]
    BY <1>3, ExtendedPath
  <2>2. \A i \in 1 .. (n + 1) : Append(p, e)[i] = q[i]
    BY <1>2, <2>1 DEF e
  <2> QED  BY <1>1, <2>1, <2>2
<1> HIDE DEF p
<1>5. Simple(net, req, p, n)
  <2> SUFFICES ASSUME NEW i \in 1 .. n
               PROVE  /\ p[i].from = IF i = 1 THEN req.from ELSE p[i - 1].to
                      /\ p[i].to # req.from
                      /\ \A j \in 1 .. (i - 1) : p[j].to # p[i].to
    BY <1>3 DEF Simple
  <2>1. (i # 1 => i - 1 \in 1 .. n) /\ \A j \in 1 .. (i - 1) : j \in 1 .. n
    OBVIOUS
  <2> QED  BY <1>2, <2>1 DEF Simple
<1>6. /\ e.from = (IF n = 0 THEN req.from ELSE p[n].to)
      /\ e.to # req.from /\ \A i \in 1 .. n : p[i].to # e.to
  <2>1. (n + 1 = 1 <=> n = 0) /\ (n + 1) - 1 = n /\ (n # 0 => n \in 1 .. n)
    OBVIOUS
  <2> QED  BY <1>1, <1>2, <2>1 DEF Simple
<1> QED  BY <1>3, <1>4, <1>5, <1>6 DEF HasFront

(* Paths, which is a recursive function, has the simple paths to the       *)
(* destination that can be driven.                                         *)
LEMMA PathsAre ==
    ASSUME NEW net, WellFormed(net), NEW req
    PROVE  \A p : p \in A!Paths(net, req) <=> IsPath(net, req, p)
<1> DEFINE V == SUBSET Seq(net.edges)
           End(p) == IF p = <<>> THEN req.from ELSE p[Len(p)].to
           Visited(p) == {req.from} \union {p[i].to : i \in 1 .. Len(p)}
           Onward(p) == {Append(p, e) : e \in {m \in Outgoing(net, End(p)) : m.to \notin Visited(p)}}
           Longer(T) == UNION {Onward(p) : p \in T}
           first == {<<>>}
           eq(f) == [n \in Nat |-> IF n = 0 THEN first ELSE Longer(f[n - 1])]
           step == [a \in Nat \X V |-> Longer(a[2])]
           all == CHOOSE f : f = eq(f)
           most == Cardinality(net.nodes)
<1>1. A!Paths(net, req) =
         {p \in UNION {all[n] : n \in 1 .. most} : End(p) = req.to /\ Drivable(net, req, p)}
  BY Zenon DEF A!Paths, A!Outgoing, Outgoing, A!Cardinality, Cardinality, A!Drivable, Drivable,
     A!TimesAlong, TimesAlong, A!Seconds, Seconds, A!FoldSet, FoldSet,
     A!MapThenFoldSet, MapThenFoldSet, A!Slowed, Slowed, A!Allowed, Allowed, A!Usable, Usable,
     A!Supports, Supports, A!Affecting, Affecting, A!Contains, Contains, A!Always, Always
<1>2. ASSUME NEW T \in V PROVE Longer(T) \in V
  <2> SUFFICES ASSUME NEW p \in T, NEW e \in net.edges PROVE Append(p, e) \in Seq(net.edges)
    BY DEF Outgoing
  <2>1. p \in Seq(net.edges)
    OBVIOUS
  <2> HIDE DEF V
  <2> QED  BY <2>1
<1>3. first \in V
  OBVIOUS
<1> HIDE DEF V, first, Longer
<1>4. step \in [Nat \X V -> V]
  <2>1. \A a \in Nat \X V : a[2] \in V
    OBVIOUS
  <2> QED  BY <1>2, <2>1
<1>5. PICK f \in [Nat -> V] : f[0] = first /\ \A n \in Nat : f[n + 1] = step[<<n, f[n]>>]
  <2> HIDE DEF step
  <2>1. Recursion(V, first, step)
    BY <1>3, <1>4, PrimitiveRecursion
  <2> QED  BY <2>1 DEF Recursion
<1>6. \A n \in Nat : f[n + 1] = Longer(f[n])
  BY <1>5
<1> HIDE DEF step
<1>7. f = eq(f)
  <2>1. ASSUME NEW n \in Nat, n # 0 PROVE f[n] = Longer(f[n - 1])
    <3>1. n - 1 \in Nat /\ (n - 1) + 1 = n
      BY <2>1
    <3> QED  BY <1>6, <3>1
  <2>2. \A n \in Nat : f[n] = IF n = 0 THEN first ELSE Longer(f[n - 1])
    BY <1>5, <2>1
  <2> QED  BY <2>2
<1>8. all = eq(all)
  <2> HIDE DEF eq
  <2> QED  BY <1>7, Zenon
<1> HIDE DEF all
<1>9. all[0] = first /\ \A n \in Nat : all[n + 1] = Longer(all[n])
  <2>1. all[0] = first
    BY <1>8
  <2>2. ASSUME NEW n \in Nat PROVE all[n + 1] = Longer(all[n])
    <3>1. n + 1 \in Nat /\ n + 1 # 0 /\ (n + 1) - 1 = n
      OBVIOUS
    <3> QED  BY <1>8, <3>1
  <2> QED  BY <2>1, <2>2
<1> DEFINE N == {n \in Nat : \A p : p \in all[n] <=> Simple(net, req, p, n)}
<1>10. Nat \subseteq N
  <2>1. 0 \in N
    <3> SUFFICES ASSUME NEW p PROVE p = <<>> <=> Simple(net, req, p, 0)
      BY <1>9 DEF first
    <3> QED  BY DEF Simple
  <2>2. ASSUME NEW n \in Nat, n \in N PROVE n + 1 \in N
    <3> SUFFICES ASSUME NEW q PROVE q \in Longer(all[n]) <=> Simple(net, req, q, n + 1)
      BY <1>9
    <3>1. q \in Longer(all[n]) <=>
             \E p \in all[n], e \in net.edges :
                q = Append(p, e) /\ e.from = End(p) /\ e.to \notin Visited(p)
      <4> HIDE DEF End, Visited
      <4>1. \A p, x : x \in Onward(p) <=>
               \E e \in net.edges : x = Append(p, e) /\ e.from = End(p) /\ e.to \notin Visited(p)
        BY Zenon DEF Outgoing
      <4> HIDE DEF Onward
      <4>2. q \in Longer(all[n]) <=> \E p \in all[n] : q \in Onward(p)
        BY Zenon DEF Longer
      <4> QED  BY <4>1, <4>2, Zenon
    <3>2. \A p : p \in all[n] <=> Simple(net, req, p, n)
      BY <2>2
    <3>3. ASSUME NEW p, p \in Seq(net.edges), Len(p) = n
          PROVE  /\ End(p) = IF n = 0 THEN req.from ELSE p[n].to
                 /\ Visited(p) = {req.from} \union {p[i].to : i \in 1 .. n}
      BY <3>3
    <3>4. \A p : Simple(net, req, p, n) => p \in Seq(net.edges) /\ Len(p) = n
      BY DEF Simple
    <3> HIDE DEF End, Visited, N
    <3>5. ASSUME NEW p, NEW e \in net.edges, Simple(net, req, p, n),
                 q = Append(p, e), e.from = End(p), e.to \notin Visited(p)
          PROVE  Simple(net, req, q, n + 1)
      BY <3>3, <3>4, <3>5, SimpleAppend
    <3>6. ASSUME Simple(net, req, q, n + 1)
          PROVE  \E p, e : /\ Simple(net, req, p, n) /\ e \in net.edges
                           /\ q = Append(p, e) /\ e.from = End(p) /\ e.to \notin Visited(p)
      <4>1. HasFront(net, req, q, n)
        BY <3>6, SimpleFront
      <4>2. PICK p \in Seq(net.edges), e \in net.edges :
              /\ q = Append(p, e) /\ Len(p) = n /\ Simple(net, req, p, n)
              /\ e.from = (IF n = 0 THEN req.from ELSE p[n].to)
              /\ e.to # req.from /\ \A i \in 1 .. n : p[i].to # e.to
        BY <4>1 DEF HasFront
      <4> QED  BY <3>3, <4>2
    <3> QED  BY <3>1, <3>2, <3>5, <3>6
  <2> HIDE DEF N
  <2> QED  BY <2>1, <2>2, SetInduction
<1>11. most \in Nat
  BY FS_CardinalityType DEF WellFormed
<1> HIDE DEF most
<1> SUFFICES ASSUME NEW p PROVE p \in A!Paths(net, req) <=> IsPath(net, req, p)
  OBVIOUS
<1>12. \A n \in 1 .. most : p \in all[n] <=> Simple(net, req, p, n)
  BY <1>10, <1>11
<1>13. \A n \in 1 .. most : Simple(net, req, p, n) => End(p) = p[n].to
  <2> SUFFICES ASSUME NEW n \in 1 .. most, Simple(net, req, p, n) PROVE End(p) = p[n].to
    OBVIOUS
  <2>1. n \in Nat /\ n # 0
    BY <1>11
  <2>2. p \in Seq(net.edges) /\ Len(p) = n
    BY <2>1 DEF Simple
  <2>3. p # <<>>
    BY <2>1, <2>2
  <2> QED  BY <2>2, <2>3
<1> HIDE DEF End
<1> QED  BY <1>1, <1>12, <1>13 DEF IsPath, most

(* A network without one edge.                                             *)
Barred(net, edge) ==
    [nodes |-> net.nodes, edges |-> net.edges \ {edge}, incidents |-> net.incidents]

Avoids(p, edge) == \A i \in DOMAIN p : p[i] # edge

Took(net, req, p) == TimesAlong(net, req, p)[Len(p)] - req.departure

(* The fold of Seconds, as an operator of sets.                            *)
Folded(base, S) == FoldSet(Slowed, base, S)

LEMMA BarredPaths ==
    ASSUME NEW net, WellFormed(net), NEW req, req.departure \in Nat, NEW edge
    PROVE  /\ WellFormed(Barred(net, edge))
           /\ \A p \in A!Paths(Barred(net, edge), req) :
                 Took(Barred(net, edge), req, p) = Took(net, req, p)
           /\ \A p : p \in A!Paths(Barred(net, edge), req) <=>
                        p \in A!Paths(net, req) /\ Avoids(p, edge)
<1> DEFINE less == Barred(net, edge)
<1>1. /\ less.nodes = net.nodes /\ less.edges = net.edges \ {edge}
      /\ less.incidents = net.incidents
  BY DEF Barred
<1> HIDE DEF less
<1>2. WellFormed(less)
  BY <1>1 DEF WellFormed
<1>3. \A e, t : Seconds(less, e, t) = Seconds(net, e, t)
  <2>1. \A e, t : Affecting(less, e, t) = Affecting(net, e, t)
    BY <1>1 DEF Affecting
  <2>2. \A n, e, t : Seconds(n, e, t) = Folded(e.base, Affecting(n, e, t))
    BY Zenon DEF Seconds, Folded, FoldSet, MapThenFoldSet
  <2> QED  BY <2>1, <2>2
<1>4. \A e, t : Allowed(less, req, e, t) = Allowed(net, req, e, t)
  BY <1>1, Zenon DEF Allowed, Usable, Supports, Affecting, Contains, Always
<1>5. ASSUME NEW p \in Seq(less.edges), NEW i \in 0 .. Len(p)
      PROVE  TimesAlong(less, req, p)[i] = TimesAlong(net, req, p)[i]
  <2> DEFINE old == TimesAlong(net, req, p)
             new == TimesAlong(less, req, p)
             N == {k \in Nat : k <= Len(p) => new[k] = old[k]}
  <2>1. p \in Seq(net.edges) /\ Len(p) \in Nat
    BY <1>1
  <2>2. /\ old[0] = req.departure
        /\ \A k \in 1 .. Len(p) : old[k] = old[k - 1] + Seconds(net, p[k], old[k - 1])
    BY <2>1, TimesAlongDef
  <2>3. /\ new[0] = req.departure
        /\ \A k \in 1 .. Len(p) : new[k] = new[k - 1] + Seconds(less, p[k], new[k - 1])
    BY <1>2, TimesAlongDef
  <2> HIDE DEF old, new
  <2>4. 0 \in N
    BY <2>2, <2>3
  <2>5. ASSUME NEW k \in Nat, k \in N PROVE k + 1 \in N
    <3> SUFFICES ASSUME k + 1 <= Len(p) PROVE new[k + 1] = old[k + 1]
      OBVIOUS
    <3>1. new[k] = old[k] /\ k + 1 \in 1 .. Len(p) /\ (k + 1) - 1 = k
      BY <2>1, <2>5
    <3> QED  BY <1>3, <2>2, <2>3, <3>1
  <2> HIDE DEF N
  <2>6. Nat \subseteq N
    BY <2>4, <2>5, SetInduction
  <2> QED  BY <2>1, <2>6 DEF N, old, new
<1>6. ASSUME NEW p, NEW n \in Nat
      PROVE  /\ Simple(less, req, p, n) <=> Simple(net, req, p, n) /\ Avoids(p, edge)
             /\ Simple(less, req, p, n) =>
                   (Drivable(less, req, p) <=> Drivable(net, req, p))
  <2>1. p \in [1 .. n -> less.edges] <=> p \in [1 .. n -> net.edges] /\ Avoids(p, edge)
    BY <1>1 DEF Avoids
  <2>2. Simple(less, req, p, n) <=> Simple(net, req, p, n) /\ Avoids(p, edge)
    BY <2>1 DEF Simple
  <2>3. ASSUME Simple(less, req, p, n)
        PROVE  Drivable(less, req, p) <=> Drivable(net, req, p)
    <3>1. p \in [1 .. n -> less.edges] /\ p \in Seq(less.edges) /\ Len(p) = n
      BY <2>3 DEF Simple
    <3>2. \A i \in 1 .. Len(p) : p[i] \in less.edges /\ p[i] \in net.edges
      BY <1>1, <3>1
    <3>3. \A i \in 1 .. Len(p) : i - 1 \in 0 .. Len(p)
      BY <3>1
    <3> QED  BY <1>4, <1>5, <3>1, <3>2, <3>3 DEF Drivable
  <2> QED  BY <2>2, <2>3
<1>7. Cardinality(net.nodes) \in Nat
  BY FS_CardinalityType DEF WellFormed
<1>8. ASSUME NEW p PROVE IsPath(less, req, p) <=> IsPath(net, req, p) /\ Avoids(p, edge)
  <2>1. \A n \in 1 .. Cardinality(net.nodes) : n \in Nat
    BY <1>7
  <2> QED  BY <1>1, <1>6, <2>1, Zenon DEF IsPath
<1>9. ASSUME NEW p \in A!Paths(less, req) PROVE Took(less, req, p) = Took(net, req, p)
  <2>1. PICK n \in 1 .. Cardinality(net.nodes) : Simple(less, req, p, n)
    BY <1>1, <1>2, PathsAre DEF IsPath
  <2>2. p \in Seq(less.edges) /\ Len(p) \in 0 .. Len(p)
    BY <1>7, <2>1 DEF Simple
  <2> QED  BY <1>5, <2>2 DEF Took
<1> QED  BY <1>2, <1>8, <1>9, PathsAre DEF less

(* Of two paths, each has an edge that the other has not.                  *)
LEMMA PathsDiffer ==
    ASSUME NEW net, WellFormed(net), NEW req,
           NEW p \in A!Paths(net, req), NEW o \in A!Paths(net, req), o # p
    PROVE  \E i \in DOMAIN p : Avoids(o, p[i])
<1> SUFFICES ASSUME \A i \in DOMAIN p : \E j \in DOMAIN o : o[j] = p[i]
             PROVE  FALSE
  BY DEF Avoids
<1>1. IsPath(net, req, p) /\ IsPath(net, req, o)
  BY PathsAre
<1>2. Cardinality(net.nodes) \in Nat
  BY FS_CardinalityType DEF WellFormed
<1>3. PICK n \in Nat \ {0} : Simple(net, req, p, n) /\ p[n].to = req.to
  BY <1>1, <1>2 DEF IsPath
<1>4. PICK m \in Nat \ {0} : Simple(net, req, o, m) /\ o[m].to = req.to
  BY <1>1, <1>2 DEF IsPath
<1>5. DOMAIN p = 1 .. n /\ DOMAIN o = 1 .. m
  BY <1>3, <1>4 DEF Simple
(* A simple path goes through an edge's start where the last edge ends.    *)
<1>6. ASSUME NEW i \in 1 .. m, NEW j \in 1 .. m, o[j].from = o[i].to
      PROVE  j = i + 1
  <2>1. j # 1
    BY <1>4, <1>6 DEF Simple
  <2>2. j - 1 \in 1 .. m /\ o[j - 1].to = o[i].to
    BY <1>4, <1>6, <2>1 DEF Simple
  <2>3. ~ (j - 1 < i) /\ ~ (i < j - 1)
    <3>1. \A a, b \in 1 .. m : a < b => a \in 1 .. (b - 1)
      OBVIOUS
    <3> QED  BY <1>4, <2>2, <3>1 DEF Simple
  <2> QED  BY <2>2, <2>3
<1> DEFINE N == {i \in Nat : i + 1 <= n => i + 1 <= m /\ o[i + 1] = p[i + 1]}
<1>7. 0 \in N
  <2>1. 1 \in 1 .. n
    BY <1>3
  <2>2. PICK j \in 1 .. m : o[j] = p[1]
    BY <1>5, <2>1
  <2>3. p[1].from = req.from
    BY <1>3, <2>1 DEF Simple
  <2>4. j = 1
    <3> SUFFICES ASSUME j # 1 PROVE FALSE
      OBVIOUS
    <3>1. j - 1 \in 1 .. m /\ o[j].from = o[j - 1].to
      BY <1>4 DEF Simple
    <3> QED  BY <1>4, <2>2, <2>3, <3>1 DEF Simple
  <2> QED  BY <2>2, <2>4
<1>8. ASSUME NEW i \in Nat, i \in N PROVE i + 1 \in N
  <2> SUFFICES ASSUME (i + 1) + 1 <= n
               PROVE  (i + 1) + 1 <= m /\ o[(i + 1) + 1] = p[(i + 1) + 1]
    OBVIOUS
  <2> DEFINE a == i + 1
             b == (i + 1) + 1
  <2>1. /\ a \in 1 .. n /\ b \in 1 .. n /\ b # 1 /\ b - 1 = a /\ b = a + 1
        /\ a \in 1 .. m /\ o[a] = p[a]
    BY <1>8
  <2> HIDE DEF a, b, N
  <2>2. PICK j \in 1 .. m : o[j] = p[b]
    BY <1>5, <2>1
  <2>3. o[j].from = o[a].to
    BY <1>3, <2>1, <2>2 DEF Simple
  <2>4. j = b
    BY <1>6, <2>1, <2>3
  <2> QED  BY <2>2, <2>4 DEF b
<1>9. Nat \subseteq N
  <2> HIDE DEF N
  <2> QED  BY <1>7, <1>8, SetInduction
<1>10. \A i \in 1 .. n : i \in 1 .. m /\ o[i] = p[i]
  <2> SUFFICES ASSUME NEW i \in 1 .. n PROVE i \in 1 .. m /\ o[i] = p[i]
    OBVIOUS
  <2>1. i - 1 \in Nat /\ (i - 1) + 1 = i
    OBVIOUS
  <2>2. i - 1 \in N
    BY <1>9, <2>1
  <2> QED  BY <2>1, <2>2
<1>11. n = m
  <2>1. n \in 1 .. m /\ m \in 1 .. m /\ o[n].to = o[m].to
    BY <1>3, <1>4, <1>10
  <2>2. n < m => n \in 1 .. (m - 1)
    BY <2>1
  <2> QED  BY <1>4, <2>1, <2>2 DEF Simple
<1>12. o = p
  BY <1>3, <1>4, <1>10, <1>11 DEF Simple
<1> QED  BY <1>12

LEMMA PathTakesTime ==
    ASSUME NEW net, WellFormed(net), NEW req, req.departure \in Nat,
           NEW p \in A!Paths(net, req)
    PROVE  /\ p \in Seq(net.edges) /\ Len(p) \in Nat \ {0} /\ DOMAIN p = 1 .. Len(p)
           /\ Took(net, req, p) \in Nat
<1> DEFINE dep == req.departure
           time == TimesAlong(net, req, p)
           N == {i \in Nat : i <= Len(p) => time[i] \in Nat /\ dep <= time[i]}
<1>1. Cardinality(net.nodes) \in Nat
  BY FS_CardinalityType DEF WellFormed
<1>2. \E n \in Nat \ {0} : Simple(net, req, p, n)
  BY <1>1, PathsAre DEF IsPath
<1>3. p \in Seq(net.edges) /\ Len(p) \in Nat \ {0} /\ DOMAIN p = 1 .. Len(p)
  BY <1>2 DEF Simple
<1>4. /\ time[0] = dep
      /\ \A i \in 1 .. Len(p) : time[i] = time[i - 1] + Seconds(net, p[i], time[i - 1])
  BY <1>3, TimesAlongDef
<1> HIDE DEF time
<1>5. 0 \in N
  BY <1>4
<1>6. ASSUME NEW i \in Nat, i \in N PROVE i + 1 \in N
  <2> SUFFICES ASSUME i + 1 <= Len(p) PROVE time[i + 1] \in Nat /\ dep <= time[i + 1]
    OBVIOUS
  <2>1. time[i] \in Nat /\ dep <= time[i] /\ i + 1 \in 1 .. Len(p) /\ (i + 1) - 1 = i
    BY <1>3, <1>6
  <2>2. p[i + 1] \in net.edges
    BY <1>3, <2>1
  <2>3. Seconds(net, p[i + 1], time[i]) \in Nat
    BY <2>2, SecondsType
  <2>4. time[i + 1] = time[i] + Seconds(net, p[i + 1], time[i])
    BY <1>4, <2>1
  <2> QED  BY <2>1, <2>3, <2>4
<1> HIDE DEF N
<1>7. Nat \subseteq N
  BY <1>5, <1>6, SetInduction
<1>8. Took(net, req, p) \in Nat
  BY <1>3, <1>7 DEF N, Took, time
<1> QED  BY <1>3, <1>8

IsRoute(net, req, r) ==
    /\ r = [path |-> r.path, seconds |-> r.seconds]
    /\ r.path \in A!Paths(net, req) /\ r.seconds = Took(net, req, r.path)

(* Route gives the fastest paths, and some if there is any path.           *)
LEMMA RouteIs ==
    ASSUME NEW net, WellFormed(net), NEW req, req.departure \in Nat
    PROVE  /\ \A r \in A!Route(net, req) :
                 /\ IsRoute(net, req, r)
                 /\ \A p \in A!Paths(net, req) : r.seconds <= Took(net, req, p)
           /\ A!Route(net, req) = {} => A!Paths(net, req) = {}
<1> DEFINE all == A!Paths(net, req)
           The(p) == [path |-> p, seconds |-> Took(net, req, p)]
<1>1. \A r : r \in A!Route(net, req) <=>
         \E p \in all : r = The(p) /\ \A o \in all : Took(net, req, p) <= Took(net, req, o)
  <2> DEFINE routes == {[path |-> p, seconds |-> A!TimesAlong(net, req, p)[Len(p)] - req.departure]
                        : p \in all}
  <2>1. A!Route(net, req) = {r \in routes : \A o \in routes : r.seconds <= o.seconds}
    BY Zenon DEF A!Route
  <2>2. \A r : r \in routes <=> \E p \in all : r = The(p)
    BY AlternativesNetwork DEF Took
  <2> HIDE DEF routes, all
  <2>3. \A p : The(p).seconds = Took(net, req, p)
    OBVIOUS
  <2> HIDE DEF The
  <2> QED  BY <2>1, <2>2, <2>3
<1>2. ASSUME NEW r \in A!Route(net, req)
      PROVE  IsRoute(net, req, r) /\ \A p \in all : r.seconds <= Took(net, req, p)
  <2>1. PICK p \in all : r = The(p) /\ \A o \in all : Took(net, req, p) <= Took(net, req, o)
    BY <1>1
  <2> QED  BY <2>1 DEF IsRoute
<1>3. ASSUME all # {} PROVE A!Route(net, req) # {}
  <2> DEFINE T == {Took(net, req, p) : p \in all}
  <2>1. T \in SUBSET Nat /\ T # {}
    BY <1>3, PathTakesTime
  <2>2. PICK m \in T : \A y \in T : m <= y
    BY <2>1, LeastNumber
  <2>3. PICK p \in all : m = Took(net, req, p)
    BY <2>2
  <2>4. The(p) \in A!Route(net, req)
    BY <1>1, <2>2, <2>3
  <2> QED  BY <2>4
<1> QED  BY <1>2, <1>3

(* The routes there are, and those that avoid the i-th edge of the fastest. *)
AllPaths == A!Paths(Ways, Asked)

Found == {r \in [path : AllPaths, seconds : Nat] : r.seconds = Took(Ways, Asked, r.path)}

Detours(i) == {p \in AllPaths : Avoids(p, results[1].path[i])}

Others == candidates \union {results[i] : i \in 2 .. Len(results)}

(* A fastest way around the i-th edge of the fastest route is known.       *)
Answered(i) ==
    Detours(i) # {} =>
        \E r \in Others : /\ r.path \in Detours(i)
                          /\ \A o \in Detours(i) : r.seconds <= Took(Ways, Asked, o)

(* Some result before the i-th takes just so long.                         *)
Tied(seconds, i) == \E h \in 1 .. (i - 1) : results[h].seconds = seconds

ResultsInv ==
    /\ results \in Seq(Found) /\ results # <<>> /\ candidates \subseteq Found
    /\ seen = {r.path : r \in candidates} \union {results[i].path : i \in 1 .. Len(results)}
    /\ A!RoutesDiffer
    /\ \A r \in candidates, i \in 1 .. Len(results) : results[i].path # r.path
    /\ removed \in 0 .. Len(results[Len(results)].path)

OrderInv ==
    /\ \A p \in AllPaths : results[1].seconds <= Took(Ways, Asked, p)
    /\ \A i \in 1 .. (IF Len(results) = 1 THEN removed ELSE Len(results[1].path)) : Answered(i)
    /\ \A r \in candidates, i \in 1 .. Len(results) :
          r.seconds < results[i].seconds => Tied(r.seconds, i)
    /\ A!RoutesAreOrdered
    /\ Len(results) >= 2 =>
          \A p \in AllPaths \ {results[1].path} : results[2].seconds <= Took(Ways, Asked, p)

AlternativesInv ==
    /\ scenario \in AlternativeScenarios
    /\ phase \in {"called", "working", "returned", "refused"}
    /\ phase \in {"called", "refused"} =>
          results = <<>> /\ candidates = {} /\ seen = {} /\ removed = 0
    /\ phase \in {"working", "returned"} =>
          /\ scenario.k \in 1 .. 10 /\ Len(results) <= scenario.k
          /\ ResultsInv /\ OrderInv
    /\ phase = "returned" /\ Len(results) = 1 =>
          scenario.k = 1 \/ \A p \in AllPaths : p = results[1].path

LEMMA AlternativeScenario ==
    ASSUME scenario \in AlternativeScenarios
    PROVE  /\ WellFormed(Ways) /\ Asked.departure \in Nat
           /\ A!network = Ways /\ A!request = Asked
  BY AlternativeAssumption, AlternativesNetwork
     DEF A!ScenarioAssumption, Ways, Asked, A!network, A!request

LEMMA FoundIs ==
    ASSUME scenario \in AlternativeScenarios, NEW r \in Found
    PROVE  /\ r.path \in AllPaths /\ r.seconds \in Nat /\ r.seconds = Took(Ways, Asked, r.path)
           /\ Len(r.path) \in Nat \ {0} /\ DOMAIN r.path = 1 .. Len(r.path)
  BY AlternativeScenario, PathTakesTime DEF Found, AllPaths

LEMMA FirstRouteIs ==
    ASSUME scenario \in AlternativeScenarios, NEW r \in A!Route(A!network, A!request)
    PROVE  r \in Found /\ \A p \in AllPaths : r.seconds <= Took(Ways, Asked, p)
<1>1. IsRoute(Ways, Asked, r) /\ \A p \in AllPaths : r.seconds <= Took(Ways, Asked, p)
  BY AlternativeScenario, RouteIs DEF AllPaths
<1>2. r.seconds \in Nat
  BY <1>1, AlternativeScenario, PathTakesTime DEF IsRoute
<1>3. r = [path |-> r.path, seconds |-> r.seconds] /\ r.path \in AllPaths
  BY <1>1 DEF IsRoute, AllPaths
<1> QED  BY <1>1, <1>2, <1>3 DEF IsRoute, Found

(* What Route finds when an edge is out of the network.                    *)
LEMMA DetourIs ==
    ASSUME scenario \in AlternativeScenarios, NEW e
    PROVE  /\ \A r \in A!Route(A!Without(e), A!request) :
                 /\ r \in Found /\ Avoids(r.path, e)
                 /\ \A o \in AllPaths : Avoids(o, e) => r.seconds <= Took(Ways, Asked, o)
           /\ A!Route(A!Without(e), A!request) = {} => \A o \in AllPaths : ~ Avoids(o, e)
<1> DEFINE less == Barred(Ways, e)
<1>1. A!Without(e) = less /\ A!request = Asked /\ WellFormed(Ways) /\ Asked.departure \in Nat
  BY AlternativeScenario DEF A!Without, Barred
<1>2. /\ WellFormed(less)
      /\ \A p \in A!Paths(less, Asked) : Took(less, Asked, p) = Took(Ways, Asked, p)
      /\ \A p : p \in A!Paths(less, Asked) <=> p \in AllPaths /\ Avoids(p, e)
  BY <1>1, BarredPaths DEF AllPaths
<1> HIDE DEF less
<1>3. ASSUME NEW r \in A!Route(less, Asked)
      PROVE  /\ r \in Found /\ Avoids(r.path, e)
             /\ \A o \in AllPaths : Avoids(o, e) => r.seconds <= Took(Ways, Asked, o)
  <2>1. IsRoute(less, Asked, r) /\ \A p \in A!Paths(less, Asked) : r.seconds <= Took(less, Asked, p)
    BY <1>1, <1>2, RouteIs
  <2>2. r.path \in AllPaths /\ Avoids(r.path, e) /\ r.seconds = Took(Ways, Asked, r.path)
    BY <1>2, <2>1 DEF IsRoute
  <2>3. r.seconds \in Nat
    BY <1>1, <2>2, PathTakesTime DEF AllPaths
  <2>4. r = [path |-> r.path, seconds |-> r.seconds]
    BY <2>1 DEF IsRoute
  <2>5. r \in Found
    BY <2>2, <2>3, <2>4 DEF Found
  <2> QED  BY <1>2, <2>1, <2>2, <2>5
<1>4. A!Route(less, Asked) = {} => A!Paths(less, Asked) = {}
  BY <1>1, <1>2, RouteIs
<1> QED  BY <1>1, <1>2, <1>3, <1>4

LEMMA SameAlternatives ==
    ASSUME UNCHANGED scenario
    PROVE  /\ Ways' = Ways /\ Asked' = Asked /\ AllPaths' = AllPaths /\ Found' = Found
  BY DEF Ways, Asked, AllPaths, Found

LEMMA AlternativesStart ==
    ASSUME AlternativesInv, A!First
    PROVE  AlternativesInv'
<1>1. PICK route \in A!Route(A!network, A!request) : results' = <<route>> /\ seen' = {route.path}
  BY DEF A!First
<1>2. /\ UNCHANGED <<scenario, candidates, removed>> /\ phase' = "working"
      /\ scenario.k \in 1 .. 10 /\ candidates = {} /\ removed = 0
      /\ scenario \in AlternativeScenarios
  BY DEF A!First, A!k, AlternativesInv
<1>3. route \in Found /\ \A p \in AllPaths : route.seconds <= Took(Ways, Asked, p)
  BY <1>2, FirstRouteIs
<1>4. results' \in Seq(Found) /\ Len(results') = 1 /\ results'[1] = route /\ results' # <<>>
  BY <1>1, <1>3
<1>5. Len(route.path) \in Nat
  BY <1>2, <1>3, FoundIs
<1>6. ResultsInv'
  BY <1>1, <1>2, <1>4, <1>5, SameAlternatives DEF ResultsInv, A!RoutesDiffer
<1>7. OrderInv'
  <2>1. A!RoutesAreOrdered'
    BY <1>4 DEF A!RoutesAreOrdered
  <2>2. \A i \in 1 .. (IF Len(results') = 1 THEN removed' ELSE Len(results'[1].path)) : Answered(i)'
    BY <1>2, <1>4
  <2> QED  BY <1>2, <1>3, <1>4, <2>1, <2>2, SameAlternatives DEF OrderInv
<1> QED  BY <1>2, <1>4, <1>6, <1>7 DEF AlternativesInv

(* A way around an edge that nobody has seen yet is out of order only if   *)
(* it ties: if the edge is not of the fastest route, with that one; if it  *)
(* is, with the way around it found in the first round.                    *)
LEMMA DetoursTie ==
    ASSUME AlternativesInv, phase = "working",
           NEW e, Len(results) # 1 \/ e = results[1].path[removed + 1],
           NEW route \in Found, Avoids(route.path, e),
           \A o \in AllPaths : Avoids(o, e) => route.seconds <= Took(Ways, Asked, o),
           NEW i \in 1 .. Len(results), route.seconds < results[i].seconds
    PROVE  Tied(route.seconds, i)
<1> DEFINE first == results[1]
           n == Len(results)
<1>1. /\ ResultsInv /\ OrderInv /\ scenario \in AlternativeScenarios
      /\ results \in Seq(Found) /\ n \in Nat /\ \A h \in 1 .. n : results[h] \in Found
  BY DEF AlternativesInv, ResultsInv
<1>2. \A r \in Found : /\ r.path \in AllPaths /\ r.seconds \in Nat
                       /\ r.seconds = Took(Ways, Asked, r.path)
                       /\ DOMAIN r.path = 1 .. Len(r.path)
  BY <1>1, FoundIs
<1>3. 1 \in 1 .. n /\ first \in Found /\ first.seconds <= route.seconds
  BY <1>1, <1>2 DEF OrderInv
<1>4. i # 1 /\ 1 \in 1 .. (i - 1)
  BY <1>2, <1>3
<1>5. CASE Avoids(first.path, e)
  BY <1>2, <1>3, <1>4, <1>5 DEF Tied
<1>6. CASE ~ Avoids(first.path, e)
  <2>1. PICK m \in 1 .. Len(first.path) : first.path[m] = e
    BY <1>2, <1>3, <1>6 DEF Avoids
  <2>2. n # 1
    BY <1>4
  <2>3. Answered(m)
    BY <1>1, <2>1, <2>2 DEF OrderInv
  <2>4. \A p : p \in Detours(m) <=> p \in AllPaths /\ Avoids(p, e)
    BY <2>1 DEF Detours
  <2>5. PICK r \in Others : /\ r.path \in Detours(m)
                            /\ \A o \in Detours(m) : r.seconds <= Took(Ways, Asked, o)
    BY <1>2, <2>3, <2>4 DEF Answered
  <2>6. r \in Found
    BY <1>1, <2>5 DEF Others, ResultsInv
  <2>7. r.seconds = route.seconds
    BY <1>2, <2>4, <2>5, <2>6
  <2>8. CASE r \in candidates
    BY <1>1, <2>7, <2>8 DEF OrderInv
  <2>9. CASE r \notin candidates
    <3>1. PICK h \in 2 .. n : results[h] = r
      BY <2>5, <2>9 DEF Others
    <3>2. CASE h < i
      <4>1. h \in 1 .. (i - 1)
        BY <3>2
      <4> QED  BY <2>7, <3>1, <4>1 DEF Tied
    <3>3. CASE i < h
      <4>1. i \in 1 .. n /\ h \in 1 .. n /\ results[h].seconds < results[i].seconds
        BY <1>1, <2>7, <3>1
      <4> QED  BY <1>1, <2>7, <3>1, <3>3, <4>1 DEF OrderInv, A!RoutesAreOrdered, Tied
    <3>4. h # i
      BY <1>2, <2>7, <3>1
    <3> QED  BY <3>2, <3>3, <3>4
  <2> QED  BY <2>8, <2>9
<1> QED  BY <1>5, <1>6

LEMMA AnswersStay ==
    ASSUME UNCHANGED scenario, results'[1] = results[1], Others \subseteq Others',
           NEW i, Answered(i)
    PROVE  Answered(i)'
<1>1. Detours(i)' = Detours(i) /\ Ways' = Ways /\ Asked' = Asked
  BY SameAlternatives DEF Detours
<1> QED  BY <1>1 DEF Answered

(* A leg taken out: there is no way around it, or the fastest way around   *)
(* it is known already, or it becomes a candidate.                         *)
LEMMA AlternativesRemove ==
    ASSUME AlternativesInv, A!RemoveLeg
    PROVE  AlternativesInv'
<1> DEFINE n == Len(results)
           e == results[n].path[removed + 1]
           routes == A!Route(A!Without(e), A!request)
<1>1. /\ ResultsInv /\ OrderInv /\ scenario \in AlternativeScenarios
      /\ phase = "working" /\ phase' = "working" /\ UNCHANGED <<scenario, results>>
      /\ removed' = removed + 1 /\ removed < Len(results[n].path)
      /\ scenario.k \in 1 .. 10 /\ n <= scenario.k
  BY DEF A!RemoveLeg, A!Legs, A!previous, AlternativesInv
<1>2. IF routes = {} THEN UNCHANGED <<seen, candidates>>
      ELSE \E route \in routes : A!Keep(route)
  BY DEF A!RemoveLeg, A!previous
<1>3. /\ n \in Nat \ {0} /\ removed \in Nat /\ \A i \in 1 .. n : results[i] \in Found
      /\ candidates \subseteq Found
  BY <1>1 DEF ResultsInv
<1>4. \A r \in Found : /\ r.path \in AllPaths /\ r.seconds \in Nat
                       /\ r.seconds = Took(Ways, Asked, r.path)
                       /\ Len(r.path) \in Nat \ {0} /\ DOMAIN r.path = 1 .. Len(r.path)
  BY <1>1, FoundIs
<1>5. /\ \A r \in routes : /\ r \in Found /\ Avoids(r.path, e)
                           /\ \A o \in AllPaths : Avoids(o, e) => r.seconds <= Took(Ways, Asked, o)
      /\ routes = {} => \A o \in AllPaths : ~ Avoids(o, e)
  BY <1>1, DetourIs
<1> DEFINE Fresh(route) == /\ route \in routes /\ route.path \notin seen
                           /\ seen' = seen \union {route.path}
                           /\ candidates' = candidates \union {route}
<1>6. \/ UNCHANGED <<seen, candidates>> /\ (routes = {} \/ \E r \in routes : r.path \in seen)
      \/ \E route \in routes : Fresh(route)
  BY <1>2 DEF A!Keep
<1> HIDE DEF routes, e
<1>7. removed' \in 0 .. Len(results[n].path)
  BY <1>1, <1>3, <1>4
<1>8. ResultsInv' /\ candidates \subseteq candidates'
  <2>1. CASE UNCHANGED <<seen, candidates>>
    BY <1>1, <1>7, <2>1, SameAlternatives DEF ResultsInv, A!RoutesDiffer
  <2>2. ASSUME NEW route \in routes, Fresh(route)
        PROVE  ResultsInv' /\ candidates \subseteq candidates'
    <3>1. route \in Found /\ \A i \in 1 .. n : results[i].path # route.path
      BY <1>1, <1>5, <2>2 DEF ResultsInv
    <3>2. seen' = {r.path : r \in candidates'} \union {results[i].path : i \in 1 .. n}
      BY <1>1, <2>2 DEF ResultsInv
    <3> QED  BY <1>1, <1>7, <2>2, <3>1, <3>2, SameAlternatives DEF ResultsInv, A!RoutesDiffer
  <2> QED  BY <1>6, <2>1, <2>2
<1>9. ASSUME n = 1, NEW leg \in Nat, leg = removed + 1 PROVE Answered(leg)'
  <2>1. \A p : p \in Detours(leg)' <=> p \in AllPaths /\ Avoids(p, e)
    BY <1>1, <1>9, SameAlternatives DEF Detours, e
  <2>2. leg \in DOMAIN results[1].path /\ results[1].path[leg] = e
    BY <1>1, <1>9, <1>3, <1>4 DEF e
  <2>3. CASE routes = {}
    BY <1>5, <2>1, <2>3 DEF Answered
  <2>4. ASSUME NEW r \in Others', r \in Found, NEW route \in routes, r.path = route.path
        PROVE  Answered(leg)'
    <3>1. r.seconds = route.seconds
      BY <1>4, <1>5, <2>4
    <3>2. r.path \in Detours(leg)' /\ \A o \in Detours(leg)' : r.seconds <= Took(Ways, Asked, o)
      BY <1>4, <1>5, <2>1, <2>4, <3>1
    <3> QED  BY <1>1, <2>4, <3>2, SameAlternatives DEF Answered
  <2>5. ASSUME NEW route \in routes, route.path \in seen, UNCHANGED <<seen, candidates>>
        PROVE  Answered(leg)'
    <3>1. results[1].path # route.path
      BY <1>5, <2>2 DEF Avoids
    <3>2. PICK r \in candidates : r.path = route.path
      BY <1>1, <1>9, <2>5, <3>1 DEF ResultsInv
    <3> QED  BY <1>3, <2>4, <2>5, <3>2 DEF Others
  <2>6. ASSUME NEW route \in routes, Fresh(route) PROVE Answered(leg)'
    BY <1>5, <2>4, <2>6 DEF Others
  <2> QED  BY <1>6, <2>3, <2>5, <2>6
<1>10. \A r \in candidates', i \in 1 .. n : r.seconds < results[i].seconds => Tied(r.seconds, i)
  <2>1. ASSUME NEW route \in routes, NEW i \in 1 .. n, route.seconds < results[i].seconds
        PROVE  Tied(route.seconds, i)
    BY <1>1, <1>5, <2>1, DetoursTie DEF e
  <2> QED  BY <1>1, <1>6, <2>1 DEF OrderInv
<1>11. OrderInv'
  <2>1. Others \subseteq Others' /\ results'[1] = results[1]
    BY <1>1, <1>8 DEF Others
  <2>2. \A i \in 1 .. (IF n = 1 THEN removed + 1 ELSE Len(results[1].path)) : Answered(i)'
    <3>1. \A i \in 1 .. (IF n = 1 THEN removed ELSE Len(results[1].path)) : Answered(i)'
      BY <1>1, <2>1, AnswersStay DEF OrderInv
    <3> QED  BY <1>1, <1>3, <1>9, <3>1
  <2>3. \A r \in candidates', i \in 1 .. Len(results') :
           r.seconds < results'[i].seconds => Tied(r.seconds, i)'
    BY <1>1, <1>10 DEF Tied
  <2>4. A!RoutesAreOrdered'
    BY <1>1 DEF OrderInv, A!RoutesAreOrdered
  <2> QED  BY <1>1, <2>2, <2>3, <2>4, SameAlternatives DEF OrderInv
<1> QED  BY <1>1, <1>8, <1>11 DEF AlternativesInv

(* The best candidate is chosen. If it is the second route, any other path *)
(* differs from the first in an edge, and a way around that edge no slower *)
(* than it is among the candidates.                                        *)
LEMMA AlternativesChoose ==
    ASSUME AlternativesInv, A!Choose
    PROVE  AlternativesInv'
<1> DEFINE n == Len(results)
<1>1. /\ ResultsInv /\ OrderInv /\ scenario \in AlternativeScenarios
      /\ phase = "working" /\ phase' = "working" /\ UNCHANGED <<scenario, seen>>
      /\ removed' = 0 /\ removed = Len(results[n].path)
      /\ scenario.k \in 1 .. 10 /\ n < scenario.k
  BY DEF A!Choose, A!Legs, A!previous, A!k, AlternativesInv
<1>2. PICK route \in candidates :
          /\ \A other \in candidates : route.seconds <= other.seconds
          /\ results' = Append(results, route) /\ candidates' = candidates \ {route}
  BY DEF A!Choose, A!Cheapest
<1>3. /\ results \in Seq(Found) /\ n \in Nat \ {0} /\ \A i \in 1 .. n : results[i] \in Found
      /\ candidates \subseteq Found /\ route \in Found
  BY <1>1, <1>2 DEF ResultsInv
<1>4. \A r \in Found : /\ r.path \in AllPaths /\ r.seconds \in Nat
                       /\ r.seconds = Took(Ways, Asked, r.path)
                       /\ Len(r.path) \in Nat \ {0} /\ DOMAIN r.path = 1 .. Len(r.path)
  BY <1>1, FoundIs
<1>5. /\ results' \in Seq(Found) /\ Len(results') = n + 1 /\ results'[n + 1] = route
      /\ \A i \in 1 .. n : results'[i] = results[i]
  BY <1>2, <1>3
<1>6. Others' = Others /\ results'[1] = results[1]
  <2>1. 1 \in 1 .. n /\ results'[1] = results[1]
    BY <1>3, <1>5
  <2>2. {results'[i] : i \in 2 .. (n + 1)} = {results[i] : i \in 2 .. n} \union {route}
    <3>1. 2 .. (n + 1) = (2 .. n) \union {n + 1} /\ 2 .. n \subseteq 1 .. n
      BY <1>3
    <3> QED  BY <1>5, <3>1
  <2> QED  BY <1>2, <1>5, <2>1, <2>2 DEF Others
<1>7. ResultsInv'
  <2>1. \A i, j \in 1 .. (n + 1) : results'[i].path = results'[j].path => i = j
    <3>1. 1 .. (n + 1) = (1 .. n) \union {n + 1}
      BY <1>3
    <3> QED  BY <1>1, <1>2, <1>5, <3>1 DEF ResultsInv, A!RoutesDiffer
  <2>2. \A r \in candidates', i \in 1 .. (n + 1) : results'[i].path # r.path
    <3>1. ASSUME NEW r \in candidates, r.path = route.path PROVE r = route
      <4>1. r \in Found /\ route \in Found /\ r.seconds = route.seconds
        BY <1>3, <1>4, <3>1
      <4> QED  BY <3>1, <4>1 DEF Found
    <3>2. \A i \in 1 .. (n + 1) : i \in 1 .. n \/ i = n + 1
      BY <1>3
    <3> QED  BY <1>1, <1>2, <1>5, <3>1, <3>2 DEF ResultsInv
  <2>3. seen' = {r.path : r \in candidates'} \union {results'[i].path : i \in 1 .. (n + 1)}
    <3>1. {results'[i].path : i \in 1 .. (n + 1)} =
             {results[i].path : i \in 1 .. n} \union {route.path}
      <4>1. 1 .. (n + 1) = (1 .. n) \union {n + 1}
        BY <1>3
      <4> QED  BY <1>5, <4>1
    <3> QED  BY <1>1, <1>2, <3>1 DEF ResultsInv
  <2>4. removed' \in 0 .. Len(results'[n + 1].path)
    BY <1>1, <1>3, <1>4, <1>5
  <2>5. results' # <<>>
    BY <1>3, <1>5
  <2> QED  BY <1>1, <1>2, <1>3, <1>5, <2>1, <2>2, <2>3, <2>4, <2>5, SameAlternatives
           DEF ResultsInv, A!RoutesDiffer
<1>8. \A i \in 1 .. Len(results[1].path) : Answered(i)
  BY <1>1 DEF OrderInv
<1>9. ASSUME NEW r \in candidates \union {route}, NEW i \in 1 .. (n + 1),
             r.seconds < results'[i].seconds
      PROVE  i \in 1 .. n /\ Tied(r.seconds, i) /\ Tied(r.seconds, i)'
  <2>1. r \in candidates /\ r.seconds \in Nat /\ route.seconds \in Nat /\ route.seconds <= r.seconds
    BY <1>2, <1>3, <1>4
  <2>2. i \in 1 .. n
    BY <1>3, <1>5, <1>9, <2>1
  <2>3. Tied(r.seconds, i)
    BY <1>1, <1>5, <1>9, <2>1, <2>2 DEF OrderInv
  <2>4. \A h \in 1 .. (i - 1) : results'[h] = results[h]
    BY <1>3, <1>5, <2>2
  <2> QED  BY <2>2, <2>3, <2>4 DEF Tied
<1>10. A!RoutesAreOrdered'
  <2> SUFFICES ASSUME NEW i \in 1 .. (n + 1), NEW j \in 1 .. (n + 1), i < j,
                      results'[j].seconds < results'[i].seconds
               PROVE  \E h \in 1 .. (i - 1) : results'[h].seconds = results'[j].seconds
    BY <1>5 DEF A!RoutesAreOrdered
  <2>1. CASE j = n + 1
    BY <1>5, <1>9, <2>1 DEF Tied
  <2>2. CASE j # n + 1
    <3>1. i \in 1 .. n /\ j \in 1 .. n /\ \A h \in 1 .. (i - 1) : h \in 1 .. n
      BY <1>3, <2>2
    <3> QED  BY <1>1, <1>5, <3>1 DEF OrderInv, A!RoutesAreOrdered
  <2> QED  BY <2>1, <2>2
<1>11. \A p \in AllPaths \ {results[1].path} : results'[2].seconds <= Took(Ways, Asked, p)
  <2>1. CASE n # 1
    <3>1. 2 \in 1 .. n
      BY <1>3, <2>1
    <3> QED  BY <1>1, <1>5, <3>1 DEF OrderInv
  <2>2. ASSUME n = 1, NEW p \in AllPaths, p # results[1].path
        PROVE  results'[2].seconds <= Took(Ways, Asked, p)
    <3>1. results[1].path \in AllPaths /\ 1 \in 1 .. n
      BY <1>3, <1>4
    <3>2. PICK i \in DOMAIN results[1].path : Avoids(p, results[1].path[i])
      BY <1>1, <2>2, <3>1, AlternativeScenario, PathsDiffer DEF AllPaths
    <3>3. i \in 1 .. Len(results[1].path) /\ p \in Detours(i)
      BY <1>3, <1>4, <2>2, <3>1, <3>2 DEF Detours
    <3>4. PICK r \in Others : r.path \in Detours(i) /\ r.seconds <= Took(Ways, Asked, p)
      BY <1>8, <3>3 DEF Answered
    <3>5. r \in candidates
      BY <2>2 DEF Others
    <3>6. /\ results'[2] = route /\ route.seconds \in Nat /\ r.seconds \in Nat
          /\ Took(Ways, Asked, p) \in Nat
      <4>1. Took(Ways, Asked, p) \in Nat
        BY <1>1, <2>2, AlternativeScenario, PathTakesTime DEF AllPaths
      <4> QED  BY <1>3, <1>4, <1>5, <2>2, <3>5, <4>1
    <3> QED  BY <1>2, <3>4, <3>5, <3>6
  <2> QED  BY <2>1, <2>2
<1>12. OrderInv'
  <2>1. \A i \in 1 .. Len(results[1].path) : Answered(i)'
    BY <1>1, <1>6, <1>8, AnswersStay
  <2>2. \A r \in candidates', i \in 1 .. Len(results') :
           r.seconds < results'[i].seconds => Tied(r.seconds, i)'
    BY <1>2, <1>5, <1>9
  <2>3. n + 1 # 1
    BY <1>3
  <2> QED  BY <1>1, <1>5, <1>6, <1>10, <1>11, <2>1, <2>2, <2>3, SameAlternatives DEF OrderInv
<1>13. Len(results') <= scenario.k
  BY <1>1, <1>3, <1>5
<1> QED  BY <1>1, <1>7, <1>12, <1>13 DEF AlternativesInv

LEMMA AlternativesSame ==
    ASSUME UNCHANGED <<scenario, results, seen, candidates, removed>>
    PROVE  (ResultsInv => ResultsInv') /\ (OrderInv => OrderInv')
<1>1. /\ \A i : Answered(i)' = Answered(i)
      /\ A!RoutesDiffer' = A!RoutesDiffer /\ A!RoutesAreOrdered' = A!RoutesAreOrdered
  BY SameAlternatives DEF Answered, Detours, Others, A!RoutesDiffer, A!RoutesAreOrdered
<1>2. \A s, i : Tied(s, i)' = Tied(s, i)
  BY DEF Tied
<1> QED  BY <1>1, <1>2, SameAlternatives, Zenon DEF ResultsInv, OrderInv

(* With no candidate after the first round there is no other way at all.   *)
LEMMA AlternativesReturn ==
    ASSUME AlternativesInv, A!Return
    PROVE  AlternativesInv'
<1> DEFINE n == Len(results)
<1>1. /\ ResultsInv /\ OrderInv /\ scenario \in AlternativeScenarios
      /\ phase' = "returned" /\ UNCHANGED <<scenario, results, seen, candidates, removed>>
      /\ scenario.k \in 1 .. 10 /\ n <= scenario.k
      /\ n >= scenario.k \/ (removed = Len(results[n].path) /\ candidates = {})
  BY DEF A!Return, A!Legs, A!previous, A!k, AlternativesInv
<1>2. ASSUME n = 1, scenario.k # 1, NEW p \in AllPaths PROVE p = results[1].path
  <2>1. removed = Len(results[1].path) /\ candidates = {}
    BY <1>1, <1>2
  <2>2. Others = {}
    BY <1>2, <2>1 DEF Others
  <2>3. results[1] \in Found
    BY <1>1, <1>2 DEF ResultsInv
  <2>4. results[1].path \in AllPaths /\ DOMAIN results[1].path = 1 .. Len(results[1].path)
    BY <1>1, <2>3, FoundIs
  <2>5. \A i \in DOMAIN results[1].path : Detours(i) = {}
    BY <1>1, <1>2, <2>1, <2>2, <2>4 DEF OrderInv, Answered
  <2>6. p # results[1].path => \E i \in DOMAIN results[1].path : p \in Detours(i)
    BY <1>1, <2>4, AlternativeScenario, PathsDiffer DEF AllPaths, Detours
  <2> QED  BY <2>5, <2>6
<1>3. ResultsInv' /\ OrderInv'
  BY <1>1, AlternativesSame
<1> QED  BY <1>1, <1>2, <1>3, SameAlternatives DEF AlternativesInv

LEMMA AlternativesInit == A!Init => AlternativesInv
  BY DEF A!Init, AlternativesInv

LEMMA AlternativesStep == AlternativesInv /\ [A!Next]_A!vars => AlternativesInv'
<1> SUFFICES ASSUME AlternativesInv, [A!Next]_A!vars PROVE AlternativesInv'
  OBVIOUS
<1>1. CASE A!Refuse
  BY <1>1 DEF A!Refuse, AlternativesInv
<1>2. CASE A!First
  BY <1>2, AlternativesStart
<1>3. CASE A!RemoveLeg
  BY <1>3, AlternativesRemove
<1>4. CASE A!Choose
  BY <1>4, AlternativesChoose
<1>5. CASE A!Return
  BY <1>5, AlternativesReturn
<1>6. CASE UNCHANGED A!vars
  <2>1. UNCHANGED <<scenario, phase, results, seen, candidates, removed>>
    BY <1>6 DEF A!vars
  <2>2. (ResultsInv => ResultsInv') /\ (OrderInv => OrderInv')
    BY <2>1, AlternativesSame
  <2> QED  BY <2>1, <2>2, SameAlternatives, Zenon DEF AlternativesInv
<1> QED  BY <1>1, <1>2, <1>3, <1>4, <1>5, <1>6 DEF A!Next

LEMMA AlternativesInvMeans ==
    ASSUME AlternativesInv
    PROVE  A!TypeOK /\ A!RoutesAreOrdered /\ A!RoutesDiffer /\ A!SecondIsSecondBest
<1>1. CASE phase \in {"called", "refused"}
  BY <1>1 DEF AlternativesInv, A!TypeOK, A!RoutesAreOrdered, A!RoutesDiffer,
     A!SecondIsSecondBest
<1>2. CASE phase \in {"working", "returned"}
  <2>1. /\ ResultsInv /\ OrderInv /\ scenario \in AlternativeScenarios
        /\ scenario.k \in 1 .. 10 /\ Len(results) <= scenario.k
    BY <1>2 DEF AlternativesInv
  <2>2. results \in Seq(Found) /\ Len(results) \in Nat \ {0}
    BY <2>1 DEF ResultsInv
  <2>3. \A i \in 1 .. Len(results) : results[i].seconds \in Nat /\ Len(results[i].path) \in Nat
    BY <2>1, <2>2, FoundIs
  <2>4. removed \in Nat
    BY <2>1, <2>2, <2>3 DEF ResultsInv
  <2>5. A!TypeOK
    BY <1>2, <2>1, <2>2, <2>3, <2>4 DEF AlternativesInv, ResultsInv, A!TypeOK, A!k
  <2>6. A!SecondIsSecondBest
    <3> SUFFICES ASSUME phase = "returned", scenario.k >= 2,
                        NEW p \in AllPaths, p # results[1].path
                 PROVE  Len(results) >= 2 /\ results[2].seconds <= Took(Ways, Asked, p)
      BY <2>1, AlternativeScenario, AlternativesNetwork
         DEF A!SecondIsSecondBest, A!k, AllPaths, Took
    <3>1. Len(results) # 1
      <4>1. Len(results) = 1 => scenario.k = 1 \/ \A o \in AllPaths : o = results[1].path
        BY DEF AlternativesInv
      <4> QED  BY <4>1
    <3>2. Len(results) >= 2
      <4>1. \A n \in Nat \ {0} : n # 1 => n >= 2
        OBVIOUS
      <4> QED  BY <2>2, <3>1, <4>1, Zenon
    <3> QED  BY <2>1, <3>2 DEF OrderInv
  <2> QED  BY <2>1, <2>5, <2>6 DEF ResultsInv, OrderInv
<1> QED  BY <1>1, <1>2 DEF AlternativesInv

(* The alternatives differ, come in order except for ties, and the first   *)
(* of them is the second best path there is: for every network, request    *)
(* and number of routes, whichever of several fastest paths is found.      *)
THEOREM AlternativesAreAlwaysRight == Spec => []AlternativesAreRight
<1> DEFINE Inv == query = "alternatives" => AlternativesInv
<1>1. Init => Inv
  <2> SUFFICES ASSUME Init, query = "alternatives" PROVE AlternativesInv
    OBVIOUS
  <2>1. A!Init
    BY DEF Init
  <2> QED  BY <2>1, AlternativesInit
<1>2. Inv /\ [Next]_vars => Inv'
  <2> SUFFICES ASSUME Inv, [Next]_vars, query' = "alternatives" PROVE AlternativesInv'
    OBVIOUS
  <2>1. query = "alternatives" /\ [A!Next]_A!vars
    BY QueryStep
  <2> QED  BY <2>1, AlternativesStep
<1>3. Inv => AlternativesAreRight
  BY AlternativesInvMeans DEF AlternativesAreRight
<1> QED  BY <1>1, <1>2, <1>3, PTL DEF Spec

-------------------------------------------------------------------------------
(* The cost of an edge                                                     *)

LEMMA CostsNetwork ==
    /\ \A n : E!WellFormed(n) = WellFormed(n)
    /\ \A n, e, t : E!IsExact(n, e, t) = IsExact(n, e, t)
    /\ \A n, r, e, t : E!LoopsAgree(n, r, e, t) <=> LoopsAgree(n, r, e, t)
<1>1. \A n : E!WellFormed(n) = WellFormed(n)
  BY Zenon DEF E!WellFormed, WellFormed, E!IsFiniteSet, IsFiniteSet
<1>2. \A n, e, t : E!Affecting(n, e, t) = Affecting(n, e, t)
  BY Zenon DEF E!Affecting, Affecting, E!Contains, Contains, E!Always, Always
<1>3. \A n, e, t : E!Seconds(n, e, t) = Seconds(n, e, t)
  BY Zenon DEF E!Seconds, Seconds, E!FoldSet, FoldSet, E!MapThenFoldSet, MapThenFoldSet,
     E!Slowed, Slowed, E!Affecting, Affecting, E!Contains, Contains, E!Always, Always
<1>4. \A r, e, t : E!Usable(r, e, t) = Usable(r, e, t)
  BY Zenon DEF E!Usable, Usable, E!Supports, Supports, E!Contains, Contains, E!Always, Always
<1>5. \A n, r, e, t : E!Allowed(n, r, e, t) = Allowed(n, r, e, t)
  BY <1>2, <1>4, Zenon DEF E!Allowed, Allowed
<1>6. \A S : E!Orders(S) = Orders(S)
  BY Zenon DEF E!Orders, Orders, E!Bijection, Bijection, E!Injection, Injection,
     E!Surjection, Surjection, E!IsInjective, IsInjective, E!Cardinality, Cardinality
<1>7. \A S : E!ByPriority(S) = ByPriority(S)
  BY <1>6, Zenon DEF E!ByPriority, ByPriority, E!MoreUrgent, MoreUrgent
<1>8. \A S : E!ByPriorityAndAge(S) = ByPriorityAndAge(S)
  BY <1>6, Zenon DEF E!ByPriorityAndAge, ByPriorityAndAge, E!incidentFirst, incidentFirst
<1>9. \A o : E!Through(o) = Through(o)
  BY Zenon DEF E!Through, Through, E!Apply, Apply, E!Factored, Factored, E!Base, Base,
     E!Refused, Refused
<1>10. \A o : E!EffectiveSpeedFactor(o) = EffectiveSpeedFactor(o)
  BY Zenon DEF E!EffectiveSpeedFactor, EffectiveSpeedFactor, E!Factored, Factored, E!Base, Base
<1>11. \A r, e, t, o : E!EffectiveCost(r, e, t, o) = EffectiveCost(r, e, t, o)
  BY <1>4, <1>9, Zenon DEF E!EffectiveCost, EffectiveCost, E!Refused, Refused
<1>12. \A o : E!CalculatorCost(o) = CalculatorCost(o)
  BY <1>9, Zenon DEF E!CalculatorCost, CalculatorCost
<1>13. \A r, e, t, o : E!Eligible(r, e, t, o) = Eligible(r, e, t, o)
  BY <1>4, Zenon DEF E!Eligible, Eligible
<1>14. /\ \A o : E!SnapshotClosed(o) = SnapshotClosed(o)
       /\ \A e, c : E!Scaled(e, c) = Scaled(e, c)
  BY Zenon DEF E!SnapshotClosed, SnapshotClosed, E!Scaled, Scaled
<1>15. \A n, e, t : E!IsExact(n, e, t) = IsExact(n, e, t)
  BY <1>2, <1>6, <1>10, Zenon DEF E!IsExact, IsExact
<1>16. ASSUME NEW n, NEW r, NEW e, NEW t PROVE E!LoopsAgree(n, r, e, t) <=> LoopsAgree(n, r, e, t)
  <2> DEFINE S == Affecting(n, e, t)
             One(o, g) ==
               LET cost == EffectiveCost(r, e, t, o)
                   calculated == CalculatorCost(g)
               IN /\ cost.open <=> Allowed(n, r, e, t)
                  /\ cost.open <=> Eligible(r, e, t, g)
                  /\ calculated.open <=> ~ SnapshotClosed(o)
                  /\ cost.open =>
                        /\ calculated.open
                        /\ Scaled(e, cost) = Seconds(n, e, t)
                        /\ Scaled(e, calculated) = Seconds(n, e, t)
                        /\ Scaled(e, EffectiveSpeedFactor(o)) = Seconds(n, e, t)
             Other(o, g) ==
               LET cost == E!EffectiveCost(r, e, t, o)
                   calculated == E!CalculatorCost(g)
               IN /\ cost.open <=> E!Allowed(n, r, e, t)
                  /\ cost.open <=> E!Eligible(r, e, t, g)
                  /\ calculated.open <=> ~ E!SnapshotClosed(o)
                  /\ cost.open =>
                        /\ calculated.open
                        /\ E!Scaled(e, cost) = E!Seconds(n, e, t)
                        /\ E!Scaled(e, calculated) = E!Seconds(n, e, t)
                        /\ E!Scaled(e, E!EffectiveSpeedFactor(o)) = E!Seconds(n, e, t)
  <2>1. \A o, g : One(o, g) <=> Other(o, g)
    BY <1>3, <1>5, <1>10, <1>11, <1>12, <1>13, <1>14
  <2>2. LoopsAgree(n, r, e, t) <=> \A o \in ByPriority(S), g \in ByPriorityAndAge(S) : One(o, g)
    BY Zenon DEF LoopsAgree
  <2>3. E!LoopsAgree(n, r, e, t) <=>
           \A o \in ByPriority(S), g \in ByPriorityAndAge(S) : Other(o, g)
    BY <1>2, <1>7, <1>8, Zenon DEF E!LoopsAgree
  <2> HIDE DEF One, Other
  <2> QED  BY <2>1, <2>2, <2>3, Zenon
<1> QED  BY <1>1, <1>15, <1>16

(* Route search, CostCalculator with EdgeEligibility and the eligibility   *)
(* snapshot come to one cost for an edge, whatever incidents there are on  *)
(* it, if the division by their factors is exact.                          *)
THEOREM CostsAlwaysAgree == Spec => []CostsAgree
<1> DEFINE Inv == query = "costs" => scenario \in CostScenarios
<1>1. Init => Inv
  BY DEF Init
<1>2. Inv /\ [Next]_vars => Inv'
  <2> SUFFICES ASSUME Inv, [Next]_vars, query' = "costs" PROVE scenario' \in CostScenarios
    OBVIOUS
  <2>1. query = "costs"
    BY QueryStep
  <2>2. UNCHANGED vars
    BY <2>1 DEF Next, FindRoute, FindReachable, FindAlternatives, FindComponents, FindClusters
  <2> QED  BY <2>1, <2>2 DEF vars
<1>3. Inv => CostsAgree
  <2> SUFFICES ASSUME scenario \in CostScenarios, NEW at \in LookedAt
               PROVE  E!LoopsAgree(OneEdge(scenario), scenario.request, scenario.edge, at)
    BY DEF CostsAgree
  <2> DEFINE network == OneEdge(scenario)
  <2>1. E!WellFormed(network) /\ E!IsExact(network, scenario.edge, at)
    BY CostsAssumption
  <2>2. scenario.edge \in network.edges
    BY DEF OneEdge
  <2> HIDE DEF network
  <2>3. WellFormed(network) /\ IsExact(network, scenario.edge, at)
    BY <2>1, CostsNetwork, Zenon
  <2>4. LoopsAgree(network, scenario.request, scenario.edge, at)
    BY <2>2, <2>3, LoopsDoAgree
  <2> QED  BY <2>4, CostsNetwork, Zenon DEF network
<1> QED  BY <1>1, <1>2, <1>3, PTL DEF Spec

===============================================================================
